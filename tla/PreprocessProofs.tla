-------------------------- MODULE PreprocessProofs --------------------------
(***************************************************************************)
(* Proofs about Preprocess, and about the Schema that it fills, for every  *)
(* catalog and every query: the maps of the schema always index its array, *)
(* no predicate is lost or owned twice while the condition is folded and   *)
(* split, what comes out of that is folded and means what the query says,  *)
(* and a query is refused iff it is ill-formed.                            *)
(***************************************************************************)
EXTENDS Preprocess, Induction, FiniteSetTheorems

-----------------------------------------------------------------------------
(* Schema *)

(* What map[k1][k2] = v leaves in a nested map. *)
LEMMA AssignProperties ==
  ASSUME NEW map, NEW k1, NEW k2, NEW v
  PROVE  /\ Indexed(Assign(map, k1, k2, v), k1, k2)
         /\ Assign(map, k1, k2, v)[k1][k2] = v
         /\ \A a, b :
              (a # k1 \/ b # k2) =>
                /\ Indexed(Assign(map, k1, k2, v), a, b) <=> Indexed(map, a, b)
                /\ Indexed(map, a, b) => Assign(map, k1, k2, v)[a][b] = map[a][b]
<1> DEFINE row == IF k1 \in DOMAIN map THEN map[k1] ELSE EmptyMap
           new == [k \in DOMAIN row \cup {k2} |-> IF k = k2 THEN v ELSE row[k]]
           m   == [k \in DOMAIN map \cup {k1} |-> IF k = k1 THEN new ELSE map[k]]
<1>1. Assign(map, k1, k2, v) = m
  BY DEF Assign
<1>2. DOMAIN m = DOMAIN map \cup {k1} /\ m[k1] = new
  OBVIOUS
<1>3. DOMAIN new = DOMAIN row \cup {k2} /\ new[k2] = v
  OBVIOUS
<1>4. \A b : b # k2 => (b \in DOMAIN new <=> b \in DOMAIN row)
             /\ (b \in DOMAIN row => new[b] = row[b])
  OBVIOUS
<1>5. \A a : a # k1 => (a \in DOMAIN m <=> a \in DOMAIN map)
             /\ (a \in DOMAIN map => m[a] = map[a])
  OBVIOUS
<1>6. \A b : b \in DOMAIN row <=> Indexed(map, k1, b)
  BY DEF Indexed, EmptyMap
<1>7. \A b : Indexed(map, k1, b) => row[b] = map[k1][b]
  BY DEF Indexed
<1> HIDE DEF new, row, m
<1> QED
  BY <1>1, <1>2, <1>3, <1>4, <1>5, <1>6, <1>7 DEF Indexed

(* An assignment keeps the type of a nested map. *)
LEMMA AssignType ==
  ASSUME NEW map, NEW S, NEW T, NEW ids, NEW more,
         NestedMap(map, S, T, ids), ids \subseteq more,
         NEW k1 \in S, NEW k2 \in T, NEW v \in more
  PROVE  NestedMap(Assign(map, k1, k2, v), S, T, more)
<1> DEFINE m == Assign(map, k1, k2, v)
<1>1. DOMAIN m = DOMAIN map \cup {k1}
  BY DEF Assign
<1>2. \A a, b : a \in DOMAIN m /\ b \in DOMAIN m[a] =>
               (a = k1 /\ b = k2) \/ Indexed(map, a, b)
  BY AssignProperties DEF Indexed
<1>3. \A a, b : a \in DOMAIN m /\ b \in DOMAIN m[a] => b \in T /\ m[a][b] \in more
  <2> SUFFICES ASSUME NEW a, NEW b, a \in DOMAIN m, b \in DOMAIN m[a]
               PROVE  b \in T /\ m[a][b] \in more
    OBVIOUS
  <2>1. CASE a = k1 /\ b = k2
    BY <2>1, AssignProperties
  <2>2. CASE ~(a = k1 /\ b = k2)
    <3>1. Indexed(map, a, b) /\ m[a][b] = map[a][b]
      BY <2>2, <1>2, AssignProperties
    <3> QED
      BY <3>1 DEF NestedMap, Indexed
  <2> QED
    BY <2>1, <2>2
<1> HIDE DEF m
<1> QED
  BY <1>1, <1>3 DEF NestedMap, m

-----------------------------------------------------------------------------
(* Appending an item keeps the types ... *)
LEMMA AppendTyped ==
  ASSUME TypeOK, NEW it \in SchemaItems, append_schema(it)
  PROVE  TypeOK'
<1> USE DEF TypeOK
<1>1. it.relation_ \in Relations /\ it.attribute_ \in Attributes
  BY DEF Relations, Attributes
<1>2. /\ schema_' \in Seq(SchemaItems)
      /\ Len(schema_') = Len(schema_) + 1
      /\ mapped' \in 0 .. Len(schema_')
  BY DEF append_schema, Constructed
<1>3. Positions \subseteq Positions' /\ Len(schema_) \in Positions'
  BY <1>2 DEF Positions
<1>4. NestedMap(rel_map_', Relations, Attributes, Positions')
      /\ NestedMap(attr_map_', Attributes, Relations, Positions')
  BY <1>1, <1>3, AssignType DEF append_schema
<1> QED
  BY <1>2, <1>4

(* The schema's variables keep their types. *)
THEOREM TypeCorrect == Spec => []TypeOK
<1>1. Init => TypeOK
  <2> SUFFICES ASSUME Init PROVE TypeOK
    OBVIOUS
  <2>1. PICK n \in 0 .. MaxItems : schema_ \in [1 .. n -> SchemaItems]
    BY DEF Init, Arrays
  <2>2. schema_ \in Seq(SchemaItems)
    BY <2>1, MaxItemsAssumption
  <2>3. NestedMap(EmptyMap, Relations, Attributes, Positions)
        /\ NestedMap(EmptyMap, Attributes, Relations, Positions)
    BY DEF NestedMap, EmptyMap
  <2> QED
    BY <2>2, <2>3 DEF Init, TypeOK
<1>2. TypeOK /\ [Next]_vars => TypeOK'
  <2> SUFFICES ASSUME TypeOK, [Next]_vars PROVE TypeOK'
    OBVIOUS
  <2> USE DEF TypeOK
  <2>1. CASE MapItem
    <3> DEFINE it == Item(mapped)
    <3>1. mapped \in Positions /\ it \in SchemaItems
      BY <2>1 DEF MapItem, Constructed, Item, Positions
    <3>2. it.relation_ \in Relations /\ it.attribute_ \in Attributes
      BY <3>1 DEF Relations, Attributes
    <3>3. Positions' = Positions
      BY <2>1 DEF MapItem, Positions
    <3>4. NestedMap(rel_map_', Relations, Attributes, Positions)
          /\ NestedMap(attr_map_', Attributes, Relations, Positions)
      BY <2>1, <3>1, <3>2, AssignType DEF MapItem
    <3> QED
      BY <2>1, <3>1, <3>3, <3>4 DEF MapItem, Positions
  <2>2. ASSUME NEW it \in SchemaItems, append_schema(it)
        PROVE  TypeOK'
    BY <2>2, AppendTyped
  <2>3. CASE clear
    BY <2>3 DEF clear, NestedMap, EmptyMap
  <2>4. CASE UNCHANGED vars
    BY <2>4 DEF vars, Positions
  <2> QED
    BY <2>1, <2>2, <2>3, <2>4 DEF Next
<1> QED
  BY <1>1, <1>2, PTL DEF Spec

(***************************************************************************)
(* When position p = mapped is indexed in both maps and becomes the last   *)
(* one reached, the maps still index the array: p is the last position of  *)
(* its own column, and the last position of any other is unchanged.        *)
(***************************************************************************)
LEMMA MapOne ==
  ASSUME TypeOK, MapsIndexTheArray,
         NEW it, NEW p, p = mapped,
         mapped' = p + 1,
         \A i \in 0 .. p - 1 : Item(i)' = Item(i),
         Item(p)' = it,
         rel_map_' = Assign(rel_map_, it.relation_, it.attribute_, p),
         attr_map_' = Assign(attr_map_, it.attribute_, it.relation_, p)
  PROVE  MapsIndexTheArray'
<1> SUFFICES ASSUME NEW rel \in Relations, NEW attr \in Attributes
             PROVE  /\ Indexes(rel_map_, rel, attr, rel, attr)'
                    /\ Indexes(attr_map_, attr, rel, rel, attr)'
  BY DEF MapsIndexTheArray
<1>1. p \in Nat
  BY DEF TypeOK
<1>2. /\ Indexes(rel_map_, rel, attr, rel, attr)
      /\ Indexes(attr_map_, attr, rel, rel, attr)
  BY DEF MapsIndexTheArray
<1>3. \A i \in 0 .. p - 1 : Holds(i, rel, attr)' <=> Holds(i, rel, attr)
  BY DEF Holds
<1>4. CASE rel = it.relation_ /\ attr = it.attribute_
  <2>1. IsLast(p, rel, attr)'
    <3>1. Item(p)'.relation_ = rel /\ Item(p)'.attribute_ = attr
      BY <1>4
    <3> QED
      BY <1>1, <3>1 DEF IsLast, Holds
  <2>2. /\ Indexed(rel_map_', rel, attr) /\ rel_map_'[rel][attr] = p
        /\ Indexed(attr_map_', attr, rel) /\ attr_map_'[attr][rel] = p
    BY <1>4, AssignProperties
  <2> QED
    BY <2>1, <2>2 DEF Indexes, Indexed
<1>5. CASE ~(rel = it.relation_ /\ attr = it.attribute_)
  <2>1. ~Holds(p, rel, attr)'
    BY <1>5 DEF Holds
  <2>2. \A i \in 0 .. mapped' - 1 : i \in 0 .. p - 1 \/ i = p
    BY <1>1
  <2>3. \A i : IsLast(i, rel, attr) => IsLast(i, rel, attr)'
    BY <1>1, <1>3, <2>1, <2>2 DEF IsLast
  <2>4. (\E i \in 0 .. mapped - 1 : Holds(i, rel, attr))'
          => \E i \in 0 .. p - 1 : Holds(i, rel, attr)
    BY <1>3, <2>1, <2>2
  <2>5. /\ Indexed(rel_map_', rel, attr) <=> Indexed(rel_map_, rel, attr)
        /\ Indexed(rel_map_, rel, attr) => rel_map_'[rel][attr] = rel_map_[rel][attr]
    BY <1>5, AssignProperties
  <2>6. /\ Indexed(attr_map_', attr, rel) <=> Indexed(attr_map_, attr, rel)
        /\ Indexed(attr_map_, attr, rel) => attr_map_'[attr][rel] = attr_map_[attr][rel]
    BY <1>5, AssignProperties
  <2>7. Indexes(rel_map_, rel, attr, rel, attr)'
    BY <1>2, <2>3, <2>4, <2>5 DEF Indexes, Indexed
  <2>8. Indexes(attr_map_, attr, rel, rel, attr)'
    BY <1>2, <2>3, <2>4, <2>6 DEF Indexes, Indexed
  <2> QED
    BY <2>7, <2>8
<1> QED
  BY <1>4, <1>5

(* ... and keeps the maps in step with the array. *)
LEMMA AppendIndexed ==
  ASSUME TypeOK, MapsIndexTheArray, NEW it \in SchemaItems, append_schema(it)
  PROVE  MapsIndexTheArray'
<1> PICK p : p = mapped
  OBVIOUS
<1>1. p = Len(schema_) /\ schema_ \in Seq(SchemaItems)
  BY DEF append_schema, Constructed, TypeOK
<1>2. \A i \in 0 .. p - 1 : Item(i)' = Item(i)
  BY <1>1 DEF append_schema, Item
<1>3. Item(p)' = it
  BY <1>1 DEF append_schema, Item
<1> QED
  BY <1>1, <1>2, <1>3, MapOne DEF append_schema

(* rel_map_ and attr_map_ always agree with each other and with the array. *)
THEOREM MapsAgree == Spec => []MapsIndexTheArray
<1>1. Init => MapsIndexTheArray
  BY DEF Init, MapsIndexTheArray, Indexes, Indexed, EmptyMap
<1>2. TypeOK /\ MapsIndexTheArray /\ [Next]_vars => MapsIndexTheArray'
  <2> SUFFICES ASSUME TypeOK, MapsIndexTheArray, [Next]_vars
               PROVE  MapsIndexTheArray'
    OBVIOUS
  <2>1. CASE MapItem
    <3> PICK p : p = mapped
      OBVIOUS
    <3>1. \A i : Item(i)' = Item(i)
      BY <2>1 DEF MapItem, Item
    <3> QED
      BY <2>1, <3>1, MapOne DEF MapItem
  <2>2. ASSUME NEW it \in SchemaItems, append_schema(it)
        PROVE  MapsIndexTheArray'
    BY <2>2, AppendIndexed
  <2>3. CASE clear
    BY <2>3 DEF clear, MapsIndexTheArray, Indexes, Indexed, EmptyMap
  <2>4. CASE UNCHANGED vars
    BY <2>4 DEF vars, MapsIndexTheArray, Indexes, IsLast, Holds, Item, Indexed
  <2> QED
    BY <2>1, <2>2, <2>3, <2>4 DEF Next
<1> QED
  BY <1>1, <1>2, TypeCorrect, PTL DEF Spec

-----------------------------------------------------------------------------
(* What get_relation_schema makes of the ids *)

(* Counting the smaller ones numbers the elements of a finite set of naturals, *)
(* from 0 and in their order.                                                  *)
LEMMA RanksNumberASet ==
  ASSUME NEW ids \in SUBSET Nat, IsFiniteSet(ids)
  PROVE  /\ Cardinality(ids) \in Nat
         /\ \A i \in ids : Cardinality({j \in ids : j < i}) \in 0 .. Cardinality(ids) - 1
         /\ \A h, i \in ids :
              h < i => Cardinality({j \in ids : j < h}) < Cardinality({j \in ids : j < i})
         /\ \A k \in 1 .. Cardinality(ids) :
              \E i \in ids : Cardinality({j \in ids : j < i}) = k - 1
<1> DEFINE Below(i) == {j \in ids : j < i}
           size == Cardinality(ids)
<1>1. size \in Nat
  BY FS_CardinalityType
<1>2. \A i : IsFiniteSet(Below(i)) /\ Cardinality(Below(i)) \in Nat
  BY FS_Subset, FS_CardinalityType
<1>3. ASSUME NEW h \in ids, NEW T, T \in SUBSET ids, Below(h) \cup {h} \subseteq T
      PROVE  Cardinality(Below(h)) < Cardinality(T)
  <2>1. IsFiniteSet(T) /\ Cardinality(T) \in Nat
    BY <1>3, FS_Subset, FS_CardinalityType
  <2>2. h \notin Below(h)
    OBVIOUS
  <2>3. Cardinality(Below(h) \cup {h}) = Cardinality(Below(h)) + 1
    BY <1>2, <2>2, FS_AddElement
  <2>4. Cardinality(Below(h) \cup {h}) <= Cardinality(T)
    BY <1>3, <2>1, FS_Subset
  <2> HIDE DEF Below
  <2> QED
    BY <1>2, <2>1, <2>3, <2>4
<1>4. ASSUME NEW h \in ids, NEW i \in ids, h < i
      PROVE  Cardinality(Below(h)) < Cardinality(Below(i))
  <2>1. \A x \in ids : x < h => x < i
    BY <1>4
  <2>2. Below(i) \in SUBSET ids /\ Below(h) \cup {h} \subseteq Below(i)
    BY <1>4, <2>1
  <2> HIDE DEF Below
  <2> QED
    BY <1>3, <2>2
<1>5. ASSUME NEW i \in ids PROVE Cardinality(Below(i)) \in 0 .. size - 1
  <2>1. Below(i) \cup {i} \subseteq ids
    OBVIOUS
  <2>2. Cardinality(Below(i)) < size
    BY <1>3, <2>1
  <2> HIDE DEF Below, size
  <2> QED
    BY <1>1, <1>2, <2>2
<1> DEFINE rank == [i \in ids |-> Cardinality(Below(i)) + 1]
<1>6. \A i \in ids : rank[i] = Cardinality(Below(i)) + 1 /\ rank[i] \in 1 .. size
  <2>1. \A i \in ids : rank[i] = Cardinality(Below(i)) + 1
    OBVIOUS
  <2>2. \A i \in ids : Cardinality(Below(i)) + 1 \in 1 .. size
    <3> HIDE DEF Below, size
    <3> QED
      BY <1>1, <1>5
  <2> QED
    BY <2>1, <2>2
<1>7. rank \in Injection(ids, 1 .. size)
  <2>1. rank \in [ids -> 1 .. size]
    BY <1>6
  <2>2. ASSUME NEW h \in ids, NEW i \in ids, rank[h] = rank[i] PROVE h = i
    <3>1. Cardinality(Below(h)) = Cardinality(Below(i))
      <4> HIDE DEF Below
      <4> QED
        BY <1>2, <2>2
    <3>2. ~ h < i /\ ~ i < h
      <4> HIDE DEF Below
      <4> QED
        BY <1>2, <1>4, <3>1
    <3> QED
      BY <3>2
  <2> QED
    BY <2>1, <2>2 DEF Injection, IsInjective
<1>8. IsFiniteSet(1 .. size) /\ Cardinality(1 .. size) = size
  BY <1>1, FS_Interval
<1>9. rank \in Surjection(ids, 1 .. size)
  BY <1>7, <1>8, FS_Injection
<1>10. ASSUME NEW k \in 1 .. size PROVE \E i \in ids : Cardinality(Below(i)) = k - 1
  <2>1. PICK i \in ids : rank[i] = k
    BY <1>9 DEF Surjection
  <2> HIDE DEF Below
  <2> QED
    BY <1>2, <1>6, <2>1
<1> QED
  BY <1>1, <1>4, <1>5, <1>10

(* The ids that the maps hold for a relation are its columns' last places. *)
LEMMA IdsAreLastPlaces ==
  ASSUME TypeOK, MapsIndexTheArray, Constructed, NEW rel \in Relations, NEW ids,
         ids = IF rel \in DOMAIN rel_map_
               THEN {rel_map_[rel][attr] : attr \in DOMAIN rel_map_[rel]}
               ELSE {}
  PROVE  ids = {i \in Positions : IsLast(i, rel, Item(i).attribute_)}
<1>1. mapped = Len(schema_) /\ Positions = 0 .. mapped - 1
  BY DEF Constructed, Positions
<1>2. ASSUME NEW i \in ids PROVE i \in Positions /\ IsLast(i, rel, Item(i).attribute_)
  <2>1. PICK attr \in DOMAIN rel_map_[rel] : rel \in DOMAIN rel_map_ /\ i = rel_map_[rel][attr]
    OBVIOUS
  <2>2. attr \in Attributes
    BY <2>1 DEF TypeOK, NestedMap
  <2>3. IsLast(i, rel, attr)
    BY <2>1, <2>2 DEF MapsIndexTheArray, Indexes, Indexed
  <2>4. attr = Item(i).attribute_ /\ i \in 0 .. mapped - 1
    BY <2>3 DEF IsLast, Holds
  <2> QED
    BY <1>1, <2>3, <2>4
<1>3. ASSUME NEW i \in Positions, IsLast(i, rel, Item(i).attribute_) PROVE i \in ids
  <2> DEFINE attr == Item(i).attribute_
  <2>1. attr \in Attributes
    BY DEF TypeOK, Positions, Item, Attributes
  <2>2. i \in 0 .. mapped - 1 /\ Holds(i, rel, attr)
    BY <1>3 DEF IsLast
  <2>3. Indexed(rel_map_, rel, attr) /\ IsLast(rel_map_[rel][attr], rel, attr)
    BY <2>1, <2>2 DEF MapsIndexTheArray, Indexes
  <2> DEFINE l == rel_map_[rel][attr]
  <2>4. l \in ids
    BY <2>3 DEF Indexed
  <2>5. i <= l /\ l <= i /\ l \in Int
    <3> HIDE DEF attr, l
    <3>1. /\ IsLast(l, rel, attr) /\ IsLast(i, rel, attr)
      BY <1>3, <2>3 DEF attr, l
    <3> QED
      BY <3>1 DEF IsLast
  <2>6. i = l
    <3> HIDE DEF l
    <3> QED
      BY <2>2, <2>5
  <2> QED
    BY <2>4, <2>6
<1> QED
  BY <1>2, <1>3

(* A scan's schema is the relation's columns in the order of the array, each *)
(* once and at its last place.                                               *)
LEMMA RelationSchemaIsOrdered ==
  ASSUME TypeOK, MapsIndexTheArray
  PROVE  RelationSchemaIsTheScan
<1> SUFFICES ASSUME Constructed, NEW rel \in Relations
             PROVE  LET kept == {i \in Positions : IsLast(i, rel, Item(i).attribute_)}
                        scan == get_relation_schema(rel)
                    IN  \E place \in [DOMAIN scan -> kept] :
                          /\ \A k \in DOMAIN scan : scan[k] = Item(place[k])
                          /\ \A j, k \in DOMAIN scan : j < k => place[j] < place[k]
                          /\ kept = {place[k] : k \in DOMAIN scan}
  BY DEF RelationSchemaIsTheScan
<1> DEFINE kept == {i \in Positions : IsLast(i, rel, Item(i).attribute_)}
           scan == get_relation_schema(rel)
           ids  == IF rel \in DOMAIN rel_map_
                   THEN {rel_map_[rel][attr] : attr \in DOMAIN rel_map_[rel]}
                   ELSE {}
           size == Cardinality(ids)
           rank(i) == Cardinality({j \in ids : j < i})
           nth(k) == CHOOSE i \in ids : Cardinality({j \in ids : j < i}) = k - 1
           place == [k \in 1 .. size |-> nth(k)]
<1>1. ids = kept
  BY IdsAreLastPlaces
<1>2. ids \in SUBSET Nat /\ IsFiniteSet(ids)
  <2>1. Len(schema_) \in Nat
    BY DEF TypeOK
  <2>2. IsFiniteSet(Positions) /\ Positions \subseteq Nat
    BY <2>1, FS_Interval DEF Positions
  <2>3. kept \in SUBSET Positions
    OBVIOUS
  <2> HIDE DEF kept, ids
  <2> QED
    BY <1>1, <2>2, <2>3, FS_Subset
<1>3. scan = [k \in 1 .. size |-> Item(nth(k))]
  BY DEF get_relation_schema
<1>4. \A k : nth(k) = CHOOSE i \in ids : rank(i) = k - 1
  OBVIOUS
<1> HIDE DEF ids
<1>5. /\ size \in Nat
      /\ \A i \in ids : rank(i) \in 0 .. size - 1
      /\ \A h, i \in ids : h < i => rank(h) < rank(i)
      /\ \A k \in 1 .. size : \E i \in ids : rank(i) = k - 1
  BY <1>2, RanksNumberASet
<1> HIDE DEF rank, size, kept, scan
<1>6. \A k \in 1 .. size : nth(k) \in ids /\ rank(nth(k)) = k - 1
  <2> SUFFICES ASSUME NEW k \in 1 .. size PROVE nth(k) \in ids /\ rank(nth(k)) = k - 1
    OBVIOUS
  <2>1. \E i \in ids : rank(i) = k - 1
    BY <1>5
  <2> QED
    BY <1>4, <2>1
<1> HIDE DEF nth
<1>7. DOMAIN scan = 1 .. size /\ place \in [DOMAIN scan -> kept]
  BY <1>1, <1>3, <1>6
<1>8. \A k \in DOMAIN scan : scan[k] = Item(place[k])
  BY <1>3
<1>9. ASSUME NEW j \in 1 .. size, NEW k \in 1 .. size, j < k PROVE place[j] < place[k]
  <2> DEFINE x == place[j]
             y == place[k]
  <2>1. x \in ids /\ y \in ids /\ rank(x) = j - 1 /\ rank(y) = k - 1
    BY <1>6
  <2> HIDE DEF x, y
  <2>2. x # y /\ ~(rank(y) < rank(x))
    BY <1>9, <2>1
  <2>3. ~(y < x)
    BY <1>5, <2>1, <2>2
  <2>4. x \in Nat /\ y \in Nat
    BY <1>2, <2>1
  <2>5. x < y
    BY <2>2, <2>3, <2>4
  <2> QED
    BY <2>5 DEF x, y
<1>10. ASSUME NEW i \in kept PROVE i \in {place[k] : k \in DOMAIN scan}
  <2>1. i \in ids /\ i \in Nat /\ rank(i) \in 0 .. size - 1
    BY <1>1, <1>2, <1>5
  <2> DEFINE k == rank(i) + 1
  <2>2. k \in 1 .. size /\ k - 1 = rank(i)
    BY <1>5, <2>1
  <2> HIDE DEF k
  <2>3. place[k] \in ids /\ rank(place[k]) = rank(i) /\ place[k] \in Nat
    BY <1>2, <1>6, <2>2
  <2>4. ~(place[k] < i) /\ ~(i < place[k])
    <3> HIDE DEF place
    <3> QED
      BY <1>5, <2>1, <2>3
  <2>5. place[k] = i
    <3> HIDE DEF place
    <3> QED
      BY <2>1, <2>3, <2>4
  <2> QED
    BY <1>7, <2>2, <2>5
<1>11. kept = {place[k] : k \in DOMAIN scan}
  BY <1>7, <1>10
<1>12. \A j, k \in DOMAIN scan : j < k => place[j] < place[k]
  BY <1>7, <1>9
<1> QED
  <2> HIDE DEF place
  <2>1. \E p \in [DOMAIN scan -> kept] :
          /\ \A k \in DOMAIN scan : scan[k] = Item(p[k])
          /\ \A j, k \in DOMAIN scan : j < k => p[j] < p[k]
          /\ kept = {p[k] : k \in DOMAIN scan}
    BY <1>7, <1>8, <1>11, <1>12
  <2> QED
    BY <2>1 DEF kept, scan

(* get_relation_schema gives a scan the columns of its relation as the rows   *)
(* of the storage manager are laid out, however often FROM lists the relation. *)
THEOREM ScansGetTheirColumns == Spec => []RelationSchemaIsTheScan
  BY TypeCorrect, MapsAgree, RelationSchemaIsOrdered, PTL
-----------------------------------------------------------------------------
(***************************************************************************)
(* Preprocess: the inductive invariant.                                    *)
(*                                                                         *)
(* A place is where a predicate may be held: a child <<"child", n, k>>, a  *)
(* local of activation i, the query's condition, the pointer that is being *)
(* returned, a place of the statement, or one of the pointers that are     *)
(* left to be split, counted from the last, as they are taken off in front.*)
(***************************************************************************)
Kinds == {"child", "node", "lch", "pending", "statement", "query", "returned"}
Places == Kinds \X Nat \X Nat

ChildAt(p, n, k) == IF n \in DOMAIN p /\ k \in DOMAIN p[n].child THEN p[n].child[k] ELSE NoPredicate
NodeAt(a, i) == IF i \in DOMAIN a THEN a[i].node ELSE NoPredicate
LchAt(a, i) == IF i \in DOMAIN a THEN a[i].lch ELSE NoPredicate
PendingAt(w, i) == IF i < Len(w) THEN w[Len(w) - i] ELSE NoPredicate
StatementAt(c, i) == IF i \in DOMAIN c THEN c[i] ELSE NoPredicate

HoldingOf(p, a, w, c, query_, returned) ==
  LET what(s, i, k) ==
        CASE s = "child"     -> ChildAt(p, i, k)
          [] s = "node"      -> IF k = 0 THEN NodeAt(a, i) ELSE NoPredicate
          [] s = "lch"       -> IF k = 0 THEN LchAt(a, i) ELSE NoPredicate
          [] s = "pending"   -> IF k = 0 THEN PendingAt(w, i) ELSE NoPredicate
          [] s = "statement" -> IF k = 0 THEN StatementAt(c, i) ELSE NoPredicate
          [] s = "query"     -> IF i = 0 /\ k = 0 THEN query_ ELSE NoPredicate
          [] s = "returned"  -> IF i = 0 /\ k = 0 THEN returned ELSE NoPredicate
  IN  [q \in Places |-> what(q[1], q[2], q[3])]

Holding == HoldingOf(preds, activations, pending, conditions, condition, folded)
LiveNodes == {n \in DOMAIN preds : preds[n].kind # "Destroyed"}

\* Every live node is held in one place, and nothing else is held.
Owned(W, L) ==
  /\ NoPredicate \notin L /\ W \in [Places -> {NoPredicate} \cup L]
  /\ \A p, q \in Places : (W[p] # NoPredicate /\ W[p] = W[q]) => p = q
  /\ \A n \in L : \E p \in Places : W[p] = n

PredicatesOwned == Owned(Holding, LiveNodes)

\* The shape of a node, and that a child stands before it and is no constant.
NodeOK(p, n) ==
  /\ p[n].kind \in {"Leaf", "Raw", "Destroyed"} => Len(p[n].child) = 0
  /\ p[n].kind = "Not" => Len(p[n].child) = 1
  /\ p[n].kind \in {"And", "Or"} => Len(p[n].child) = 2
  /\ p[n].kind = "Leaf" => Len(p[n].operand) = 2
  /\ \A k \in DOMAIN p[n].child :
       p[n].child[k] # NoPredicate =>
         p[n].child[k] \in 1 .. n - 1 /\ p[p[n].child[k]].kind # "Raw"

IsWhole(p, n) == \A k \in DOMAIN p[n].child : p[n].child[k] # NoPredicate

\* What is folded from a node stands before it, or is a constant.
IsFolded(p, x, n) == p[x].kind = "Raw" \/ x < n

PredsOK ==
  /\ preds \in Seq(Predicates)
  /\ \A n \in DOMAIN preds : NodeOK(preds, n)
  /\ \A n \in DOMAIN preds :
       IsWhole(preds, n) \/ \E i \in DOMAIN activations : activations[i].node = n

ActivationTypes == [node : Nat, at : {"enter", "first", "second"}, lch : Nat]

\* What a node looks like while an activation works on it.
ActivationIn(p, f) ==
  /\ f.node \in DOMAIN p /\ f.lch \in {NoPredicate} \cup DOMAIN p
  /\ f.at = "enter" => f.lch = NoPredicate /\ IsWhole(p, f.node)
  /\ f.at = "first" =>
       /\ p[f.node].kind \in {"And", "Or", "Not"} /\ f.lch = NoPredicate
       /\ \A k \in DOMAIN p[f.node].child : p[f.node].child[k] = NoPredicate <=> k = 1
  /\ f.at = "second" =>
       /\ p[f.node].kind \in {"And", "Or"} /\ f.lch # NoPredicate /\ IsFolded(p, f.lch, f.node)
       /\ \A k \in DOMAIN p[f.node].child : p[f.node].child[k] = NoPredicate

\* Only the last activation runs, or has just got what it called for, x.
ActivationsIn(p, a, x) ==
  /\ a \in Seq(ActivationTypes)
  /\ \A i \in DOMAIN a : ActivationIn(p, a[i])
  /\ \A i \in DOMAIN a : a[i].at = "enter" <=> (i = Len(a) /\ x = NoPredicate)
  /\ \A i \in DOMAIN a : i + 1 \in DOMAIN a => a[i + 1].node < a[i].node
  /\ x # NoPredicate => (a # <<>> /\ IsFolded(p, x, a[Len(a)].node))

ActivationsOK == ActivationsIn(preds, activations, folded)

Stages == {"relations", "attributes", "leaves", "folding", "splitting"} \cup Ends

\* Where the condition is at each stage.
StageOK ==
  /\ stage \in Stages
  /\ condition \in {NoPredicate} \cup DOMAIN preds /\ folded \in {NoPredicate} \cup DOMAIN preds
  /\ pending \in Seq(DOMAIN preds) /\ conditions \in Seq(DOMAIN preds)
  /\ stage \in {"relations", "attributes", "leaves"} =>
       /\ activations = <<>> /\ pending = <<>> /\ conditions = <<>>
       /\ \A n \in DOMAIN preds : preds[n].kind # "Destroyed"
  /\ stage = "leaves" => condition # NoPredicate
  /\ stage = "folding" =>
       /\ activations # <<>> /\ condition = NoPredicate
       /\ pending = <<>> /\ conditions = <<>>
  /\ stage = "splitting" => activations = <<>> /\ condition = NoPredicate

\* The parts of the query and of the schema.
ListsOK ==
  /\ query \in SelectQueries /\ TypeOK
  /\ relations \in Seq(STRING) /\ items \in Seq(SchemaItems)
  /\ attributes \in Seq(AttributeNames) /\ printed \in Seq(AttributeNames)
  /\ resolved \in Nat

OwnershipInv == ListsOK /\ PredsOK /\ ActivationsOK /\ StageOK /\ PredicatesOwned

-----------------------------------------------------------------------------
(* Ownership *)

(* A step destroys the nodes of D, makes those of A, and exchanges what the  *)
(* places in M hold; other places lose at most what is destroyed.            *)
Exchanged(W, V, M, D, A) ==
  /\ \A p \in Places : p \in M \/ V[p] = W[p] \/ (V[p] = NoPredicate /\ W[p] \in D)
  /\ \A x \in D : \E p \in Places : W[p] = x /\ (p \in M \/ V[p] = NoPredicate)
  /\ \A q \in M : V[q] # NoPredicate =>
       V[q] \in A \/ (V[q] \notin D /\ \E p \in M : W[p] = V[q])
  /\ \A p \in M : (W[p] # NoPredicate /\ W[p] \notin D) => \E q \in M : V[q] = W[p]
  /\ \A q, r \in M : (V[q] # NoPredicate /\ V[q] = V[r]) => q = r
  /\ \A x \in A : \E q \in M : V[q] = x

LEMMA ExchangeOwned ==
  ASSUME NEW W, NEW L, Owned(W, L), NEW S, NEW V \in [Places -> S], NEW M \in SUBSET Places,
         NEW D \in SUBSET L, NEW A, A \cap L = {}, NoPredicate \notin A,
         Exchanged(W, V, M, D, A)
  PROVE  Owned(V, (L \ D) \cup A)
<1> DEFINE R == (L \ D) \cup A
<1>1. /\ NoPredicate \notin L
      /\ \A p \in Places : W[p] \in {NoPredicate} \cup L
      /\ \A p, q \in Places : (W[p] # NoPredicate /\ W[p] = W[q]) => p = q
      /\ \A n \in L : \E p \in Places : W[p] = n
  BY DEF Owned
<1>2. ASSUME NEW p \in Places \ M
      PROVE  /\ V[p] # NoPredicate => V[p] = W[p] /\ W[p] \in L \ D
             /\ W[p] \in L \ D => V[p] = W[p]
  <2>1. V[p] = W[p] \/ (V[p] = NoPredicate /\ W[p] \in D)
    BY <1>2 DEF Exchanged
  <2>2. ASSUME W[p] \in D PROVE V[p] = NoPredicate
    <3>1. PICK q \in Places : W[q] = W[p] /\ (q \in M \/ V[q] = NoPredicate)
      BY <2>2 DEF Exchanged
    <3>2. q = p
      BY <1>1, <2>2, <3>1
    <3> QED
      BY <3>1, <3>2
  <2> QED
    BY <1>1, <2>1, <2>2
<1>3. ASSUME NEW q \in M, V[q] # NoPredicate
      PROVE  V[q] \in A \/ (V[q] \in L \ D /\ \E p \in M : W[p] = V[q])
  BY <1>1, <1>3 DEF Exchanged
<1>4. \A p \in Places : V[p] \in {NoPredicate} \cup R
  BY <1>2, <1>3
<1>5. ASSUME NEW q \in Places, NEW r \in Places, V[q] # NoPredicate, V[q] = V[r]
      PROVE  q = r
  <2>1. CASE q \in M /\ r \in M
    BY <1>5, <2>1 DEF Exchanged
  <2>2. CASE q \notin M /\ r \notin M
    BY <1>1, <1>2, <1>5, <2>2
  <2>3. ASSUME NEW a \in M, NEW b \in Places \ M, V[a] # NoPredicate, V[a] = V[b]
        PROVE  FALSE
    <3>1. V[b] = W[b] /\ W[b] \in L \ D
      BY <1>2, <2>3
    <3>2. V[a] \notin A
      BY <2>3, <3>1
    <3>3. PICK p \in M : W[p] = V[a]
      BY <1>3, <2>3, <3>2
    <3>4. p = b
      BY <1>1, <2>3, <3>1, <3>3
    <3> QED
      BY <3>4
  <2> QED
    BY <1>5, <2>1, <2>2, <2>3
<1>6. ASSUME NEW n \in R
      PROVE  \E q \in Places : V[q] = n
  <2>1. CASE n \in A
    BY <2>1 DEF Exchanged
  <2>2. CASE n \in L \ D
    <3>1. PICK p \in Places : W[p] = n
      BY <1>1, <2>2
    <3>2. CASE p \in M
      BY <1>1, <2>2, <3>1, <3>2 DEF Exchanged
    <3>3. CASE p \notin M
      BY <1>2, <2>2, <3>1, <3>3
    <3> QED
      BY <3>2, <3>3
  <2> QED
    BY <2>1, <2>2
<1>7. V \in [Places -> {NoPredicate} \cup R] /\ NoPredicate \notin R
  BY <1>1, <1>4
<1> QED
  BY <1>5, <1>6, <1>7 DEF Owned

(* What the places hold. *)
LEMMA PlaceIs ==
  ASSUME NEW p \in Places
  PROVE  p = <<p[1], p[2], p[3]>> /\ p[1] \in Kinds /\ p[2] \in Nat /\ p[3] \in Nat
  BY DEF Places

LEMMA SomePlaces ==
  /\ \A s \in Kinds, i, k \in Nat : <<s, i, k>> \in Places
  /\ Kinds = {"child", "node", "lch", "pending", "statement", "query", "returned"}
  BY DEF Places, Kinds

LEMMA HoldsWhat ==
  ASSUME NEW p, NEW a, NEW w, NEW c, NEW x, NEW y
  PROVE  LET H == HoldingOf(p, a, w, c, x, y)
         IN  /\ \A i, k \in Nat : H[<<"child", i, k>>] = ChildAt(p, i, k)
             /\ \A i \in Nat : /\ H[<<"node", i, 0>>] = NodeAt(a, i)
                              /\ H[<<"lch", i, 0>>] = LchAt(a, i)
                              /\ H[<<"pending", i, 0>>] = PendingAt(w, i)
                              /\ H[<<"statement", i, 0>>] = StatementAt(c, i)
             /\ H[<<"query", 0, 0>>] = x /\ H[<<"returned", 0, 0>>] = y
             /\ \A s \in Kinds \ {"child"}, i, k \in Nat : k # 0 => H[<<s, i, k>>] = NoPredicate
             /\ \A s \in {"query", "returned"}, i \in Nat :
                  i # 0 => H[<<s, i, 0>>] = NoPredicate
<1> DEFINE what(s, i, k) ==
             CASE s = "child"     -> ChildAt(p, i, k)
               [] s = "node"      -> IF k = 0 THEN NodeAt(a, i) ELSE NoPredicate
               [] s = "lch"       -> IF k = 0 THEN LchAt(a, i) ELSE NoPredicate
               [] s = "pending"   -> IF k = 0 THEN PendingAt(w, i) ELSE NoPredicate
               [] s = "statement" -> IF k = 0 THEN StatementAt(c, i) ELSE NoPredicate
               [] s = "query"     -> IF i = 0 /\ k = 0 THEN x ELSE NoPredicate
               [] s = "returned"  -> IF i = 0 /\ k = 0 THEN y ELSE NoPredicate
           H == HoldingOf(p, a, w, c, x, y)
<1>1. H = [q \in Places |-> what(q[1], q[2], q[3])]
  BY DEF HoldingOf
<1>2. /\ \A i, k : what("child", i, k) = ChildAt(p, i, k)
      /\ \A i : /\ what("node", i, 0) = NodeAt(a, i)
                /\ what("lch", i, 0) = LchAt(a, i)
                /\ what("pending", i, 0) = PendingAt(w, i)
                /\ what("statement", i, 0) = StatementAt(c, i)
      /\ what("query", 0, 0) = x /\ what("returned", 0, 0) = y
  OBVIOUS
<1>3. \A s \in Kinds \ {"child"} : \A i, k : k # 0 => what(s, i, k) = NoPredicate
  BY DEF Kinds
<1>4. \A s \in {"query", "returned"} : \A i : i # 0 => what(s, i, 0) = NoPredicate
  OBVIOUS
<1> HIDE DEF what, H
<1>5. \A s \in Kinds, i, k \in Nat : H[<<s, i, k>>] = what(s, i, k)
  BY <1>1, SomePlaces
<1>6. \A i, k \in Nat : H[<<"child", i, k>>] = ChildAt(p, i, k)
  <2>1. "child" \in Kinds
    BY SomePlaces
  <2>2. \A i, k \in Nat : H[<<"child", i, k>>] = what("child", i, k)
    BY <1>5, <2>1
  <2> QED
    BY <1>2, <2>2
<1>7. \A i \in Nat : /\ H[<<"node", i, 0>>] = NodeAt(a, i)
                    /\ H[<<"lch", i, 0>>] = LchAt(a, i)
                    /\ H[<<"pending", i, 0>>] = PendingAt(w, i)
                    /\ H[<<"statement", i, 0>>] = StatementAt(c, i)
  BY <1>2, <1>5, SomePlaces
<1>8. H[<<"query", 0, 0>>] = x /\ H[<<"returned", 0, 0>>] = y
  <2>1. "query" \in Kinds /\ "returned" \in Kinds /\ 0 \in Nat
    BY SomePlaces
  <2>2. /\ H[<<"query", 0, 0>>] = what("query", 0, 0)
        /\ H[<<"returned", 0, 0>>] = what("returned", 0, 0)
    BY <1>5, <2>1
  <2> QED
    BY <1>2, <2>2
<1>9. \A s \in Kinds \ {"child"}, i, k \in Nat : k # 0 => H[<<s, i, k>>] = NoPredicate
  BY <1>3, <1>5, SomePlaces
<1>10. \A s \in {"query", "returned"}, i \in Nat : i # 0 => H[<<s, i, 0>>] = NoPredicate
  BY <1>4, <1>5, SomePlaces
<1> QED
  BY <1>6, <1>7, <1>8, <1>9, <1>10 DEF H

LEMMA HoldsNow ==
  /\ \A i, k \in Nat : Holding[<<"child", i, k>>] = ChildAt(preds, i, k)
  /\ \A i \in Nat : /\ Holding[<<"node", i, 0>>] = NodeAt(activations, i)
                   /\ Holding[<<"lch", i, 0>>] = LchAt(activations, i)
                   /\ Holding[<<"pending", i, 0>>] = PendingAt(pending, i)
                   /\ Holding[<<"statement", i, 0>>] = StatementAt(conditions, i)
  /\ Holding[<<"query", 0, 0>>] = condition /\ Holding[<<"returned", 0, 0>>] = folded
  /\ \A s \in Kinds \ {"child"}, i, k \in Nat : k # 0 => Holding[<<s, i, k>>] = NoPredicate
  /\ \A s \in {"query", "returned"}, i \in Nat : i # 0 => Holding[<<s, i, 0>>] = NoPredicate
  BY HoldsWhat DEF Holding

LEMMA HoldsNext ==
  /\ \A i, k \in Nat : Holding'[<<"child", i, k>>] = ChildAt(preds', i, k)
  /\ \A i \in Nat : /\ Holding'[<<"node", i, 0>>] = NodeAt(activations', i)
                   /\ Holding'[<<"lch", i, 0>>] = LchAt(activations', i)
                   /\ Holding'[<<"pending", i, 0>>] = PendingAt(pending', i)
                   /\ Holding'[<<"statement", i, 0>>] = StatementAt(conditions', i)
  /\ Holding'[<<"query", 0, 0>>] = condition' /\ Holding'[<<"returned", 0, 0>>] = folded'
  /\ \A s \in Kinds \ {"child"}, i, k \in Nat : k # 0 => Holding'[<<s, i, k>>] = NoPredicate
  /\ \A s \in {"query", "returned"}, i \in Nat : i # 0 => Holding'[<<s, i, 0>>] = NoPredicate
  BY HoldsWhat DEF Holding

(* A step that leaves the pointers of each kind alone, but for the places in *)
(* M and the children of destroyed nodes, is an exchange on M.               *)
ChildrenAlone(M, D) ==
  \A i, k \in Nat :
    \/ <<"child", i, k>> \in M
    \/ ChildAt(preds', i, k) = ChildAt(preds, i, k)
    \/ ChildAt(preds', i, k) = NoPredicate /\ ChildAt(preds, i, k) \in D

LocalsAlone(M) ==
  \A i \in Nat :
    /\ <<"node", i, 0>> \in M \/ NodeAt(activations', i) = NodeAt(activations, i)
    /\ <<"lch", i, 0>> \in M \/ LchAt(activations', i) = LchAt(activations, i)

StatementAlone(M) ==
  \A i \in Nat :
    /\ <<"pending", i, 0>> \in M \/ PendingAt(pending', i) = PendingAt(pending, i)
    /\ <<"statement", i, 0>> \in M \/ StatementAt(conditions', i) = StatementAt(conditions, i)

ResultsAlone(M) ==
  /\ <<"query", 0, 0>> \in M \/ condition' = condition
  /\ <<"returned", 0, 0>> \in M \/ folded' = folded

LEMMA RestAlone ==
  ASSUME NEW M, NEW D, ChildrenAlone(M, D), LocalsAlone(M), StatementAlone(M), ResultsAlone(M)
  PROVE  \A p \in Places : \/ p \in M \/ Holding'[p] = Holding[p]
                           \/ Holding'[p] = NoPredicate /\ Holding[p] \in D
<1> SUFFICES ASSUME NEW p \in Places, p \notin M
             PROVE  \/ Holding'[p] = Holding[p]
                    \/ Holding'[p] = NoPredicate /\ Holding[p] \in D
  OBVIOUS
<1>0. PICK s \in Kinds, i \in Nat, k \in Nat : p = <<s, i, k>>
  BY PlaceIs
<1>1. CASE s = "child"
  <2>1. Holding[p] = ChildAt(preds, i, k) /\ Holding'[p] = ChildAt(preds', i, k)
    BY <1>0, <1>1, HoldsNow, HoldsNext
  <2> QED
    BY <1>0, <1>1, <2>1 DEF ChildrenAlone
<1>2. CASE s # "child" /\ k # 0
  BY <1>0, <1>2, HoldsNow, HoldsNext
<1>3. CASE s = "node" /\ k = 0
  <2>1. Holding[p] = NodeAt(activations, i) /\ Holding'[p] = NodeAt(activations', i)
    BY <1>0, <1>3, HoldsNow, HoldsNext
  <2> QED
    BY <1>0, <1>3, <2>1 DEF LocalsAlone
<1>7. CASE s = "lch" /\ k = 0
  <2>1. Holding[p] = LchAt(activations, i) /\ Holding'[p] = LchAt(activations', i)
    BY <1>0, <1>7, HoldsNow, HoldsNext
  <2> QED
    BY <1>0, <1>7, <2>1 DEF LocalsAlone
<1>4. CASE s = "pending" /\ k = 0
  <2>1. Holding[p] = PendingAt(pending, i) /\ Holding'[p] = PendingAt(pending', i)
    BY <1>0, <1>4, HoldsNow, HoldsNext
  <2> QED
    BY <1>0, <1>4, <2>1 DEF StatementAlone
<1>8. CASE s = "statement" /\ k = 0
  <2>1. Holding[p] = StatementAt(conditions, i) /\ Holding'[p] = StatementAt(conditions', i)
    BY <1>0, <1>8, HoldsNow, HoldsNext
  <2> QED
    BY <1>0, <1>8, <2>1 DEF StatementAlone
<1>5. CASE s \in {"query", "returned"} /\ k = 0 /\ i # 0
  BY <1>0, <1>5, HoldsNow, HoldsNext
<1>6. CASE s \in {"query", "returned"} /\ k = 0 /\ i = 0
  BY <1>0, <1>6, HoldsNow, HoldsNext DEF ResultsAlone
<1> QED
  BY <1>1, <1>2, <1>3, <1>4, <1>5, <1>6, <1>7, <1>8, SomePlaces

-----------------------------------------------------------------------------
(* Predicates *)

(* A node, and one of which a field was written. *)
LEMMA NodeTyped ==
  ASSUME NEW r \in Predicates
  PROVE  /\ r.kind \in {"Leaf", "Raw", "And", "Or", "Not", "Destroyed"}
         /\ r.child \in Seq(Nat) /\ r.operand \in Seq(Operands) /\ r.op \in CompareOps
  BY DEF Predicates

LEMMA NodeWritten ==
  ASSUME NEW r \in Predicates
  PROVE  /\ \A c \in Seq(Nat) :
              LET g == [r EXCEPT !.child = c]
              IN  g \in Predicates /\ g.kind = r.kind /\ g.operand = r.operand /\ g.child = c
         /\ \A o \in Seq(Operands) :
              LET g == [r EXCEPT !.operand = o]
              IN  g \in Predicates /\ g.kind = r.kind /\ g.operand = o /\ g.child = r.child
         /\ \A v \in BOOLEAN :
              LET g == [r EXCEPT !.value = v]
              IN  g \in Predicates /\ g.kind = r.kind /\ g.operand = r.operand
                  /\ g.child = r.child
         /\ LET g == [r EXCEPT !.kind = "Destroyed", !.child = <<>>]
            IN  g \in Predicates /\ g.kind = "Destroyed" /\ g.child = <<>>
<1>1. ASSUME NEW c \in Seq(Nat)
      PROVE  LET g == [r EXCEPT !.child = c]
             IN  g \in Predicates /\ g.kind = r.kind /\ g.operand = r.operand /\ g.child = c
  BY DEF Predicates
<1>2. ASSUME NEW o \in Seq(Operands)
      PROVE  LET g == [r EXCEPT !.operand = o]
             IN  g \in Predicates /\ g.kind = r.kind /\ g.operand = o /\ g.child = r.child
  BY DEF Predicates
<1>3. ASSUME NEW v \in BOOLEAN
      PROVE  LET g == [r EXCEPT !.value = v]
             IN  g \in Predicates /\ g.kind = r.kind /\ g.operand = r.operand
                 /\ g.child = r.child
  BY DEF Predicates
<1>4. LET g == [r EXCEPT !.kind = "Destroyed", !.child = <<>>]
      IN  g \in Predicates /\ g.kind = "Destroyed" /\ g.child = <<>>
  <2>1. <<>> \in Seq(Nat)
    OBVIOUS
  <2> QED
    BY <2>1 DEF Predicates
<1> QED
  BY <1>1, <1>2, <1>3, <1>4

(* g is p but for node n, which is r. *)
OneNode(g, p, n, r) ==
  /\ g \in Seq(Predicates) /\ Len(g) = Len(p) /\ DOMAIN g = DOMAIN p
  /\ g[n] = r /\ \A m \in DOMAIN p : m # n => g[m] = p[m]

LEMMA OneWritten ==
  ASSUME NEW p \in Seq(Predicates), NEW n \in DOMAIN p, NEW r \in Predicates
  PROVE  OneNode([p EXCEPT ![n] = r], p, n, r)
  BY DEF OneNode

LEMMA ChildWritten ==
  ASSUME NEW p \in Seq(Predicates), NEW n \in DOMAIN p, NEW k \in DOMAIN p[n].child, NEW x \in Nat
  PROVE  /\ OneNode([p EXCEPT ![n].child[k] = x], p, n,
                    [p[n] EXCEPT !.child = [@ EXCEPT ![k] = x]])
         /\ [p[n].child EXCEPT ![k] = x] \in Seq(Nat)
         /\ [p[n] EXCEPT !.child = [@ EXCEPT ![k] = x]] \in Predicates
<1> DEFINE c == p[n].child
           d == [c EXCEPT ![k] = x]
           r == [p[n] EXCEPT !.child = d]
<1>1. p[n] \in Predicates
  OBVIOUS
<1>2. c \in Seq(Nat)
  BY <1>1, NodeTyped
<1>3. d \in Seq(Nat)
  <2> HIDE DEF c
  <2>1. k \in DOMAIN c
    BY DEF c
  <2> QED
    BY <1>2, <2>1
<1>4. r \in Predicates
  <2> HIDE DEF d
  <2> QED
    BY <1>1, <1>3, NodeWritten
<1>5. [p EXCEPT ![n].child[k] = x] = [p EXCEPT ![n] = r]
  OBVIOUS
<1>6. r = [p[n] EXCEPT !.child = [@ EXCEPT ![k] = x]]
  OBVIOUS
<1>7. OneNode([p EXCEPT ![n] = r], p, n, r)
  <2> HIDE DEF r
  <2> QED
    BY <1>4, OneWritten
<1> QED
  BY <1>3, <1>4, <1>5, <1>6, <1>7

LEMMA DestroyedAre ==
  ASSUME NEW p \in Seq(Predicates), NEW D
  PROVE  LET g == DestroyPredicates(p, D)
         IN  /\ g \in Seq(Predicates) /\ Len(g) = Len(p) /\ DOMAIN g = DOMAIN p
             /\ \A n \in DOMAIN p : n \notin D => g[n] = p[n]
             /\ \A n \in DOMAIN p : n \in D => g[n].kind = "Destroyed" /\ g[n].child = <<>>
<1> DEFINE dead(n) == [p[n] EXCEPT !.kind = "Destroyed", !.child = <<>>]
           g == [n \in DOMAIN p |-> IF n \in D THEN dead(n) ELSE p[n]]
<1>1. ASSUME NEW n \in DOMAIN p
      PROVE  dead(n) \in Predicates /\ dead(n).kind = "Destroyed" /\ dead(n).child = <<>>
  <2>1. p[n] \in Predicates
    OBVIOUS
  <2> QED
    BY <2>1, NodeWritten
<1>2. g = DestroyPredicates(p, D)
  BY DEF DestroyPredicates
<1> HIDE DEF dead
<1>3. \A n \in DOMAIN p : g[n] \in Predicates
  BY <1>1
<1>4. g \in Seq(Predicates) /\ Len(g) = Len(p) /\ DOMAIN g = DOMAIN p
  BY <1>3
<1> QED
  BY <1>1, <1>2, <1>4

-----------------------------------------------------------------------------
(* What is below a predicate *)

\* Children stand before their parents, up to n.
Ordered(p, n) == \A m \in 1 .. n : \A k \in DOMAIN p[m].child : p[m].child[k] \in 0 .. m - 1

\* The recursion of SubPredicates.
BelowAt(p, m, f) ==
  IF m = NoPredicate THEN {}
  ELSE {m} \cup UNION {f[p[m].child[k]] : k \in DOMAIN p[m].child}

BelowOf(p, n) == CHOOSE f : f = [m \in 0 .. n |-> BelowAt(p, m, f)]

LEMMA BelowExists ==
  ASSUME NEW p, NEW n \in Nat, Ordered(p, n)
  PROVE  \E f : f = [m \in 0 .. n |-> BelowAt(p, m, f)]
<1> DEFINE T == {k \in 0 .. n : \E f : f = [m \in 0 .. k |-> BelowAt(p, m, f)]}
<1>1. 0 \in T
  <2> DEFINE f == [m \in 0 .. 0 |-> {}]
  <2>1. f = [m \in 0 .. 0 |-> BelowAt(p, m, f)]
    BY DEF BelowAt, NoPredicate
  <2> HIDE DEF f
  <2>2. \E h : h = [m \in 0 .. 0 |-> BelowAt(p, m, h)]
    BY <2>1
  <2> QED
    BY <2>2
<1>2. ASSUME NEW k \in 0 .. n - 1, k \in T PROVE k + 1 \in T
  <2>1. PICK f : f = [m \in 0 .. k |-> BelowAt(p, m, f)]
    BY <1>2
  <2> DEFINE g == [m \in 0 .. k + 1 |-> IF m = k + 1 THEN BelowAt(p, k + 1, f) ELSE f[m]]
  <2>2. \A m \in 0 .. k : f[m] = g[m]
    OBVIOUS
  <2>3. ASSUME NEW m \in 0 .. k + 1 PROVE g[m] = BelowAt(p, m, g)
    <3>1. g[m] = BelowAt(p, m, f)
      <4>1. CASE m = k + 1
        BY <4>1
      <4>2. CASE m # k + 1
        <5>1. m \in 0 .. k /\ g[m] = f[m]
          BY <4>2
        <5> HIDE DEF g
        <5> QED
          BY <2>1, <5>1
      <4> QED
        BY <4>1, <4>2
    <3>2. BelowAt(p, m, f) = BelowAt(p, m, g)
      <4>1. CASE m = 0
        BY <4>1 DEF BelowAt, NoPredicate
      <4>2. CASE m # 0
        <5>1. m \in 1 .. n
          BY <4>2
        <5>2. \A j \in DOMAIN p[m].child : p[m].child[j] \in 0 .. m - 1
          BY <5>1 DEF Ordered
        <5>3. \A j \in DOMAIN p[m].child : f[p[m].child[j]] = g[p[m].child[j]]
          <6> HIDE DEF g
          <6>1. \A x \in 0 .. m - 1 : x \in 0 .. k
            OBVIOUS
          <6> QED
            BY <2>2, <5>2, <6>1
        <5> HIDE DEF g
        <5>4. {f[p[m].child[j]] : j \in DOMAIN p[m].child}
                = {g[p[m].child[j]] : j \in DOMAIN p[m].child}
          BY <5>3
        <5> QED
          BY <5>4 DEF BelowAt
      <4> QED
        BY <4>1, <4>2
    <3> HIDE DEF g
    <3> QED
      BY <3>1, <3>2
  <2>4. g = [m \in 0 .. k + 1 |-> g[m]]
    OBVIOUS
  <2> HIDE DEF g
  <2>5. g = [m \in 0 .. k + 1 |-> BelowAt(p, m, g)]
    BY <2>3, <2>4
  <2>6. \E h : h = [m \in 0 .. k + 1 |-> BelowAt(p, m, h)]
    BY <2>5
  <2>7. k + 1 \in 0 .. n
    OBVIOUS
  <2> QED
    BY <2>6, <2>7
<1> HIDE DEF T
<1>3. 0 .. n \subseteq T
  BY <1>1, <1>2, IntervalInductionSet
<1> QED
  BY <1>3 DEF T

LEMMA BelowUnfolds ==
  ASSUME NEW p, NEW n \in Nat, Ordered(p, n)
  PROVE  /\ SubPredicates(p, n) = BelowOf(p, n)[n]
         /\ \A m \in 0 .. n : BelowOf(p, n)[m] = BelowAt(p, m, BelowOf(p, n))
<1>1. BelowOf(p, n) = [m \in 0 .. n |-> BelowAt(p, m, BelowOf(p, n))]
  BY BelowExists DEF BelowOf
<1>2. SubPredicates(p, n) = BelowOf(p, n)[n]
  BY DEF SubPredicates, BelowOf, BelowAt
<1> QED
  BY <1>1, <1>2

(* The nodes below n are n and, with a node, its children: no more. *)
ClosedBelow(p, S) ==
  \A m \in S : \A k \in DOMAIN p[m].child : p[m].child[k] \in {NoPredicate} \cup S

\* S is what is below m.
IsBelow(p, m, S) ==
  /\ m \in S /\ S \subseteq 1 .. m /\ ClosedBelow(p, S)
  /\ \A x \in S : x = m \/ \E y \in S : \E k \in DOMAIN p[y].child : p[y].child[k] = x
  /\ \A T : (m \in T /\ ClosedBelow(p, T)) => S \subseteq T

LEMMA BelowAll ==
  ASSUME NEW p, NEW n \in Nat, Ordered(p, n)
  PROVE  \A m \in 1 .. n : IsBelow(p, m, BelowOf(p, n)[m])
<1> DEFINE f == BelowOf(p, n)
           Good(m) == /\ f[m] \subseteq 1 .. m /\ ClosedBelow(p, f[m])
                      /\ m # 0 => m \in f[m]
                      /\ \A x \in f[m] :
                           x = m \/ \E y \in f[m] : \E k \in DOMAIN p[y].child : p[y].child[k] = x
                      /\ \A T : (m \in T /\ ClosedBelow(p, T)) => f[m] \subseteq T
           G == {m \in Nat : m \in 0 .. n => Good(m)}
<1>0. \A m \in 0 .. n : f[m] = BelowAt(p, m, f)
  BY BelowUnfolds
<1> HIDE DEF f
<1>1. ASSUME NEW m \in Nat, \A x \in 0 .. m - 1 : x \in G
      PROVE  m \in G
  <2> SUFFICES ASSUME m \in 0 .. n PROVE Good(m)
    BY <1>1 DEF G
  <2>1. CASE m = 0
    <3>1. f[m] = {}
      BY <1>0, <2>1 DEF BelowAt, NoPredicate
    <3> QED
      BY <2>1, <3>1 DEF ClosedBelow
  <2>2. CASE m # 0
    <3> DEFINE ch == p[m].child
    <3>1. \A k \in DOMAIN ch : ch[k] \in 0 .. m - 1
      BY <2>2 DEF Ordered
    <3>2. ASSUME NEW k \in DOMAIN ch PROVE Good(ch[k])
      <4>1. ch[k] \in 0 .. m - 1
        BY <3>1
      <4>2. ch[k] \in G /\ ch[k] \in 0 .. n
        BY <1>1, <4>1
      <4> HIDE DEF ch, Good
      <4> QED
        BY <4>2 DEF G
    <3>3. f[m] = {m} \cup UNION {f[ch[k]] : k \in DOMAIN ch}
      BY <1>0, <2>2 DEF BelowAt, NoPredicate
    <3>4. \A x : x \in f[m] <=> (x = m \/ \E k \in DOMAIN ch : x \in f[ch[k]])
      BY <3>3
    <3> HIDE DEF G
    <3>5. f[m] \subseteq 1 .. m
      <4>1. ASSUME NEW k \in DOMAIN ch, NEW x \in f[ch[k]] PROVE x \in 1 .. m
        <5>1. ch[k] \in 0 .. m - 1 /\ f[ch[k]] \subseteq 1 .. ch[k]
          BY <3>1, <3>2
        <5> HIDE DEF ch
        <5> QED
          BY <4>1, <5>1
      <4> QED
        BY <2>2, <3>4, <4>1
    <3>6. ClosedBelow(p, f[m])
      <4>1. ASSUME NEW x \in f[m], NEW j \in DOMAIN p[x].child
            PROVE  p[x].child[j] \in {NoPredicate} \cup f[m]
        <5>1. CASE x = m
          <6>1. j \in DOMAIN ch /\ p[x].child[j] = ch[j]
            BY <4>1, <5>1
          <6>2. ch[j] # 0 => ch[j] \in f[ch[j]]
            BY <3>2, <6>1
          <6> QED
            BY <3>4, <6>1, <6>2 DEF NoPredicate
        <5>2. CASE x # m
          <6>1. PICK k \in DOMAIN ch : x \in f[ch[k]]
            BY <3>4, <5>2
          <6>2. p[x].child[j] \in {NoPredicate} \cup f[ch[k]]
            BY <3>2, <4>1, <6>1 DEF ClosedBelow
          <6> QED
            BY <3>4, <6>2
        <5> QED
          BY <5>1, <5>2
      <4> QED
        BY <4>1 DEF ClosedBelow
    <3>7. ASSUME NEW x \in f[m]
          PROVE  x = m \/ \E y \in f[m] : \E k \in DOMAIN p[y].child : p[y].child[k] = x
      <4> SUFFICES ASSUME x # m
                   PROVE  \E y \in f[m] : \E k \in DOMAIN p[y].child : p[y].child[k] = x
        OBVIOUS
      <4>1. PICK k \in DOMAIN ch : x \in f[ch[k]]
        BY <3>4
      <4>2. CASE x = ch[k]
        <5>1. m \in f[m]
          BY <3>4
        <5> QED
          BY <4>2, <5>1
      <4>3. CASE x # ch[k]
        <5>1. PICK y \in f[ch[k]] : \E j \in DOMAIN p[y].child : p[y].child[j] = x
          BY <3>2, <4>1, <4>3
        <5>2. y \in f[m]
          BY <3>4, <5>1
        <5> QED
          BY <5>1, <5>2
      <4> QED
        BY <4>2, <4>3
    <3>8. ASSUME NEW T, m \in T, ClosedBelow(p, T) PROVE f[m] \subseteq T
      <4>1. ASSUME NEW k \in DOMAIN ch PROVE f[ch[k]] \subseteq T
        <5>1. ch[k] \in {NoPredicate} \cup T
          BY <3>8 DEF ClosedBelow
        <5>2. CASE ch[k] = 0
          <6>1. f[ch[k]] \subseteq 1 .. 0
            BY <3>2, <5>2
          <6> QED
            BY <6>1
        <5>3. CASE ch[k] # 0
          BY <3>2, <3>8, <5>1, <5>3 DEF NoPredicate
        <5> QED
          BY <5>2, <5>3
      <4> QED
        BY <3>4, <3>8, <4>1
    <3>9. m \in f[m]
      BY <3>4
    <3> QED
      BY <3>5, <3>6, <3>7, <3>8, <3>9
  <2> QED
    BY <2>1, <2>2
<1> HIDE DEF Good
<1>2. ASSUME NEW m \in 1 .. n PROVE Good(m)
  <2> HIDE DEF G
  <2>1. Nat \subseteq G
    BY <1>1, StrongInductionSet
  <2>2. m \in Nat /\ m \in 0 .. n
    OBVIOUS
  <2> QED
    BY <2>1, <2>2 DEF G
<1>3. ASSUME NEW m \in 1 .. n PROVE IsBelow(p, m, f[m])
  <2>1. Good(m) /\ m # 0
    BY <1>2
  <2> QED
    BY <2>1 DEF Good, IsBelow
<1> QED
  BY <1>3 DEF f

LEMMA BelowIs ==
  ASSUME NEW p, NEW n \in Nat \ {0}, Ordered(p, n)
  PROVE  LET S == SubPredicates(p, n)
         IN  /\ n \in S /\ S \subseteq 1 .. n /\ ClosedBelow(p, S)
             /\ \A x \in S : x = n \/ \E m \in S : \E k \in DOMAIN p[m].child : p[m].child[k] = x
             /\ \A T : (n \in T /\ ClosedBelow(p, T)) => S \subseteq T
  BY BelowAll, BelowUnfolds DEF IsBelow

-----------------------------------------------------------------------------
(* Activations *)

LEMMA LastActivation ==
  ASSUME ActivationsOK, activations # <<>>
  PROVE  /\ Len(activations) \in Nat \ {0} /\ This \in ActivationTypes
         /\ This = activations[Len(activations)] /\ ActivationIn(preds, This)
         /\ DOMAIN activations = 1 .. Len(activations)
         /\ This.at = "enter" <=> folded = NoPredicate
         /\ NodeAt(activations, Len(activations)) = This.node
         /\ LchAt(activations, Len(activations)) = This.lch
<1>1. activations \in Seq(ActivationTypes)
  BY DEF ActivationsOK, ActivationsIn
<1>2. /\ Len(activations) \in Nat \ {0} /\ DOMAIN activations = 1 .. Len(activations)
      /\ Len(activations) \in DOMAIN activations
  BY <1>1
<1>3. This = activations[Len(activations)]
  BY DEF This
<1> QED
  BY <1>1, <1>2, <1>3 DEF ActivationsOK, ActivationsIn, NodeAt, LchAt

(* The last activation becomes f and calls one on node c. *)
Pushed(a, b, f, c) ==
  /\ b \in Seq(ActivationTypes) /\ Len(b) = Len(a) + 1 /\ DOMAIN b = 1 .. Len(a) + 1
  /\ b[Len(a)] = f /\ b[Len(a) + 1] = Activation(c)
  /\ \A i \in 1 .. Len(a) - 1 : b[i] = a[i]
  /\ Activation(c) \in ActivationTypes

LEMMA PushedAre ==
  ASSUME NEW a \in Seq(ActivationTypes), a # <<>>, NEW f \in ActivationTypes, NEW c \in Nat,
         NEW b, b = Append([a EXCEPT ![Len(a)] = f], Activation(c))
  PROVE  Pushed(a, b, f, c)
<1> DEFINE d == [a EXCEPT ![Len(a)] = f]
<1>1. Activation(c) \in ActivationTypes
  BY DEF Activation, ActivationTypes, NoPredicate
<1>2. /\ d \in Seq(ActivationTypes) /\ Len(d) = Len(a) /\ d[Len(a)] = f
      /\ \A i \in 1 .. Len(a) - 1 : d[i] = a[i]
  OBVIOUS
<1>3. b = Append(d, Activation(c))
  OBVIOUS
<1> HIDE DEF d
<1>4. /\ b \in Seq(ActivationTypes) /\ Len(b) = Len(d) + 1 /\ b[Len(d) + 1] = Activation(c)
      /\ \A i \in 1 .. Len(d) : b[i] = d[i]
  BY <1>1, <1>2, <1>3
<1>5. Len(a) \in 1 .. Len(d) /\ \A i \in 1 .. Len(a) - 1 : i \in 1 .. Len(d)
  BY <1>2
<1> QED
  BY <1>1, <1>2, <1>4, <1>5 DEF Pushed

PushedLocals(a, b, f, c) ==
  /\ \A i \in Nat : i \notin {Len(a), Len(a) + 1} =>
       NodeAt(b, i) = NodeAt(a, i) /\ LchAt(b, i) = LchAt(a, i)
  /\ NodeAt(b, Len(a)) = f.node /\ LchAt(b, Len(a)) = f.lch
  /\ NodeAt(b, Len(a) + 1) = c /\ LchAt(b, Len(a) + 1) = NoPredicate
  /\ NodeAt(a, Len(a) + 1) = NoPredicate /\ LchAt(a, Len(a) + 1) = NoPredicate

LEMMA PushedHold ==
  ASSUME NEW a \in Seq(ActivationTypes), a # <<>>, NEW f \in ActivationTypes, NEW c \in Nat,
         NEW b, b = Append([a EXCEPT ![Len(a)] = f], Activation(c))
  PROVE  PushedLocals(a, b, f, c)
<1> DEFINE N == Len(a)
<1>1. /\ DOMAIN b = 1 .. N + 1 /\ DOMAIN a = 1 .. N /\ N \in Nat \ {0}
      /\ b[N] = f /\ b[N + 1] = Activation(c) /\ \A i \in 1 .. N - 1 : b[i] = a[i]
  BY PushedAre DEF Pushed
<1>2. Activation(c).node = c /\ Activation(c).lch = NoPredicate
  BY DEF Activation
<1> HIDE DEF N
<1>3. ASSUME NEW i \in Nat, i \notin {N, N + 1}
      PROVE  NodeAt(b, i) = NodeAt(a, i) /\ LchAt(b, i) = LchAt(a, i)
  <2>1. i \in DOMAIN b <=> i \in DOMAIN a
    BY <1>1, <1>3
  <2>2. i \in DOMAIN a => b[i] = a[i]
    BY <1>1, <1>3
  <2> QED
    BY <2>1, <2>2 DEF NodeAt, LchAt
<1>4. N \in DOMAIN b /\ N + 1 \in DOMAIN b /\ N + 1 \notin DOMAIN a
  BY <1>1
<1>5. /\ NodeAt(b, N) = f.node /\ LchAt(b, N) = f.lch
      /\ NodeAt(b, N + 1) = c /\ LchAt(b, N + 1) = NoPredicate
      /\ NodeAt(a, N + 1) = NoPredicate /\ LchAt(a, N + 1) = NoPredicate
  BY <1>1, <1>2, <1>4 DEF NodeAt, LchAt
<1> QED
  BY <1>3, <1>5 DEF PushedLocals, N

(* The last activation returns. *)
Popped(a, b) ==
  /\ b \in Seq(ActivationTypes) /\ Len(b) = Len(a) - 1 /\ DOMAIN b = 1 .. Len(a) - 1
  /\ \A i \in 1 .. Len(a) - 1 : b[i] = a[i] /\ i \in DOMAIN a
  /\ Len(a) = 1 => b = <<>>
  /\ \A i \in Nat : i # Len(a) => NodeAt(b, i) = NodeAt(a, i) /\ LchAt(b, i) = LchAt(a, i)
  /\ NodeAt(b, Len(a)) = NoPredicate /\ LchAt(b, Len(a)) = NoPredicate

LEMMA PoppedAre ==
  ASSUME NEW a \in Seq(ActivationTypes), a # <<>>,
         NEW b, b = SubSeq(a, 1, Len(a) - 1)
  PROVE  Popped(a, b)
<1> DEFINE N == Len(a)
<1>0. DOMAIN a = 1 .. N /\ N \in Nat \ {0}
  OBVIOUS
<1>1. /\ b \in Seq(ActivationTypes) /\ Len(b) = N - 1 /\ DOMAIN b = 1 .. N - 1
      /\ \A i \in 1 .. N - 1 : b[i] = a[i] /\ i \in DOMAIN a
      /\ DOMAIN a = 1 .. N /\ N \in Nat \ {0}
  <2>1. b = [i \in 1 .. N - 1 |-> a[i]]
    BY <1>0
  <2>2. \A i \in 1 .. N - 1 : a[i] \in ActivationTypes /\ i \in DOMAIN a
    BY <1>0
  <2>3. N - 1 \in Nat
    BY <1>0
  <2> HIDE DEF N
  <2>4. b \in Seq(ActivationTypes) /\ Len(b) = N - 1 /\ DOMAIN b = 1 .. N - 1
    BY <2>1, <2>2, <2>3
  <2> QED
    BY <1>0, <2>1, <2>2, <2>4
<1>2. N = 1 => b = <<>>
  BY <1>1
<1> HIDE DEF N
<1>3. ASSUME NEW i \in Nat, i # N
      PROVE  NodeAt(b, i) = NodeAt(a, i) /\ LchAt(b, i) = LchAt(a, i)
  <2>1. i \in DOMAIN b <=> i \in DOMAIN a
    BY <1>1, <1>3
  <2>2. i \in DOMAIN b => b[i] = a[i]
    BY <1>1
  <2> QED
    BY <2>1, <2>2 DEF NodeAt, LchAt
<1>4. N \notin DOMAIN b
  BY <1>1
<1>5. NodeAt(b, N) = NoPredicate /\ LchAt(b, N) = NoPredicate
  BY <1>4 DEF NodeAt, LchAt
<1> QED
  BY <1>1, <1>2, <1>3, <1>5 DEF Popped, N

(* Who owns what is apart from what others own. *)
LEMMA OneHolder ==
  ASSUME PredicatesOwned
  PROVE  /\ \A p \in Places : Holding[p] \in {NoPredicate} \cup LiveNodes
         /\ \A p, q \in Places : (Holding[p] # NoPredicate /\ Holding[p] = Holding[q]) => p = q
         /\ \A n \in LiveNodes : \E p \in Places : Holding[p] = n
         /\ Holding' \in [Places -> {Holding'[p] : p \in Places}]
  BY DEF PredicatesOwned, Owned, Holding, HoldingOf

LEMMA LocalsApart ==
  ASSUME PredicatesOwned, ActivationsOK, activations # <<>>
  PROVE  /\ \A x \in {This.node, This.lch, folded} :
              x # NoPredicate => /\ x \in LiveNodes
                                 /\ \A n, k \in Nat : ChildAt(preds, n, k) # x
         /\ This.lch # NoPredicate => This.lch # This.node /\ This.lch # folded
         /\ folded # NoPredicate => folded # This.node
         /\ \A i \in 1 .. Len(activations) - 1 :
              \A x \in {activations[i].node, activations[i].lch} :
                x # NoPredicate =>
                  /\ x \in LiveNodes /\ x \notin {This.node, This.lch, folded}
                  /\ \A n, k \in Nat : ChildAt(preds, n, k) # x
<1> DEFINE N == Len(activations)
           pn(i) == <<"node", i, 0>>
           pl(i) == <<"lch", i, 0>>
           pr == <<"returned", 0, 0>>
           pc(n, k) == <<"child", n, k>>
<1>1. N \in Nat \ {0} /\ DOMAIN activations = 1 .. N /\ 0 \in Nat
      /\ This = activations[N]
  BY LastActivation
<1> HIDE DEF N
<1>2. \A i \in Nat : pn(i) \in Places /\ pl(i) \in Places
  BY SomePlaces
<1>3. pr \in Places /\ \A n, k \in Nat : pc(n, k) \in Places
  BY SomePlaces
<1>4. \A i \in 1 .. N : i \in Nat /\ Holding[pn(i)] = activations[i].node
  <2>1. \A i \in Nat : Holding[pn(i)] = NodeAt(activations, i)
    BY HoldsNow
  <2>2. \A i \in 1 .. N : i \in Nat /\ NodeAt(activations, i) = activations[i].node
    BY <1>1 DEF NodeAt
  <2> QED
    BY <2>1, <2>2
<1>5. \A i \in 1 .. N : Holding[pl(i)] = activations[i].lch
  <2>1. \A i \in Nat : Holding[pl(i)] = LchAt(activations, i)
    BY HoldsNow
  <2>2. \A i \in 1 .. N : i \in Nat /\ LchAt(activations, i) = activations[i].lch
    BY <1>1 DEF LchAt
  <2> QED
    BY <2>1, <2>2
<1>6. Holding[pr] = folded /\ \A n, k \in Nat : Holding[pc(n, k)] = ChildAt(preds, n, k)
  BY HoldsNow
<1>7. /\ \A i, j : pn(i) = pn(j) => i = j
      /\ \A i, j : pl(i) = pl(j) => i = j
      /\ \A i, j : pn(i) # pl(j)
      /\ \A i, n, k : pn(i) # pc(n, k) /\ pl(i) # pc(n, k) /\ pr # pc(n, k)
      /\ \A i : pn(i) # pr /\ pl(i) # pr
  OBVIOUS
<1> HIDE DEF pn, pl, pr, pc
<1>8. /\ \A p \in Places : Holding[p] \in {NoPredicate} \cup LiveNodes
      /\ \A p, q \in Places : (Holding[p] # NoPredicate /\ Holding[p] = Holding[q]) => p = q
  BY OneHolder
<1>9. ASSUME NEW i \in 1 .. N, NEW x \in {activations[i].node, activations[i].lch},
             x # NoPredicate
      PROVE  x \in LiveNodes /\ \A n, k \in Nat : ChildAt(preds, n, k) # x
  <2>1. CASE x = activations[i].node
    BY <1>2, <1>3, <1>4, <1>6, <1>7, <1>8, <1>9, <2>1
  <2>2. CASE x = activations[i].lch
    BY <1>2, <1>3, <1>4, <1>5, <1>6, <1>7, <1>8, <1>9, <2>2
  <2> QED
    BY <1>9, <2>1, <2>2
<1>10. folded # NoPredicate =>
         folded \in LiveNodes /\ \A n, k \in Nat : ChildAt(preds, n, k) # folded
  BY <1>3, <1>6, <1>7, <1>8
<1>11. N \in 1 .. N
  BY <1>1
<1>12. \A x \in {This.node, This.lch, folded} :
         x # NoPredicate => x \in LiveNodes /\ \A n, k \in Nat : ChildAt(preds, n, k) # x
  BY <1>1, <1>9, <1>10, <1>11
<1>13. /\ This.lch # NoPredicate => This.lch # This.node /\ This.lch # folded
       /\ folded # NoPredicate => folded # This.node
  BY <1>1, <1>2, <1>3, <1>4, <1>5, <1>6, <1>7, <1>8, <1>11
<1>14. ASSUME NEW i \in 1 .. N - 1, NEW x \in {activations[i].node, activations[i].lch},
              x # NoPredicate
       PROVE  x \notin {This.node, This.lch, folded}
  <2>1. i \in 1 .. N /\ i # N
    BY <1>1
  <2>2. CASE x = activations[i].node
    BY <1>1, <1>2, <1>3, <1>4, <1>5, <1>6, <1>7, <1>8, <1>11, <1>14, <2>1, <2>2
  <2>3. CASE x = activations[i].lch
    BY <1>1, <1>2, <1>3, <1>4, <1>5, <1>6, <1>7, <1>8, <1>11, <1>14, <2>1, <2>3
  <2> QED
    BY <1>14, <2>2, <2>3
<1>15. \A i \in 1 .. N - 1 : i \in 1 .. N
  BY <1>1
<1> QED
  BY <1>9, <1>12, <1>13, <1>14, <1>15 DEF N

-----------------------------------------------------------------------------
(* A fold returns n: what was below it in the stack is as it was. *)

\* An activation whose nodes are left alone is as it was.
LEMMA ActivationKept ==
  ASSUME NEW p, NEW g, NEW f, ActivationIn(p, f), NoPredicate \notin DOMAIN p,
         \A x \in {f.node, f.lch} : x # NoPredicate => x \in DOMAIN g /\ g[x] = p[x]
  PROVE  ActivationIn(g, f)
<1>1. f.node \in DOMAIN g /\ g[f.node] = p[f.node]
  BY DEF ActivationIn
<1>2. f.lch # NoPredicate => f.lch \in DOMAIN g /\ g[f.lch] = p[f.lch]
  OBVIOUS
<1>3. f.lch \in {NoPredicate} \cup DOMAIN g
  BY <1>2
<1>4. f.at = "enter" => f.lch = NoPredicate /\ IsWhole(g, f.node)
  BY <1>1 DEF ActivationIn, IsWhole
<1>5. f.at = "first" =>
        /\ g[f.node].kind \in {"And", "Or", "Not"} /\ f.lch = NoPredicate
        /\ \A k \in DOMAIN g[f.node].child : g[f.node].child[k] = NoPredicate <=> k = 1
  BY <1>1 DEF ActivationIn
<1>6. f.at = "second" =>
        /\ g[f.node].kind \in {"And", "Or"} /\ f.lch # NoPredicate /\ IsFolded(g, f.lch, f.node)
        /\ \A k \in DOMAIN g[f.node].child : g[f.node].child[k] = NoPredicate
  BY <1>1, <1>2 DEF ActivationIn, IsFolded
<1> QED
  BY <1>1, <1>3, <1>4, <1>5, <1>6 DEF ActivationIn

\* The nodes that the activations below the last one work on are left alone.
LowerKept(p, g, a) ==
  \A i \in 1 .. Len(a) - 1 : \A x \in {a[i].node, a[i].lch} :
    x # NoPredicate => x \in DOMAIN g /\ g[x] = p[x]

\* The last activation returns n, and its caller gets it if there is one.
LEMMA PoppedShape ==
  ASSUME NEW p, NEW g, NEW a, NEW b, NEW x, NEW n, a # <<>>,
         ActivationsIn(p, a, x), NoPredicate \notin DOMAIN p, LowerKept(p, g, a),
         b = SubSeq(a, 1, Len(a) - 1), n \in Nat, n # NoPredicate,
         g[n].kind = "Raw" \/ n <= a[Len(a)].node
  PROVE  ActivationsIn(g, b, IF Len(a) = 1 THEN NoPredicate ELSE n)
<1> DEFINE N == Len(a)
           y == IF N = 1 THEN NoPredicate ELSE n
<1>1. /\ a \in Seq(ActivationTypes)
      /\ \A i \in DOMAIN a : ActivationIn(p, a[i])
      /\ \A i \in DOMAIN a : a[i].at = "enter" <=> (i = N /\ x = NoPredicate)
      /\ \A i \in DOMAIN a : i + 1 \in DOMAIN a => a[i + 1].node < a[i].node
  BY DEF ActivationsIn
<1>2. N \in Nat \ {0} /\ DOMAIN a = 1 .. N
  BY <1>1
<1>3. /\ b \in Seq(ActivationTypes) /\ Len(b) = N - 1 /\ DOMAIN b = 1 .. N - 1
      /\ \A i \in 1 .. N - 1 : b[i] = a[i] /\ i \in DOMAIN a
  <2>1. Popped(a, b)
    BY <1>1, PoppedAre
  <2> QED
    BY <2>1 DEF Popped
<1>4. \A i \in 1 .. N - 1 : \A z \in {a[i].node, a[i].lch} :
        z # NoPredicate => z \in DOMAIN g /\ g[z] = p[z]
  BY DEF LowerKept
<1> HIDE DEF N
<1>5. ASSUME NEW i \in DOMAIN b PROVE ActivationIn(g, b[i])
  <2>1. i \in 1 .. N - 1 /\ b[i] = a[i] /\ ActivationIn(p, a[i])
    BY <1>1, <1>3
  <2>2. ActivationIn(g, a[i])
    BY <1>4, <2>1, ActivationKept
  <2> QED
    BY <2>1, <2>2
<1>6. ASSUME NEW i \in DOMAIN b
      PROVE  b[i].at = "enter" <=> (i = Len(b) /\ y = NoPredicate)
  <2>1. i \in 1 .. N - 1 /\ b[i] = a[i] /\ i \in DOMAIN a /\ i # N /\ N # 1
    BY <1>2, <1>3
  <2> QED
    BY <1>1, <2>1
<1>7. ASSUME NEW i \in DOMAIN b, i + 1 \in DOMAIN b
      PROVE  b[i + 1].node < b[i].node
  <2>1. i + 1 \in DOMAIN a /\ i \in DOMAIN a /\ b[i] = a[i] /\ b[i + 1] = a[i + 1]
    BY <1>3, <1>7
  <2> QED
    BY <1>1, <2>1
<1>8. ASSUME y # NoPredicate PROVE b # <<>> /\ IsFolded(g, y, b[Len(b)].node)
  <2>1. N # 1 /\ y = n
    BY <1>8
  <2>2. N - 1 \in DOMAIN a /\ N \in DOMAIN a /\ N - 1 \in 1 .. N - 1 /\ (N - 1) + 1 = N
    BY <1>2, <2>1
  <2>3. b # <<>> /\ b[Len(b)] = a[N - 1]
    BY <1>3, <2>2
  <2>4. a[N].node < a[N - 1].node
    <3>1. \A i \in DOMAIN a : i + 1 = N => a[N].node < a[i].node
      BY <1>1, <2>2
    <3> QED
      BY <2>2, <3>1
  <2>5. a[N].node \in Nat /\ a[N - 1].node \in Nat
    <3>1. a[N] \in ActivationTypes /\ a[N - 1] \in ActivationTypes
      BY <1>1, <2>2
    <3> QED
      BY <3>1 DEF ActivationTypes
  <2>6. g[n].kind = "Raw" \/ n < a[N - 1].node
    BY <2>4, <2>5 DEF N
  <2> QED
    BY <2>1, <2>3, <2>6 DEF IsFolded
<1>9. ActivationsIn(g, b, y)
  BY <1>3, <1>5, <1>6, <1>7, <1>8 DEF ActivationsIn
<1> QED
  BY <1>9 DEF y, N

LEMMA ReturnShape ==
  ASSUME PredsOK, ActivationsOK, StageOK, stage = "folding", NEW n \in DOMAIN preds',
         FoldReturn(n), preds' \in Seq(Predicates), DOMAIN preds \subseteq DOMAIN preds',
         \A m \in DOMAIN preds' : NodeOK(preds', m),
         \A m \in DOMAIN preds' :
           IsWhole(preds', m) \/ \E i \in 1 .. Len(activations) - 1 : activations[i].node = m,
         LowerKept(preds, preds', activations), preds'[n].kind = "Raw" \/ n <= This.node
  PROVE  PredsOK' /\ ActivationsOK' /\ StageOK'
<1> DEFINE N == Len(activations)
           a == activations
           b == activations'
<1>1. /\ a # <<>> /\ a \in Seq(ActivationTypes) /\ N \in Nat \ {0} /\ This = a[N]
  BY LastActivation DEF StageOK, ActivationsOK, ActivationsIn
<1>2. n \in Nat /\ n # NoPredicate /\ NoPredicate \notin DOMAIN preds
  BY DEF PredsOK, NoPredicate
<1>3. b = SubSeq(a, 1, Len(a) - 1)
  BY DEF FoldReturn
<1>4. /\ b \in Seq(ActivationTypes) /\ Len(b) = N - 1 /\ DOMAIN b = 1 .. N - 1
      /\ \A i \in 1 .. N - 1 : b[i] = a[i]
      /\ N = 1 => b = <<>>
  <2>1. Popped(a, b)
    BY <1>1, <1>3, PoppedAre
  <2> QED
    BY <1>1, <2>1 DEF Popped
<1>5. \/ N = 1 /\ folded' = NoPredicate /\ pending' = <<n>> /\ stage' = "splitting"
      \/ N # 1 /\ folded' = n /\ pending' = pending /\ stage' = stage
  BY DEF FoldReturn
<1>6. condition' = condition /\ conditions' = conditions /\ condition = NoPredicate
      /\ pending = <<>> /\ conditions = <<>>
  BY DEF FoldReturn, Untouched, StageOK
<1>7. ActivationsOK'
  <2>1. folded' = IF Len(a) = 1 THEN NoPredicate ELSE n
    BY <1>5
  <2>2. preds'[n].kind = "Raw" \/ n <= a[Len(a)].node
    BY <1>1
  <2>3. ActivationsIn(preds, a, folded)
    BY DEF ActivationsOK
  <2> HIDE DEF a, b, N
  <2>4. ActivationsIn(preds', b, folded')
    BY <1>1, <1>2, <1>3, <2>1, <2>2, <2>3, PoppedShape DEF a
  <2> QED
    BY <2>4 DEF ActivationsOK, b
<1> HIDE DEF N
<1>8. PredsOK'
  <2>1. ASSUME NEW m \in DOMAIN preds'
        PROVE  IsWhole(preds', m) \/ \E i \in DOMAIN b : b[i].node = m
    <3>1. CASE IsWhole(preds', m)
      BY <3>1
    <3>2. CASE ~IsWhole(preds', m)
      <4>1. PICK i \in 1 .. N - 1 : a[i].node = m
        BY <3>2 DEF N
      <4> QED
        BY <1>4, <4>1
    <3> QED
      BY <3>1, <3>2
  <2> QED
    BY <2>1 DEF PredsOK
<1>9. StageOK'
  <2>1. condition' = NoPredicate /\ conditions' = <<>> /\ conditions' \in Seq(DOMAIN preds')
    BY <1>6
  <2>2. CASE N = 1
    <3>1. pending' = <<n>> /\ <<n>> \in Seq(DOMAIN preds') /\ b = <<>>
      BY <1>4, <1>5, <2>2
    <3> QED
      BY <1>5, <2>1, <2>2, <3>1 DEF StageOK, Stages
  <2>3. CASE N # 1
    <3>1. pending' = <<>> /\ b # <<>> /\ folded' = n /\ stage' = "folding"
      BY <1>1, <1>4, <1>5, <1>6, <2>3
    <3>2. pending' \in Seq(DOMAIN preds')
      BY <3>1
    <3> QED
      BY <2>1, <3>1, <3>2 DEF StageOK, Stages
  <2> QED
    BY <2>2, <2>3
<1> QED
  BY <1>7, <1>8, <1>9

\* A return moves what the last activation had, at most to its caller.
Returning ==
  {<<"node", Len(activations), 0>>, <<"lch", Len(activations), 0>>, <<"returned", 0, 0>>,
   <<"pending", 0, 0>>}

LEMMA ReturnHolds ==
  ASSUME ActivationsOK, StageOK, stage = "folding", NEW n, FoldReturn(n)
  PROVE  LET N == Len(activations)
         IN  /\ LocalsAlone(Returning) /\ StatementAlone(Returning) /\ ResultsAlone(Returning)
             /\ Returning \subseteq Places
             /\ Holding[<<"node", N, 0>>] = This.node /\ Holding[<<"lch", N, 0>>] = This.lch
             /\ Holding[<<"returned", 0, 0>>] = folded
             /\ Holding[<<"pending", 0, 0>>] = NoPredicate
             /\ Holding'[<<"node", N, 0>>] = NoPredicate
             /\ Holding'[<<"lch", N, 0>>] = NoPredicate
             /\ \/ /\ Holding'[<<"returned", 0, 0>>] = n
                   /\ Holding'[<<"pending", 0, 0>>] = NoPredicate
                \/ /\ Holding'[<<"returned", 0, 0>>] = NoPredicate
                   /\ Holding'[<<"pending", 0, 0>>] = n
<1> DEFINE N == Len(activations)
<1>1. /\ activations # <<>> /\ activations \in Seq(ActivationTypes) /\ N \in Nat \ {0}
      /\ NodeAt(activations, N) = This.node /\ LchAt(activations, N) = This.lch
  BY LastActivation DEF StageOK, ActivationsOK, ActivationsIn
<1>2. /\ \A i \in Nat : i # N => /\ NodeAt(activations', i) = NodeAt(activations, i)
                                /\ LchAt(activations', i) = LchAt(activations, i)
      /\ NodeAt(activations', N) = NoPredicate /\ LchAt(activations', N) = NoPredicate
  <2>1. activations' = SubSeq(activations, 1, N - 1)
    BY DEF FoldReturn
  <2> QED
    BY <1>1, <2>1, PoppedAre DEF Popped
<1>3. /\ condition' = condition /\ conditions' = conditions /\ pending = <<>>
      /\ \/ folded' = NoPredicate /\ pending' = <<n>>
         \/ folded' = n /\ pending' = pending
  BY DEF FoldReturn, Untouched, StageOK
<1>4. \A i \in Nat : PendingAt(<<>>, i) = NoPredicate
  BY DEF PendingAt
<1>5. \A i \in Nat : PendingAt(<<n>>, i) = IF i = 0 THEN n ELSE NoPredicate
  <2>1. Len(<<n>>) = 1 /\ <<n>>[1] = n
    OBVIOUS
  <2> QED
    BY <2>1 DEF PendingAt
<1> HIDE DEF N
<1>6. LocalsAlone(Returning)
  BY <1>2 DEF LocalsAlone, Returning, N
<1>7. StatementAlone(Returning)
  <2>1. \A i \in Nat : i # 0 => PendingAt(pending', i) = PendingAt(pending, i)
    BY <1>3, <1>4, <1>5
  <2> QED
    BY <1>3, <2>1 DEF StatementAlone, Returning
<1>8. ResultsAlone(Returning)
  BY <1>3 DEF ResultsAlone, Returning
<1>9. Returning \subseteq Places
  <2>1. N \in Nat /\ 0 \in Nat /\ {"node", "lch", "returned", "pending"} \subseteq Kinds
    BY <1>1, SomePlaces
  <2> QED
    BY <2>1, SomePlaces DEF Returning, N
<1>10. /\ Holding[<<"node", N, 0>>] = This.node /\ Holding[<<"lch", N, 0>>] = This.lch
       /\ Holding[<<"returned", 0, 0>>] = folded
       /\ Holding[<<"pending", 0, 0>>] = NoPredicate
  BY <1>1, <1>3, <1>4, HoldsNow
<1>11. Holding'[<<"node", N, 0>>] = NoPredicate /\ Holding'[<<"lch", N, 0>>] = NoPredicate
  BY <1>1, <1>2, HoldsNext
<1>12. \/ /\ Holding'[<<"returned", 0, 0>>] = n
          /\ Holding'[<<"pending", 0, 0>>] = NoPredicate
       \/ /\ Holding'[<<"returned", 0, 0>>] = NoPredicate
          /\ Holding'[<<"pending", 0, 0>>] = n
  <2>1. /\ Holding'[<<"returned", 0, 0>>] = folded'
        /\ Holding'[<<"pending", 0, 0>>] = PendingAt(pending', 0)
    BY HoldsNext
  <2>2. PendingAt(<<>>, 0) = NoPredicate /\ PendingAt(<<n>>, 0) = n
    BY <1>4, <1>5
  <2> QED
    BY <1>3, <2>1, <2>2
<1> QED
  BY <1>6, <1>7, <1>8, <1>9, <1>10, <1>11, <1>12 DEF N

(* The returned pointer takes over from the locals; what is lost is destroyed. *)
Returned(n, D, A) ==
  /\ n # NoPredicate /\ D \subseteq LiveNodes /\ A \cap LiveNodes = {} /\ A \subseteq {n}
  /\ ChildrenAlone({}, D)
  /\ \A x \in D : \/ x \in {This.node, This.lch, folded}
                 \/ \E i, k \in Nat :
                      ChildAt(preds, i, k) = x /\ ChildAt(preds', i, k) = NoPredicate
  /\ n \in A \/ (n \notin D /\ n \in {This.node, This.lch, folded})
  /\ {This.node, This.lch, folded} \subseteq {NoPredicate, n} \cup D
  /\ LiveNodes' = (LiveNodes \ D) \cup A

LEMMA ReturnOwned ==
  ASSUME PredicatesOwned, ActivationsOK, StageOK, stage = "folding",
         NEW n, FoldReturn(n), NEW D, NEW A, Returned(n, D, A)
  PROVE  PredicatesOwned'
<1>0. /\ n # NoPredicate /\ D \in SUBSET LiveNodes /\ A \cap LiveNodes = {} /\ A \subseteq {n}
      /\ ChildrenAlone({}, D)
      /\ \A x \in D : \/ x \in {This.node, This.lch, folded}
                     \/ \E i, k \in Nat : ChildAt(preds, i, k) = x
                                          /\ ChildAt(preds', i, k) = NoPredicate
      /\ n \in A \/ (n \notin D /\ n \in {This.node, This.lch, folded})
      /\ {This.node, This.lch, folded} \subseteq {NoPredicate, n} \cup D
      /\ LiveNodes' = (LiveNodes \ D) \cup A
  BY DEF Returned
<1> DEFINE N == Len(activations)
           pn == <<"node", N, 0>>
           pl == <<"lch", N, 0>>
           pr == <<"returned", 0, 0>>
           pp == <<"pending", 0, 0>>
           M == Returning
           W == Holding
           V == Holding'
<1>1. M = {pn, pl, pr, pp} /\ pr # pp
  BY DEF Returning
<1>2. /\ LocalsAlone(M) /\ StatementAlone(M) /\ ResultsAlone(M) /\ M \subseteq Places
      /\ W[pn] = This.node /\ W[pl] = This.lch /\ W[pr] = folded /\ W[pp] = NoPredicate
      /\ V[pn] = NoPredicate /\ V[pl] = NoPredicate
      /\ \/ V[pr] = n /\ V[pp] = NoPredicate
         \/ V[pr] = NoPredicate /\ V[pp] = n
  BY ReturnHolds
<1>3. \A p \in Places : p \in M \/ V[p] = W[p] \/ (V[p] = NoPredicate /\ W[p] \in D)
  <2>1. ChildrenAlone(M, D)
    BY <1>0 DEF ChildrenAlone
  <2> HIDE DEF M
  <2> QED
    BY <1>2, <2>1, RestAlone
<1>4. ASSUME NEW x \in D
      PROVE  \E p \in Places : W[p] = x /\ (p \in M \/ V[p] = NoPredicate)
  <2>1. CASE x \in {This.node, This.lch, folded}
    BY <1>1, <1>2, <2>1
  <2>2. CASE \E i, k \in Nat : ChildAt(preds, i, k) = x /\ ChildAt(preds', i, k) = NoPredicate
    <3>1. PICK i \in Nat, k \in Nat :
            ChildAt(preds, i, k) = x /\ ChildAt(preds', i, k) = NoPredicate
      BY <2>2
    <3>2. <<"child", i, k>> \in Places
      BY SomePlaces
    <3>3. W[<<"child", i, k>>] = x /\ V[<<"child", i, k>>] = NoPredicate
      BY <3>1, HoldsNow, HoldsNext
    <3> QED
      BY <3>2, <3>3
  <2> QED
    BY <1>0, <1>4, <2>1, <2>2
<1> HIDE DEF pn, pl, pr, pp, M, W, V, N
<1>5. \A q \in M : V[q] # NoPredicate =>
        V[q] \in A \/ (V[q] \notin D /\ \E p \in M : W[p] = V[q])
  BY <1>0, <1>1, <1>2
<1>6. \A p \in M : (W[p] # NoPredicate /\ W[p] \notin D) => \E q \in M : V[q] = W[p]
  BY <1>0, <1>1, <1>2
<1>7. \A q, r \in M : (V[q] # NoPredicate /\ V[q] = V[r]) => q = r
  BY <1>0, <1>1, <1>2
<1>8. \A x \in A : \E q \in M : V[q] = x
  BY <1>0, <1>1, <1>2
<1>9. Exchanged(W, V, M, D, A)
  BY <1>3, <1>4, <1>5, <1>6, <1>7, <1>8 DEF Exchanged
<1>10. V \in [Places -> {V[p] : p \in Places}]
  BY OneHolder DEF V
<1>11. Owned(W, LiveNodes)
  BY DEF PredicatesOwned, W
<1>12. NoPredicate \notin A
  BY <1>0
<1>13. Owned(V, (LiveNodes \ D) \cup A)
  BY <1>0, <1>2, <1>9, <1>10, <1>11, <1>12, ExchangeOwned
<1> QED
  BY <1>0, <1>13 DEF PredicatesOwned, V

(* What the last activation has while it folds. *)
LEMMA RunningHas ==
  ASSUME OwnershipInv, stage = "folding"
  PROVE  /\ activations # <<>> /\ This.node \in LiveNodes
         /\ preds \in Seq(Predicates) /\ LiveNodes \subseteq DOMAIN preds
         /\ DOMAIN preds = 1 .. Len(preds) /\ Len(preds) \in Nat
         /\ \A m \in DOMAIN preds : NodeOK(preds, m) /\ m \in Nat /\ m # NoPredicate
         /\ \A m \in DOMAIN preds :
              \/ m = This.node \/ IsWhole(preds, m)
              \/ \E i \in 1 .. Len(activations) - 1 : activations[i].node = m
         /\ This.at = "enter" =>
              This.lch = NoPredicate /\ folded = NoPredicate /\ IsWhole(preds, This.node)
         /\ This.at # "enter" =>
              /\ folded \in LiveNodes /\ folded # This.node
              /\ IsFolded(preds, folded, This.node)
         /\ This.at = "first" => This.lch = NoPredicate
         /\ This.at = "second" =>
              /\ This.lch \in LiveNodes /\ This.lch \notin {This.node, folded}
              /\ IsFolded(preds, This.lch, This.node)
         /\ ActivationIn(preds, This)
<1>1. PredsOK /\ ActivationsOK /\ StageOK /\ PredicatesOwned
  BY DEF OwnershipInv
<1>2. /\ activations # <<>> /\ preds \in Seq(Predicates)
      /\ \A m \in DOMAIN preds : NodeOK(preds, m)
  BY <1>1 DEF StageOK, PredsOK
<1>3. /\ Len(activations) \in Nat \ {0} /\ DOMAIN activations = 1 .. Len(activations)
      /\ This = activations[Len(activations)] /\ ActivationIn(preds, This)
      /\ This.at = "enter" <=> folded = NoPredicate
  BY <1>1, <1>2, LastActivation
<1>4. This.node \in DOMAIN preds /\ This.node # NoPredicate
  BY <1>2, <1>3 DEF ActivationIn, NoPredicate
<1>5. /\ \A x \in {This.node, This.lch, folded} : x # NoPredicate => x \in LiveNodes
      /\ This.lch # NoPredicate => This.lch # This.node /\ This.lch # folded
      /\ folded # NoPredicate => folded # This.node
  BY <1>1, <1>2, LocalsApart
<1>6. ASSUME NEW m \in DOMAIN preds
      PROVE  \/ m = This.node \/ IsWhole(preds, m)
             \/ \E i \in 1 .. Len(activations) - 1 : activations[i].node = m
  <2>1. IsWhole(preds, m) \/ \E i \in DOMAIN activations : activations[i].node = m
    BY <1>1 DEF PredsOK
  <2>2. \A N \in Nat : \A i \in 1 .. N : i = N \/ i \in 1 .. N - 1
    OBVIOUS
  <2> QED
    BY <1>3, <2>1, <2>2
<1>7. folded # NoPredicate => IsFolded(preds, folded, This.node)
  BY <1>1, <1>3 DEF ActivationsOK, ActivationsIn
<1>8. /\ This.at = "enter" => This.lch = NoPredicate /\ IsWhole(preds, This.node)
      /\ This.at = "first" => This.lch = NoPredicate
      /\ This.at = "second" => This.lch # NoPredicate /\ IsFolded(preds, This.lch, This.node)
  BY <1>3 DEF ActivationIn
<1>9. DOMAIN preds = 1 .. Len(preds) /\ Len(preds) \in Nat
  BY <1>2
<1>10. \A m \in DOMAIN preds : m \in Nat /\ m # NoPredicate
  BY <1>9 DEF NoPredicate
<1> QED
  BY <1>2, <1>3, <1>4, <1>5, <1>6, <1>7, <1>8, <1>9, <1>10 DEF LiveNodes

\* What the activations below have is live, and no one else's.
LEMMA LowerApart ==
  ASSUME OwnershipInv, stage = "folding"
  PROVE  \A i \in 1 .. Len(activations) - 1 :
           \A x \in {activations[i].node, activations[i].lch} :
             x # NoPredicate =>
               /\ x \in LiveNodes /\ x \in DOMAIN preds /\ x \notin {This.node, This.lch, folded}
               /\ \A n, k \in Nat : ChildAt(preds, n, k) # x
<1>1. PredicatesOwned /\ ActivationsOK /\ activations # <<>>
  BY RunningHas DEF OwnershipInv
<1> QED
  BY <1>1, LocalsApart DEF LiveNodes

Shapes == PredsOK /\ ActivationsOK /\ StageOK /\ PredicatesOwned

LEMMA FoldNothingStep ==
  ASSUME OwnershipInv, FoldNothing
  PROVE  Shapes'
<1>1. stage = "folding" /\ This.at = "enter" /\ FoldReturn(This.node) /\ preds' = preds
  BY DEF FoldNothing, Folding
<1>2. PredsOK /\ ActivationsOK /\ StageOK /\ PredicatesOwned
  BY DEF OwnershipInv
<1>3. /\ This.node \in DOMAIN preds' /\ This.node # NoPredicate
      /\ preds' \in Seq(Predicates) /\ DOMAIN preds \subseteq DOMAIN preds'
      /\ \A m \in DOMAIN preds' : NodeOK(preds', m)
      /\ \A m \in DOMAIN preds' :
           IsWhole(preds', m) \/ \E i \in 1 .. Len(activations) - 1 : activations[i].node = m
      /\ This.node <= This.node
      /\ This.lch = NoPredicate /\ folded = NoPredicate
  BY <1>1, RunningHas
<1>4. LowerKept(preds, preds', activations)
  BY <1>1, LowerApart DEF LowerKept
<1>5. PredsOK' /\ ActivationsOK' /\ StageOK'
  BY <1>1, <1>2, <1>3, <1>4, ReturnShape
<1>6. PredicatesOwned'
  <2>1. ChildrenAlone({}, {})
    BY <1>1 DEF ChildrenAlone
  <2>2. LiveNodes' = (LiveNodes \ {}) \cup {}
    BY <1>1 DEF LiveNodes
  <2>3. {This.node, This.lch, folded} \subseteq {NoPredicate, This.node} \cup {}
    BY <1>3
  <2>4. \A x \in {} : \/ x \in {This.node, This.lch, folded}
                      \/ \E i, k \in Nat : ChildAt(preds, i, k) = x
                                           /\ ChildAt(preds', i, k) = NoPredicate
    OBVIOUS
  <2>5. {} \in SUBSET LiveNodes /\ {} \cap LiveNodes = {} /\ {} \subseteq {This.node}
    OBVIOUS
  <2>6. This.node \in {} \/ (This.node \notin {} /\ This.node \in {This.node, This.lch, folded})
    OBVIOUS
  <2>7. Returned(This.node, {}, {})
    BY <1>3, <2>1, <2>2, <2>3, <2>4, <2>5, <2>6 DEF Returned
  <2> QED
    BY <1>1, <1>2, <2>7, ReturnOwned
<1> QED
  BY <1>5, <1>6 DEF Shapes

\* A node that is not written keeps its shape, unless a child becomes a constant.
LEMMA ShapeKept ==
  ASSUME NEW p \in Seq(Predicates), NEW g, NEW n \in DOMAIN p, NodeOK(p, n), g[n] = p[n],
         \A x \in DOMAIN p : g[x].kind = "Raw" => p[x].kind = "Raw"
  PROVE  NodeOK(g, n)
<1>1. \A x \in 1 .. n - 1 : x \in DOMAIN p
  OBVIOUS
<1> QED
  BY <1>1 DEF NodeOK

LEMMA DestroyedShape ==
  ASSUME NEW g, NEW n, g[n].kind = "Destroyed", g[n].child = <<>>
  PROVE  NodeOK(g, n) /\ IsWhole(g, n)
  BY DEF NodeOK, IsWhole

WithRaw(p, g) ==
  /\ g \in Seq(Predicates) /\ Len(g) = Len(p) + 1 /\ DOMAIN g = 1 .. Len(p) + 1
  /\ \A m \in DOMAIN p : m \in DOMAIN g /\ g[m] = p[m]
  /\ g[Len(p) + 1].kind = "Raw" /\ g[Len(p) + 1].child = <<>>
  /\ NodeOK(g, Len(p) + 1) /\ IsWhole(g, Len(p) + 1)
  /\ \A i, k \in Nat : ChildAt(g, i, k) = ChildAt(p, i, k)

LEMMA RawAdded ==
  ASSUME NEW p \in Seq(Predicates), NEW v \in BOOLEAN, NEW g, g = Append(p, PredicateRaw(v))
  PROVE  WithRaw(p, g)
<1> DEFINE r == PredicateRaw(v)
<1>1. r.kind = "Raw" /\ r.child = <<>> /\ r \in Predicates
  <2>1. <<>> \in Seq(Operands) /\ <<>> \in Seq(Nat)
    OBVIOUS
  <2> QED
    BY <2>1 DEF PredicateRaw, Predicates, CompareOps
<1> HIDE DEF r
<1>2. g = Append(p, r)
  BY DEF r
<1>3. /\ g \in Seq(Predicates) /\ Len(g) = Len(p) + 1 /\ DOMAIN g = 1 .. Len(p) + 1
      /\ \A m \in DOMAIN p : m \in DOMAIN g /\ g[m] = p[m]
      /\ g[Len(p) + 1] = r
  BY <1>1, <1>2
<1>4. NodeOK(g, Len(p) + 1) /\ IsWhole(g, Len(p) + 1)
  <2>1. Len(<<>>) = 0 /\ DOMAIN <<>> = {}
    OBVIOUS
  <2> QED
    BY <1>1, <1>3, <2>1 DEF NodeOK, IsWhole
<1>5. ASSUME NEW i \in Nat, NEW k \in Nat
      PROVE  ChildAt(g, i, k) = ChildAt(p, i, k)
  <2>1. CASE i \in DOMAIN p
    BY <1>3, <2>1 DEF ChildAt
  <2>2. CASE i \notin DOMAIN p
    <3>1. i \notin DOMAIN g \/ DOMAIN g[i].child = {}
      BY <1>1, <1>3, <2>2
    <3> QED
      BY <2>2, <3>1 DEF ChildAt
  <2> QED
    BY <2>1, <2>2
<1> QED
  BY <1>1, <1>3, <1>4, <1>5 DEF WithRaw

LEMMA FailStep ==
  ASSUME OwnershipInv, NEW error \in Ends, Fail(error)
  PROVE  Shapes'
<1>1. /\ preds' = preds /\ activations' = activations /\ folded' = folded
      /\ condition' = condition /\ pending' = pending /\ conditions' = conditions
      /\ stage' = error
  BY DEF Fail, queryVars, foldVars, stmtVars
<1>2. PredsOK'
  BY <1>1 DEF OwnershipInv, PredsOK
<1>3. ActivationsOK'
  BY <1>1 DEF OwnershipInv, ActivationsOK
<1>4. StageOK'
  <2>1. /\ error \in Stages
        /\ error \notin {"relations", "attributes", "leaves", "folding", "splitting"}
    BY DEF Ends, Stages
  <2> QED
    BY <1>1, <2>1 DEF OwnershipInv, StageOK
<1>5. PredicatesOwned'
  BY <1>1 DEF OwnershipInv, PredicatesOwned, Holding, LiveNodes
<1> QED
  BY <1>2, <1>3, <1>4, <1>5 DEF Shapes

LEMMA FoldSimpleLeafStep ==
  ASSUME OwnershipInv, FoldSimpleLeaf
  PROVE  Shapes'
<1> DEFINE t == This.node
           n == Len(preds) + 1
           d == DestroyPredicates(preds, {t})
<1>1. CASE Fail("logic_error")
  BY <1>1, FailStep DEF Ends
<1>2. CASE ~Fail("logic_error")
  <2>1. /\ stage = "folding" /\ This.at = "enter" /\ FoldReturn(n) /\ preds[t].kind = "Leaf"
    BY <1>2 DEF FoldSimpleLeaf, Folding
  <2>2. PICK v \in BOOLEAN : preds' = Append(d, PredicateRaw(v))
    <3>1. \A s : (s = "true") \in BOOLEAN
      OBVIOUS
    <3> QED
      BY <1>2, <3>1 DEF FoldSimpleLeaf
  <2>3. PredsOK /\ ActivationsOK /\ StageOK /\ PredicatesOwned
    BY DEF OwnershipInv
  <2>4. /\ t \in LiveNodes /\ This.lch = NoPredicate /\ folded = NoPredicate
        /\ preds \in Seq(Predicates) /\ LiveNodes \subseteq DOMAIN preds
        /\ DOMAIN preds = 1 .. Len(preds) /\ Len(preds) \in Nat
        /\ \A m \in DOMAIN preds : NodeOK(preds, m)
        /\ \A m \in DOMAIN preds :
             \/ m = t \/ IsWhole(preds, m)
             \/ \E i \in 1 .. Len(activations) - 1 : activations[i].node = m
    BY <2>1, RunningHas
  <2>5. /\ d \in Seq(Predicates) /\ Len(d) = Len(preds) /\ DOMAIN d = DOMAIN preds
        /\ \A m \in DOMAIN preds : m # t => d[m] = preds[m]
        /\ d[t].kind = "Destroyed" /\ d[t].child = <<>>
    BY <2>4, DestroyedAre
  <2> HIDE DEF d
  <2>6. /\ preds' \in Seq(Predicates) /\ DOMAIN preds' = 1 .. n
        /\ \A m \in DOMAIN preds : m \in DOMAIN preds' /\ preds'[m] = d[m]
        /\ preds'[n].kind = "Raw" /\ preds'[n].child = <<>>
        /\ NodeOK(preds', n) /\ IsWhole(preds', n)
        /\ \A i, k \in Nat : ChildAt(preds', i, k) = ChildAt(d, i, k)
    <3>1. WithRaw(d, preds')
      BY <2>2, <2>5, RawAdded
    <3> QED
      BY <2>5, <3>1 DEF WithRaw
  <2>7. DOMAIN preds' = DOMAIN preds \cup {n} /\ n \notin DOMAIN preds
    BY <2>4, <2>6
  <2>8. \A m \in DOMAIN preds : m # t => preds'[m] = preds[m]
    BY <2>5, <2>6
  <2>9. preds'[t].kind = "Destroyed" /\ preds'[t].child = <<>>
    BY <2>4, <2>5, <2>6
  <2>10. \A m \in DOMAIN preds' : NodeOK(preds', m)
    <3>1. ASSUME NEW m \in DOMAIN preds PROVE NodeOK(preds', m)
      <4>1. CASE m = t
        BY <2>9, <4>1, DestroyedShape
      <4>2. CASE m # t
        <5>1. \A x \in DOMAIN preds : preds'[x].kind = "Raw" => preds[x].kind = "Raw"
          BY <2>8, <2>9
        <5> QED
          BY <2>4, <2>8, <4>2, <5>1, ShapeKept
      <4> QED
        BY <4>1, <4>2
    <3> QED
      BY <2>6, <2>7, <3>1
  <2>11. ASSUME NEW m \in DOMAIN preds'
         PROVE  IsWhole(preds', m) \/ \E i \in 1 .. Len(activations) - 1 : activations[i].node = m
    <3>1. CASE m = t
      BY <2>9, <3>1, DestroyedShape
    <3>2. CASE m = n
      BY <2>6, <3>2
    <3>3. CASE m \in DOMAIN preds /\ m # t
      BY <2>4, <2>8, <3>3 DEF IsWhole
    <3> QED
      BY <2>7, <3>1, <3>2, <3>3
  <2>12. LowerKept(preds, preds', activations)
    BY <2>1, <2>7, <2>8, LowerApart DEF LowerKept
  <2>13. PredsOK' /\ ActivationsOK' /\ StageOK'
    <3>1. n \in DOMAIN preds' /\ DOMAIN preds \subseteq DOMAIN preds'
      BY <2>7
    <3> HIDE DEF n
    <3> QED
      BY <2>1, <2>3, <2>6, <2>10, <2>11, <2>12, <3>1, ReturnShape
  <2>14. PredicatesOwned'
    <3>1. ChildrenAlone({}, {t})
      <4>1. ASSUME NEW i \in Nat, NEW k \in Nat
            PROVE  ChildAt(preds', i, k) = ChildAt(preds, i, k)
        <5>1. DOMAIN preds[t].child = {} /\ DOMAIN d[t].child = {}
          BY <2>1, <2>4, <2>5, NodeTyped DEF NodeOK
        <5>2. ChildAt(d, i, k) = ChildAt(preds, i, k)
          BY <2>5, <5>1 DEF ChildAt
        <5> QED
          BY <2>6, <5>2
      <4> QED
        BY <4>1 DEF ChildrenAlone
    <3>2. LiveNodes' = (LiveNodes \ {t}) \cup {n}
      BY <2>6, <2>7, <2>8, <2>9 DEF LiveNodes
    <3>3. n \notin LiveNodes /\ n # NoPredicate
      BY <2>4, <2>7 DEF NoPredicate
    <3>4. {This.node, This.lch, folded} \subseteq {NoPredicate, n} \cup {t}
      BY <2>4
    <3> HIDE DEF n
    <3>5. {t} \in SUBSET LiveNodes /\ {n} \cap LiveNodes = {} /\ {n} \subseteq {n}
      BY <2>4, <3>3
    <3>6. n \in {n} \/ (n \notin {t} /\ n \in {This.node, This.lch, folded})
      OBVIOUS
    <3>7. \A x \in {t} : \/ x \in {This.node, This.lch, folded}
                         \/ \E i, k \in Nat : ChildAt(preds, i, k) = x
                                              /\ ChildAt(preds', i, k) = NoPredicate
      OBVIOUS
    <3>8. Returned(n, {t}, {n})
      BY <3>1, <3>2, <3>3, <3>4, <3>5, <3>6, <3>7 DEF Returned
    <3> QED
      BY <2>1, <2>3, <3>8, ReturnOwned
  <2> QED
    BY <2>13, <2>14 DEF Shapes
<1> QED
  BY <1>1, <1>2

\* Nothing but values, and perhaps the node folded, differs.
SameNodes(p, g) ==
  /\ g \in Seq(Predicates) /\ DOMAIN g = DOMAIN p
  /\ \A m \in DOMAIN p :
       /\ g[m].kind = p[m].kind /\ g[m].child = p[m].child /\ g[m].operand = p[m].operand
       /\ m # folded => g[m] = p[m]

\* The nodes of D are destroyed: the last activation's, and what hangs below others of its.
Loses(n, D) ==
  /\ D \subseteq LiveNodes /\ This.node \in D /\ ClosedBelow(preds, D)
  /\ n \in {This.lch, folded} /\ n \notin D /\ n # NoPredicate
  /\ {This.lch, folded} \subseteq {NoPredicate, n} \cup D
  /\ \A x \in D : \/ x \in {This.node, This.lch, folded}
                 \/ \E y \in D : \E k \in DOMAIN preds[y].child : preds[y].child[k] = x

LEMMA ReturnLoses ==
  ASSUME OwnershipInv, stage = "folding", This.at # "enter", NEW n, FoldReturn(n),
         NEW D, Loses(n, D), NEW p, SameNodes(preds, p), preds' = DestroyPredicates(p, D)
  PROVE  Shapes'
<1>1. PredsOK /\ ActivationsOK /\ StageOK /\ PredicatesOwned
  BY DEF OwnershipInv
<1>2. /\ preds \in Seq(Predicates) /\ LiveNodes \subseteq DOMAIN preds
      /\ DOMAIN preds = 1 .. Len(preds) /\ Len(preds) \in Nat
      /\ \A m \in DOMAIN preds : NodeOK(preds, m) /\ m \in Nat /\ m # NoPredicate
      /\ \A m \in DOMAIN preds :
           \/ m = This.node \/ IsWhole(preds, m)
           \/ \E i \in 1 .. Len(activations) - 1 : activations[i].node = m
  BY RunningHas
<1>3. /\ p \in Seq(Predicates) /\ DOMAIN p = DOMAIN preds
      /\ \A m \in DOMAIN preds :
           /\ p[m].kind = preds[m].kind /\ p[m].child = preds[m].child
           /\ p[m].operand = preds[m].operand
           /\ m # folded => p[m] = preds[m]
  BY DEF SameNodes
<1>4. /\ preds' \in Seq(Predicates) /\ DOMAIN preds' = DOMAIN preds
      /\ \A m \in DOMAIN preds : m \notin D => preds'[m] = p[m]
      /\ \A m \in DOMAIN preds : m \in D => preds'[m].kind = "Destroyed" /\ preds'[m].child = <<>>
  BY <1>3, DestroyedAre
<1>5. ASSUME NEW m \in DOMAIN preds, m \notin D
      PROVE  /\ preds'[m].kind = preds[m].kind /\ preds'[m].child = preds[m].child
             /\ preds'[m].operand = preds[m].operand
             /\ m # folded => preds'[m] = preds[m]
  <2>1. preds'[m] = p[m]
    BY <1>4, <1>5
  <2>2. p[m].kind = preds[m].kind /\ p[m].child = preds[m].child /\ p[m].operand = preds[m].operand
    BY <1>3
  <2>3. m # folded => p[m] = preds[m]
    BY <1>3
  <2> QED
    BY <2>1, <2>2, <2>3
<1>6. /\ D \subseteq LiveNodes /\ This.node \in D /\ ClosedBelow(preds, D)
      /\ n \in {This.lch, folded} /\ n \notin D /\ n # NoPredicate
      /\ {This.lch, folded} \subseteq {NoPredicate, n} \cup D
      /\ \A x \in D : \/ x \in {This.node, This.lch, folded}
                     \/ \E y \in D : \E k \in DOMAIN preds[y].child : preds[y].child[k] = x
  BY DEF Loses
<1>7. \A m \in DOMAIN preds' : NodeOK(preds', m)
  <2>1. ASSUME NEW m \in DOMAIN preds, m \notin D PROVE NodeOK(preds', m)
    <3>1. \A x \in DOMAIN preds : preds'[x].kind = "Raw" => preds[x].kind = "Raw"
      BY <1>4, <1>5
    <3>2. \A x \in 1 .. m - 1 : x \in DOMAIN preds
      BY <1>2
    <3>3. NodeOK(preds, m)
      BY <1>2
    <3> QED
      BY <1>5, <2>1, <3>1, <3>2, <3>3 DEF NodeOK
  <2>2. ASSUME NEW m \in DOMAIN preds, m \in D PROVE NodeOK(preds', m)
    BY <1>4, <2>2, DestroyedShape
  <2> QED
    BY <1>4, <2>1, <2>2
<1>8. ASSUME NEW m \in DOMAIN preds'
      PROVE  IsWhole(preds', m) \/ \E i \in 1 .. Len(activations) - 1 : activations[i].node = m
  <2>1. CASE m \in D
    BY <1>4, <2>1, DestroyedShape
  <2>2. CASE m \notin D
    BY <1>2, <1>4, <1>5, <1>6, <2>2 DEF IsWhole
  <2> QED
    BY <2>1, <2>2
<1>9. LowerKept(preds, preds', activations)
  <2>1. ASSUME NEW i \in 1 .. Len(activations) - 1,
               NEW x \in {activations[i].node, activations[i].lch}, x # NoPredicate
        PROVE  x \in DOMAIN preds' /\ preds'[x] = preds[x]
    <3>1. /\ x \in DOMAIN preds /\ x \notin {This.node, This.lch, folded}
          /\ \A m, k \in Nat : ChildAt(preds, m, k) # x
      BY <2>1, LowerApart
    <3>2. x \notin D
      <4> SUFFICES ASSUME x \in D PROVE FALSE
        OBVIOUS
      <4>1. PICK y \in D : \E k \in DOMAIN preds[y].child : preds[y].child[k] = x
        BY <1>6, <3>1
      <4>2. PICK k \in DOMAIN preds[y].child : preds[y].child[k] = x
        BY <4>1
      <4>3. y \in DOMAIN preds /\ y \in Nat
        BY <1>2, <1>6
      <4>4. k \in Nat
        <5>1. preds[y].child \in Seq(Nat)
          BY <1>2, <4>3, NodeTyped
        <5> QED
          BY <5>1
      <4> QED
        BY <3>1, <4>2, <4>3, <4>4 DEF ChildAt
    <3> QED
      BY <1>4, <1>5, <3>1, <3>2
  <2> QED
    BY <2>1 DEF LowerKept
<1>10. n \in DOMAIN preds /\ n \in LiveNodes /\ (preds[n].kind = "Raw" \/ n < This.node)
  <2>1. ActivationIn(preds, This)
    BY RunningHas
  <2>2. This.lch # NoPredicate => This.at = "second"
    <3>1. This \in ActivationTypes
      BY <1>1, RunningHas, LastActivation
    <3> QED
      BY <2>1, <3>1 DEF ActivationIn, ActivationTypes
  <2> QED
    BY <1>2, <1>6, <2>2, RunningHas DEF IsFolded
<1>11. PredsOK' /\ ActivationsOK' /\ StageOK'
  <2>1. preds'[n].kind = "Raw" \/ n <= This.node
    <3>1. This.node \in Nat /\ n \in Nat
      BY <1>2, <1>6, <1>10
    <3> QED
      BY <1>5, <1>6, <1>10, <3>1
  <2> QED
    BY <1>1, <1>4, <1>7, <1>8, <1>9, <1>10, <2>1, ReturnShape
<1>12. PredicatesOwned'
  <2>1. ASSUME NEW i \in Nat, NEW k \in Nat
        PROVE  /\ i \notin D => ChildAt(preds', i, k) = ChildAt(preds, i, k)
               /\ i \in D => /\ ChildAt(preds', i, k) = NoPredicate
                             /\ ChildAt(preds, i, k) \in {NoPredicate} \cup D
    <3>1. CASE i \notin D
      BY <1>4, <1>5, <3>1 DEF ChildAt
    <3>2. CASE i \in D
      <4>1. i \in DOMAIN preds /\ DOMAIN preds'[i].child = {}
        BY <1>2, <1>4, <1>6, <3>2
      <4> QED
        BY <1>6, <3>2, <4>1 DEF ChildAt, ClosedBelow
    <3> QED
      BY <3>1, <3>2
  <2>2. ChildrenAlone({}, D)
    BY <2>1 DEF ChildrenAlone
  <2>3. ASSUME NEW x \in D, x \notin {This.node, This.lch, folded}
        PROVE  \E i, k \in Nat : ChildAt(preds, i, k) = x /\ ChildAt(preds', i, k) = NoPredicate
    <3>1. PICK y \in D : \E k \in DOMAIN preds[y].child : preds[y].child[k] = x
      BY <1>6, <2>3
    <3>2. PICK k \in DOMAIN preds[y].child : preds[y].child[k] = x
      BY <3>1
    <3>3. y \in DOMAIN preds /\ y \in Nat
      BY <1>2, <1>6
    <3>4. k \in Nat
      <4>1. preds[y].child \in Seq(Nat)
        BY <1>2, <3>3, NodeTyped
      <4> QED
        BY <4>1
    <3>5. ChildAt(preds, y, k) = x
      BY <3>2, <3>3 DEF ChildAt
    <3> QED
      BY <2>1, <3>1, <3>3, <3>4, <3>5
  <2>4. LiveNodes' = (LiveNodes \ D) \cup {}
    BY <1>4, <1>5 DEF LiveNodes
  <2>5. Returned(n, D, {})
    BY <1>6, <2>2, <2>3, <2>4 DEF Returned
  <2> QED
    BY <1>1, <2>5, ReturnOwned
<1> QED
  BY <1>11, <1>12 DEF Shapes

LEMMA ValueFlipped ==
  ASSUME NEW p \in Seq(Predicates), NEW n \in DOMAIN p
  PROVE  LET r == [p[n] EXCEPT !.value = ~@]
         IN  /\ OneNode([p EXCEPT ![n].value = ~@], p, n, r)
             /\ r.kind = p[n].kind /\ r.child = p[n].child /\ r.operand = p[n].operand
<1> DEFINE r == [p[n] EXCEPT !.value = ~@]
           g == [p EXCEPT ![n].value = ~@]
<1>1. p[n] \in Predicates
  OBVIOUS
<1>2. p[n].value \in BOOLEAN
  BY <1>1 DEF Predicates
<1>3. (~p[n].value) \in BOOLEAN
  BY <1>2
<1>4. r \in Predicates /\ r.kind = p[n].kind /\ r.operand = p[n].operand /\ r.child = p[n].child
  BY <1>1, <1>3, NodeWritten
<1>5. g = [p EXCEPT ![n] = r]
  OBVIOUS
<1> HIDE DEF r, g
<1>6. OneNode(g, p, n, r)
  BY <1>4, <1>5, OneWritten
<1> QED
  BY <1>4, <1>6 DEF r, g

LEMMA FoldNotConstantStep ==
  ASSUME OwnershipInv, FoldNotConstant
  PROVE  Shapes'
<1> DEFINE t == This.node
           p == [preds EXCEPT ![folded].value = ~@]
<1>1. /\ stage = "folding" /\ This.at = "first" /\ FoldReturn(folded)
      /\ preds' = DestroyPredicates(p, {t}) /\ preds[t].kind = "Not"
  BY DEF FoldNotConstant, Folding
<1>2. /\ preds \in Seq(Predicates) /\ LiveNodes \subseteq DOMAIN preds
      /\ t \in LiveNodes /\ folded \in LiveNodes /\ folded # t /\ This.lch = NoPredicate
      /\ \A m \in DOMAIN preds : NodeOK(preds, m) /\ m # NoPredicate
      /\ ActivationIn(preds, This)
  BY <1>1, RunningHas
<1>3. SameNodes(preds, p)
  <2> DEFINE r == [preds[folded] EXCEPT !.value = ~@]
  <2>1. /\ OneNode(p, preds, folded, r) /\ r.kind = preds[folded].kind
        /\ r.child = preds[folded].child /\ r.operand = preds[folded].operand
    BY <1>2, ValueFlipped
  <2> HIDE DEF r, p
  <2> QED
    BY <1>2, <2>1 DEF OneNode, SameNodes
<1>4. ClosedBelow(preds, {t})
  <2>1. /\ \A k \in DOMAIN preds[t].child : preds[t].child[k] = NoPredicate <=> k = 1
        /\ Len(preds[t].child) = 1 /\ preds[t].child \in Seq(Nat)
    <3>1. preds[t] \in Predicates
      BY <1>2
    <3> QED
      BY <1>1, <1>2, <3>1, NodeTyped DEF ActivationIn, NodeOK
  <2> QED
    BY <2>1 DEF ClosedBelow
<1>5. Loses(folded, {t})
  BY <1>2, <1>4 DEF Loses
<1> HIDE DEF p
<1> QED
  BY <1>1, <1>3, <1>5, ReturnLoses

LEMMA PredsOrdered ==
  ASSUME PredsOK, NEW n \in DOMAIN preds
  PROVE  n \in Nat \ {0} /\ Ordered(preds, n)
<1>1. /\ preds \in Seq(Predicates) /\ \A m \in DOMAIN preds : NodeOK(preds, m)
      /\ DOMAIN preds = 1 .. Len(preds)
  BY DEF PredsOK
<1>2. ASSUME NEW m \in 1 .. n, NEW k \in DOMAIN preds[m].child
      PROVE  preds[m].child[k] \in 0 .. m - 1
  <2>1. m \in DOMAIN preds
    BY <1>1
  <2>2. NodeOK(preds, m)
    BY <1>1, <2>1
  <2> QED
    BY <1>2, <2>2 DEF NodeOK, NoPredicate
<1> QED
  BY <1>1, <1>2 DEF Ordered

\* What is below a live node is live.
LEMMA BelowLive ==
  ASSUME OwnershipInv, NEW n \in LiveNodes
  PROVE  LET S == SubPredicates(preds, n)
         IN  /\ n \in S /\ S \subseteq LiveNodes /\ ClosedBelow(preds, S)
             /\ \A x \in S : \/ x = n
                            \/ \E y \in S : \E k \in DOMAIN preds[y].child : preds[y].child[k] = x
<1> DEFINE S == SubPredicates(preds, n)
<1>1. PredsOK /\ PredicatesOwned /\ preds \in Seq(Predicates)
  BY DEF OwnershipInv, PredsOK
<1>2. n \in DOMAIN preds
  BY DEF LiveNodes
<1>3. /\ n \in S /\ S \subseteq 1 .. n /\ ClosedBelow(preds, S)
      /\ \A x \in S : x = n \/ \E m \in S : \E k \in DOMAIN preds[m].child : preds[m].child[k] = x
  BY <1>1, <1>2, PredsOrdered, BelowIs
<1> HIDE DEF S
<1>4. ASSUME NEW x \in S PROVE x \in LiveNodes
  <2>1. CASE x = n
    BY <2>1
  <2>2. CASE x # n
    <3>1. PICK m \in S : \E k \in DOMAIN preds[m].child : preds[m].child[k] = x
      BY <1>3, <2>2
    <3>2. PICK k \in DOMAIN preds[m].child : preds[m].child[k] = x
      BY <3>1
    <3>3. m \in DOMAIN preds /\ m \in Nat
      BY <1>1, <1>2, <1>3
    <3>4. k \in Nat
      <4>1. preds[m].child \in Seq(Nat)
        BY <1>1, <3>3, NodeTyped
      <4> QED
        BY <4>1
    <3>5. Holding[<<"child", m, k>>] = x
      BY <3>2, <3>3, <3>4, HoldsNow DEF ChildAt
    <3>6. <<"child", m, k>> \in Places
      BY <3>3, <3>4, SomePlaces
    <3>7. x \in {NoPredicate} \cup LiveNodes
      BY <1>1, <3>5, <3>6, OneHolder
    <3>8. x # NoPredicate
      BY <1>2, <1>3 DEF NoPredicate
    <3> QED
      BY <3>7, <3>8
  <2> QED
    BY <2>1, <2>2
<1> QED
  BY <1>3, <1>4 DEF S

\* None of the last activation's nodes is below another of them.
LEMMA BelowApart ==
  ASSUME OwnershipInv, stage = "folding",
         NEW n \in LiveNodes, NEW x \in {This.node, This.lch, folded},
         x # n, x # NoPredicate
  PROVE  x \notin SubPredicates(preds, n)
<1> SUFFICES ASSUME x \in SubPredicates(preds, n) PROVE FALSE
  OBVIOUS
<1>1. PICK m \in SubPredicates(preds, n) : \E k \in DOMAIN preds[m].child : preds[m].child[k] = x
  BY BelowLive
<1>2. PICK k \in DOMAIN preds[m].child : preds[m].child[k] = x
  BY <1>1
<1>3. m \in DOMAIN preds /\ m \in Nat /\ preds[m].child \in Seq(Nat)
  <2>1. m \in DOMAIN preds /\ m \in Nat /\ preds[m] \in Predicates
    BY <1>1, BelowLive, RunningHas
  <2> QED
    BY <2>1, NodeTyped
<1>4. k \in Nat
  BY <1>3
<1>5. ChildAt(preds, m, k) = x
  BY <1>2, <1>3 DEF ChildAt
<1>6. \A i, j \in Nat : ChildAt(preds, i, j) # x
  <2>1. PredicatesOwned /\ ActivationsOK /\ activations # <<>>
    BY RunningHas DEF OwnershipInv
  <2> QED
    BY <2>1, LocalsApart
<1> QED
  BY <1>3, <1>4, <1>5, <1>6

LEMMA FoldConstantStep ==
  ASSUME OwnershipInv, FoldConstant
  PROVE  Shapes'
<1> DEFINE t == This.node
           raw == IF preds[This.lch].kind = "Raw" THEN This.lch ELSE folded
           other == IF preds[This.lch].kind = "Raw" THEN folded ELSE This.lch
           kept == Keep(raw, other, preds[t].kind)
           lost == IF kept = raw THEN SubPredicates(preds, other) ELSE {raw}
           D == {t} \cup lost
<1>1. /\ stage = "folding" /\ This.at = "second" /\ FoldReturn(kept)
      /\ preds' = DestroyPredicates(preds, D)
      /\ "Raw" \in {preds[This.lch].kind, preds[folded].kind}
  BY DEF FoldConstant, Folding
<1>2. /\ preds \in Seq(Predicates) /\ LiveNodes \subseteq DOMAIN preds
      /\ t \in LiveNodes /\ folded \in LiveNodes /\ folded # t
      /\ This.lch \in LiveNodes /\ This.lch \notin {t, folded}
      /\ \A m \in DOMAIN preds : NodeOK(preds, m) /\ m # NoPredicate
      /\ ActivationIn(preds, This)
  BY <1>1, RunningHas
<1>3. /\ {raw, other} = {This.lch, folded} /\ raw # other /\ preds[raw].kind = "Raw"
      /\ kept \in {raw, other}
  BY <1>1, <1>2 DEF Keep
<1> HIDE DEF raw, other, kept
<1>4. /\ raw \in LiveNodes /\ other \in LiveNodes /\ raw # t /\ other # t
      /\ raw \in {This.lch, folded} /\ other \in {This.lch, folded}
      /\ raw # NoPredicate /\ other # NoPredicate /\ t # NoPredicate
  BY <1>2, <1>3
<1>5. /\ lost \subseteq LiveNodes /\ ClosedBelow(preds, lost) /\ kept \notin lost
      /\ {raw, other} \subseteq {kept} \cup lost
      /\ \A x \in lost : \/ x \in {raw, other}
                        \/ \E y \in lost : \E k \in DOMAIN preds[y].child : preds[y].child[k] = x
  <2>1. CASE kept = raw
    <3> DEFINE S == SubPredicates(preds, other)
    <3>1. /\ other \in S /\ S \subseteq LiveNodes /\ ClosedBelow(preds, S)
          /\ \A x \in S : \/ x = other
                         \/ \E y \in S : \E k \in DOMAIN preds[y].child : preds[y].child[k] = x
      BY <1>4, BelowLive
    <3>2. raw \notin S
      BY <1>1, <1>3, <1>4, BelowApart
    <3>3. lost = S
      BY <2>1
    <3> HIDE DEF S, lost
    <3> QED
      BY <2>1, <3>1, <3>2, <3>3
  <2>2. CASE kept # raw
    <3>1. lost = {raw} /\ kept = other
      BY <1>3, <2>2
    <3>2. DOMAIN preds[raw].child = {}
      <4>1. preds[raw] \in Predicates /\ NodeOK(preds, raw)
        BY <1>2, <1>4
      <4>2. preds[raw].child \in Seq(Nat) /\ Len(preds[raw].child) = 0
        BY <1>3, <4>1, NodeTyped DEF NodeOK
      <4> QED
        BY <4>2
    <3> HIDE DEF lost
    <3> QED
      BY <1>3, <1>4, <3>1, <3>2 DEF ClosedBelow
  <2> QED
    BY <2>1, <2>2
<1>6. \A k \in DOMAIN preds[t].child : preds[t].child[k] = NoPredicate
  BY <1>1, <1>2 DEF ActivationIn
<1> HIDE DEF lost
<1>7. ClosedBelow(preds, D)
  BY <1>5, <1>6 DEF ClosedBelow
<1>8. /\ D \subseteq LiveNodes /\ t \in D
      /\ kept \in {This.lch, folded} /\ kept \notin D /\ kept # NoPredicate
      /\ {This.lch, folded} \subseteq {NoPredicate, kept} \cup D
  BY <1>2, <1>3, <1>4, <1>5
<1>9. \A x \in D : \/ x \in {t, This.lch, folded}
                  \/ \E y \in D : \E k \in DOMAIN preds[y].child : preds[y].child[k] = x
  BY <1>3, <1>5
<1> HIDE DEF D
<1>10. Loses(kept, D)
  BY <1>7, <1>8, <1>9 DEF Loses
<1>11. SameNodes(preds, preds)
  BY <1>2 DEF SameNodes
<1> QED
  BY <1>1, <1>10, <1>11, ReturnLoses

\* The node gets all of its children back, and is returned.
Refills(c) ==
  /\ preds' = [preds EXCEPT ![This.node].child = c]
  /\ preds[This.node].kind \in {"And", "Or", "Not"} /\ Len(c) = Len(preds[This.node].child)
  /\ \A k \in DOMAIN preds[This.node].child : preds[This.node].child[k] = NoPredicate
  /\ c \in Seq({This.lch, folded} \ {NoPredicate})
  /\ \A j, k \in DOMAIN c : c[j] = c[k] => j = k
  /\ \A x \in {This.lch, folded} \ {NoPredicate} :
       preds[x].kind # "Raw" /\ \E k \in DOMAIN c : c[k] = x

LEMMA ReturnRefills ==
  ASSUME OwnershipInv, stage = "folding", This.at # "enter", FoldReturn(This.node),
         NEW c, Refills(c)
  PROVE  Shapes'
<1> DEFINE t == This.node
           Kept == {This.lch, folded} \ {NoPredicate}
<1>1. PredsOK /\ ActivationsOK /\ StageOK /\ PredicatesOwned
  BY DEF OwnershipInv
<1>2. /\ preds \in Seq(Predicates) /\ LiveNodes \subseteq DOMAIN preds
      /\ t \in LiveNodes /\ t # NoPredicate /\ t \in DOMAIN preds /\ t \in Nat
      /\ \A m \in DOMAIN preds : NodeOK(preds, m) /\ m \in Nat /\ m # NoPredicate
      /\ \A m \in DOMAIN preds :
           \/ m = t \/ IsWhole(preds, m)
           \/ \E i \in 1 .. Len(activations) - 1 : activations[i].node = m
  BY RunningHas
<1>3. /\ preds[t].kind \in {"And", "Or", "Not"} /\ Len(c) = Len(preds[t].child)
      /\ \A k \in DOMAIN preds[t].child : preds[t].child[k] = NoPredicate
      /\ c \in Seq(Kept)
      /\ \A j, k \in DOMAIN c : c[j] = c[k] => j = k
      /\ \A x \in Kept : preds[x].kind # "Raw" /\ \E k \in DOMAIN c : c[k] = x
  BY DEF Refills
<1>4. \A x \in Kept : x \in LiveNodes /\ x # t /\ IsFolded(preds, x, t)
  <2>1. ActivationIn(preds, This) /\ This \in ActivationTypes
    BY <1>1, RunningHas, LastActivation
  <2>2. This.lch # NoPredicate => This.at = "second"
    BY <2>1 DEF ActivationIn, ActivationTypes
  <2> QED
    BY <2>2, RunningHas
<1>5. \A x \in Kept : x \in 1 .. t - 1
  <2> HIDE DEF Kept, t
  <2>1. ASSUME NEW x \in Kept PROVE x \in 1 .. t - 1
    <3>1. x \in Nat /\ x # 0 /\ x < t
      BY <1>2, <1>3, <1>4 DEF IsFolded, NoPredicate
    <3> QED
      BY <1>2, <3>1
  <2> QED
    BY <2>1
<1>6. c \in Seq(Nat) /\ \A k \in DOMAIN c : c[k] \in Kept
  <2> HIDE DEF Kept, t
  <2>1. \A x \in Kept : x \in Nat
    BY <1>2, <1>4
  <2>2. \A k \in DOMAIN c : c[k] \in Kept
    BY <1>3
  <2>3. Len(c) \in Nat /\ DOMAIN c = 1 .. Len(c) /\ c = [k \in 1 .. Len(c) |-> c[k]]
    BY <1>3
  <2>4. c \in Seq(Nat)
    BY <2>1, <2>2, <2>3
  <2> QED
    BY <2>2, <2>4
<1>7. OneNode(preds', preds, t, [preds[t] EXCEPT !.child = c])
  <2>1. preds[t] \in Predicates
    BY <1>2
  <2>2. preds' = [preds EXCEPT ![t] = [preds[t] EXCEPT !.child = c]]
    BY DEF Refills
  <2>3. [preds[t] EXCEPT !.child = c] \in Predicates
    BY <1>6, <2>1, NodeWritten
  <2> QED
    BY <1>2, <2>2, <2>3, OneWritten
<1>8. /\ preds' \in Seq(Predicates) /\ DOMAIN preds' = DOMAIN preds
      /\ \A m \in DOMAIN preds : m # t => preds'[m] = preds[m]
      /\ preds'[t].kind = preds[t].kind /\ preds'[t].child = c
      /\ preds'[t].operand = preds[t].operand
  <2>1. preds[t] \in Predicates
    BY <1>2
  <2> DEFINE r == [preds[t] EXCEPT !.child = c]
  <2>2. r.kind = preds[t].kind /\ r.operand = preds[t].operand /\ r.child = c
    BY <1>6, <2>1, NodeWritten
  <2> HIDE DEF r
  <2>3. OneNode(preds', preds, t, r)
    BY <1>7 DEF r
  <2> QED
    BY <2>2, <2>3 DEF OneNode
<1> HIDE DEF Kept, t
<1>9. NodeOK(preds', t) /\ IsWhole(preds', t)
  <2>1. \A k \in DOMAIN c : c[k] \in 1 .. t - 1 /\ c[k] # NoPredicate /\ preds'[c[k]].kind # "Raw"
    <3>1. ASSUME NEW k \in DOMAIN c
          PROVE  c[k] \in 1 .. t - 1 /\ c[k] # NoPredicate /\ preds'[c[k]].kind # "Raw"
      <4>1. c[k] \in Kept /\ c[k] \in 1 .. t - 1 /\ c[k] # t /\ c[k] \in DOMAIN preds
        BY <1>2, <1>4, <1>5, <1>6
      <4> QED
        BY <1>2, <1>3, <1>8, <4>1
    <3> QED
      BY <3>1
  <2>2. Len(c) = Len(preds[t].child) /\ NodeOK(preds, t) /\ preds'[t].child = c
    BY <1>2, <1>3, <1>8
  <2> QED
    BY <1>3, <1>8, <2>1, <2>2 DEF NodeOK, IsWhole
<1>10. \A m \in DOMAIN preds' : NodeOK(preds', m)
  <2>1. ASSUME NEW m \in DOMAIN preds, m # t PROVE NodeOK(preds', m)
    <3>1. \A x \in DOMAIN preds : preds'[x].kind = "Raw" => preds[x].kind = "Raw"
      BY <1>8
    <3> QED
      BY <1>2, <1>8, <2>1, <3>1, ShapeKept
  <2> QED
    BY <1>8, <1>9, <2>1
<1>11. \A m \in DOMAIN preds' :
         IsWhole(preds', m) \/ \E i \in 1 .. Len(activations) - 1 : activations[i].node = m
  BY <1>2, <1>8, <1>9 DEF IsWhole
<1>12. LowerKept(preds, preds', activations)
  BY <1>8, LowerApart DEF LowerKept, t
<1>13. PredsOK' /\ ActivationsOK' /\ StageOK'
  BY <1>1, <1>2, <1>8, <1>10, <1>11, <1>12, ReturnShape DEF t
<1>14. PredicatesOwned'
  <2> DEFINE N == Len(activations)
             pn == <<"node", N, 0>>
             pl == <<"lch", N, 0>>
             pr == <<"returned", 0, 0>>
             pp == <<"pending", 0, 0>>
             pc(k) == <<"child", t, k>>
             C == {pc(k) : k \in DOMAIN c}
             M == Returning \cup C
             W == Holding
             V == Holding'
  <2>1. Returning = {pn, pl, pr, pp} /\ pr # pp
    BY DEF Returning
  <2>2. \A k : pc(k) \notin {pn, pl, pr, pp}
    OBVIOUS
  <2>3. \A j, k : pc(j) = pc(k) => j = k
    OBVIOUS
  <2>4. /\ LocalsAlone(Returning) /\ StatementAlone(Returning) /\ ResultsAlone(Returning)
        /\ Returning \subseteq Places
        /\ W[pn] = t /\ W[pl] = This.lch /\ W[pr] = folded /\ W[pp] = NoPredicate
        /\ V[pn] = NoPredicate /\ V[pl] = NoPredicate
        /\ \/ V[pr] = t /\ V[pp] = NoPredicate
           \/ V[pr] = NoPredicate /\ V[pp] = t
    BY <1>1, ReturnHolds DEF t
  <2>5. \A k \in DOMAIN c :
          k \in Nat /\ pc(k) \in Places /\ W[pc(k)] = NoPredicate /\ V[pc(k)] = c[k]
    <3>1. ASSUME NEW k \in DOMAIN c
          PROVE  k \in Nat /\ pc(k) \in Places /\ W[pc(k)] = NoPredicate /\ V[pc(k)] = c[k]
      <4>1. k \in Nat
        BY <1>6
      <4>2. pc(k) \in Places
        <5>1. "child" \in Kinds
          BY SomePlaces
        <5> QED
          BY <1>2, <4>1, <5>1, SomePlaces
      <4>3. W[pc(k)] = ChildAt(preds, t, k) /\ V[pc(k)] = ChildAt(preds', t, k)
        BY <1>2, <4>1, HoldsNow, HoldsNext
      <4>4. ChildAt(preds, t, k) = NoPredicate
        BY <1>3 DEF ChildAt
      <4>5. ChildAt(preds', t, k) = c[k]
        BY <1>2, <1>8 DEF ChildAt
      <4> QED
        BY <4>1, <4>2, <4>3, <4>4, <4>5
    <3> QED
      BY <3>1
  <2>6. \A p \in Places : p \in M \/ V[p] = W[p] \/ (V[p] = NoPredicate /\ W[p] \in {})
    <3>1. ChildrenAlone(M, {})
      <4>1. ASSUME NEW i \in Nat, NEW k \in Nat, <<"child", i, k>> \notin M
            PROVE  ChildAt(preds', i, k) = ChildAt(preds, i, k)
        <5>1. CASE i # t
          BY <1>8, <5>1 DEF ChildAt
        <5>2. CASE i = t
          <6>1. k \notin DOMAIN c
            BY <4>1, <5>2
          <6>2. k \notin DOMAIN preds[t].child
            <7>1. preds[t] \in Predicates
              BY <1>2
            <7>2. preds[t].child \in Seq(Nat)
              BY <7>1, NodeTyped
            <7> QED
              BY <1>3, <1>6, <6>1, <7>2
          <6> QED
            BY <1>8, <5>2, <6>1, <6>2 DEF ChildAt
        <5> QED
          BY <5>1, <5>2
      <4> QED
        BY <4>1 DEF ChildrenAlone
    <3>2. Returning \subseteq M
      OBVIOUS
    <3> HIDE DEF M
    <3>3. LocalsAlone(M)
      BY <2>4, <3>2 DEF LocalsAlone
    <3>4. StatementAlone(M)
      BY <2>4, <3>2 DEF StatementAlone
    <3>5. ResultsAlone(M)
      BY <2>4, <3>2 DEF ResultsAlone
    <3> QED
      BY <3>1, <3>3, <3>4, <3>5, RestAlone
  <2>7. M \subseteq Places
    BY <2>4, <2>5
  <2>8. \A q \in M : q \in {pn, pl, pr, pp} \/ \E k \in DOMAIN c : q = pc(k)
    BY <2>1
  <2>9. {pn, pl, pr, pp} \subseteq M /\ \A k \in DOMAIN c : pc(k) \in M
    BY <2>1
  <2> HIDE DEF pn, pl, pr, pp, pc, C, M, W, V, N
  <2>10. ASSUME NEW q \in M, V[q] # NoPredicate
         PROVE  \E p \in M : W[p] = V[q]
    <3>1. CASE q \in {pn, pl, pr, pp}
      BY <2>4, <2>9, <2>10, <3>1
    <3>2. CASE \E k \in DOMAIN c : q = pc(k)
      <4>1. PICK k \in DOMAIN c : q = pc(k)
        BY <3>2
      <4>2. V[q] \in {This.lch, folded}
        BY <1>6, <2>5, <4>1 DEF Kept
      <4> QED
        BY <2>4, <2>9, <4>2
    <3> QED
      BY <2>8, <3>1, <3>2
  <2>11. ASSUME NEW p \in M, W[p] # NoPredicate
         PROVE  \E q \in M : V[q] = W[p]
    <3>1. CASE p \in {pn, pl, pr, pp}
      <4>1. W[p] = t \/ W[p] \in Kept
        BY <2>4, <2>11, <3>1 DEF Kept
      <4>2. CASE W[p] = t
        BY <2>4, <2>9, <4>2
      <4>3. CASE W[p] \in Kept
        <5>1. PICK k \in DOMAIN c : c[k] = W[p]
          BY <1>3, <4>3
        <5> QED
          BY <2>5, <2>9, <5>1
      <4> QED
        BY <4>1, <4>2, <4>3
    <3>2. CASE \E k \in DOMAIN c : p = pc(k)
      BY <2>5, <2>11, <3>2
    <3> QED
      BY <2>8, <3>1, <3>2
  <2>12. ASSUME NEW q \in M, NEW r \in M, V[q] # NoPredicate, V[q] = V[r]
         PROVE  q = r
    <3>1. \A s \in M : V[s] # NoPredicate => \/ s \in {pr, pp} /\ V[s] = t
                                          \/ \E k \in DOMAIN c : s = pc(k) /\ V[s] = c[k]
      BY <2>4, <2>5, <2>8
    <3>2. \A k \in DOMAIN c : c[k] # t
      BY <1>4, <1>6
    <3>3. CASE V[q] = t
      <4>1. q \in {pr, pp} /\ r \in {pr, pp}
        BY <2>12, <3>1, <3>2, <3>3
      <4> QED
        BY <1>2, <2>4, <2>12, <3>3, <4>1
    <3>4. CASE V[q] # t
      <4>1. PICK j \in DOMAIN c : q = pc(j) /\ V[q] = c[j]
        BY <2>12, <3>1, <3>4
      <4>2. PICK k \in DOMAIN c : r = pc(k) /\ V[r] = c[k]
        BY <2>12, <3>1, <3>4
      <4>3. j = k
        BY <1>3, <2>12, <4>1, <4>2
      <4> QED
        BY <4>1, <4>2, <4>3
    <3> QED
      BY <3>3, <3>4
  <2>13. Exchanged(W, V, M, {}, {})
    BY <2>6, <2>10, <2>11, <2>12 DEF Exchanged
  <2>14. V \in [Places -> {V[p] : p \in Places}]
    BY <1>1, OneHolder DEF V
  <2>15. Owned(W, LiveNodes)
    BY <1>1 DEF PredicatesOwned, W
  <2>16. Owned(V, (LiveNodes \ {}) \cup {})
    <3>1. {} \in SUBSET LiveNodes /\ {} \cap LiveNodes = {} /\ NoPredicate \notin {}
      OBVIOUS
    <3> QED
      BY <2>7, <2>13, <2>14, <2>15, <3>1, ExchangeOwned
  <2>17. LiveNodes' = LiveNodes
    <3>1. \A m \in DOMAIN preds : preds'[m].kind = preds[m].kind
      BY <1>8
    <3> QED
      BY <1>8, <3>1 DEF LiveNodes
  <2> QED
    BY <2>16, <2>17 DEF PredicatesOwned, V
<1> QED
  BY <1>13, <1>14 DEF Shapes

LEMMA FoldBinaryRefills ==
  ASSUME OwnershipInv, FoldBinary
  PROVE  /\ stage = "folding" /\ This.at # "enter"
         /\ FoldReturn(This.node) /\ Refills(<<This.lch, folded>>)
<1> DEFINE t == This.node
           c == <<This.lch, folded>>
<1>1. /\ stage = "folding" /\ This.at = "second" /\ FoldReturn(t)
      /\ preds' = [preds EXCEPT ![t].child = c] /\ preds[t].kind \in {"And", "Or"}
      /\ preds[This.lch].kind # "Raw" /\ preds[folded].kind # "Raw"
  BY DEF FoldBinary, Folding
<1>2. /\ folded # NoPredicate /\ This.lch # NoPredicate /\ This.lch # folded
      /\ NodeOK(preds, t) /\ ActivationIn(preds, This)
  BY <1>1, RunningHas
<1>3. \A k \in DOMAIN preds[t].child : preds[t].child[k] = NoPredicate
  BY <1>1, <1>2 DEF ActivationIn
<1>4. Len(c) = 2 /\ DOMAIN c = 1 .. 2 /\ c[1] = This.lch /\ c[2] = folded
  OBVIOUS
<1>5. Len(preds[t].child) = 2
  BY <1>1, <1>2 DEF NodeOK
<1>6. c \in Seq({This.lch, folded} \ {NoPredicate})
  BY <1>2
<1> HIDE DEF c
<1>7. /\ \A j, k \in DOMAIN c : c[j] = c[k] => j = k
      /\ 1 \in DOMAIN c /\ 2 \in DOMAIN c
  BY <1>2, <1>4
<1>8. Refills(c)
  BY <1>1, <1>3, <1>4, <1>5, <1>6, <1>7 DEF Refills
<1> QED
  BY <1>1, <1>8 DEF c

LEMMA FoldBinaryStep ==
  ASSUME OwnershipInv, FoldBinary
  PROVE  Shapes'
  BY FoldBinaryRefills, ReturnRefills

LEMMA FoldNotRefills ==
  ASSUME OwnershipInv, FoldNot
  PROVE  stage = "folding" /\ This.at # "enter" /\ FoldReturn(This.node) /\ Refills(<<folded>>)
<1> DEFINE t == This.node
           c == <<folded>>
<1>1. /\ stage = "folding" /\ This.at = "first" /\ FoldReturn(t)
      /\ preds' = [preds EXCEPT ![t].child = c] /\ preds[t].kind = "Not"
      /\ preds[folded].kind # "Raw"
  BY DEF FoldNot, Folding
<1>2. /\ folded # NoPredicate /\ This.lch = NoPredicate
      /\ NodeOK(preds, t) /\ ActivationIn(preds, This) /\ preds[t] \in Predicates
  BY <1>1, RunningHas
<1>3. Len(preds[t].child) = 1 /\ preds[t].child \in Seq(Nat)
  BY <1>1, <1>2, NodeTyped DEF NodeOK
<1>4. \A k \in DOMAIN preds[t].child : preds[t].child[k] = NoPredicate
  BY <1>1, <1>2, <1>3 DEF ActivationIn
<1>5. Len(c) = 1 /\ DOMAIN c = 1 .. 1 /\ c[1] = folded
  OBVIOUS
<1>6. c \in Seq({This.lch, folded} \ {NoPredicate})
  BY <1>2
<1> HIDE DEF c
<1>7. /\ \A j, k \in DOMAIN c : c[j] = c[k] => j = k
      /\ 1 \in DOMAIN c
  BY <1>5
<1>8. Refills(c)
  BY <1>1, <1>2, <1>3, <1>4, <1>5, <1>6, <1>7 DEF Refills
<1> QED
  BY <1>1, <1>8 DEF c

LEMMA FoldNotStep ==
  ASSUME OwnershipInv, FoldNot
  PROVE  Shapes'
  BY FoldNotRefills, ReturnRefills

\* The last activation becomes f, keeps what was returned, and calls itself on child k.
Calls(f, k) ==
  /\ f \in ActivationTypes /\ f.at # "enter" /\ f.node = This.node
  /\ This.lch = NoPredicate /\ f.lch = folded
  /\ k \in DOMAIN preds[This.node].child /\ preds[This.node].child[k] # NoPredicate
  /\ preds[This.node].kind \in {"And", "Or", "Not"}
  /\ ActivationIn(preds', f)

LEMMA ChildMoved ==
  ASSUME OwnershipInv, stage = "folding", NEW f, NEW k, Calls(f, k), FoldChild(f, k)
  PROVE  LET t == This.node
             c == preds[t].child[k]
         IN  /\ preds' \in Seq(Predicates) /\ DOMAIN preds' = DOMAIN preds
             /\ \A m \in DOMAIN preds : m # t => preds'[m] = preds[m]
             /\ preds'[t].kind = preds[t].kind /\ preds'[t].operand = preds[t].operand
             /\ Len(preds'[t].child) = Len(preds[t].child)
             /\ DOMAIN preds'[t].child = DOMAIN preds[t].child
             /\ \A j \in DOMAIN preds[t].child :
                  preds'[t].child[j] = IF j = k THEN NoPredicate ELSE preds[t].child[j]
             /\ k \in Nat \ {0} /\ c \in 1 .. t - 1 /\ c \in DOMAIN preds
<1> DEFINE t == This.node
           c == preds[t].child[k]
           r == [preds[t] EXCEPT !.child = [@ EXCEPT ![k] = NoPredicate]]
<1>1. /\ t \in DOMAIN preds /\ preds[t] \in Predicates /\ NodeOK(preds, t)
      /\ k \in DOMAIN preds[t].child /\ c # NoPredicate /\ preds \in Seq(Predicates)
      /\ DOMAIN preds = 1 .. Len(preds) /\ Len(preds) \in Nat
  BY RunningHas DEF Calls
<1>2. preds[t].child \in Seq(Nat)
  BY <1>1, NodeTyped
<1>3. preds' = [preds EXCEPT ![t].child[k] = NoPredicate]
  BY DEF FoldChild
<1>4. /\ OneNode(preds', preds, t, r) /\ r \in Predicates
      /\ [preds[t].child EXCEPT ![k] = NoPredicate] \in Seq(Nat)
  BY <1>1, <1>3, ChildWritten DEF NoPredicate
<1>5. /\ r.kind = preds[t].kind /\ r.operand = preds[t].operand
      /\ r.child = [preds[t].child EXCEPT ![k] = NoPredicate]
  BY <1>1, <1>4, NodeWritten
<1> HIDE DEF r
<1>6. /\ preds' \in Seq(Predicates) /\ DOMAIN preds' = DOMAIN preds
      /\ \A m \in DOMAIN preds : m # t => preds'[m] = preds[m]
      /\ preds'[t] = r
  BY <1>4 DEF OneNode
<1>7. /\ Len(r.child) = Len(preds[t].child) /\ DOMAIN r.child = DOMAIN preds[t].child
      /\ \A j \in DOMAIN preds[t].child :
           r.child[j] = IF j = k THEN NoPredicate ELSE preds[t].child[j]
  BY <1>2, <1>5
<1>8. k \in Nat \ {0} /\ c \in 1 .. t - 1
  BY <1>1, <1>2 DEF NodeOK
<1>9. c \in DOMAIN preds
  BY <1>1, <1>8
<1> QED
  BY <1>5, <1>6, <1>7, <1>8, <1>9

LEMMA CallShape ==
  ASSUME OwnershipInv, stage = "folding", NEW f, NEW k, Calls(f, k), FoldChild(f, k)
  PROVE  PredsOK' /\ ActivationsOK' /\ StageOK'
<1> DEFINE t == This.node
           c == preds[t].child[k]
           a == activations
           b == activations'
           N == Len(activations)
<1>1. PredsOK /\ ActivationsOK /\ StageOK /\ PredicatesOwned
  BY DEF OwnershipInv
<1>2. /\ preds \in Seq(Predicates) /\ t \in DOMAIN preds /\ NodeOK(preds, t)
      /\ \A m \in DOMAIN preds : NodeOK(preds, m) /\ m \in Nat /\ m # NoPredicate
      /\ \A m \in DOMAIN preds :
           m = t \/ IsWhole(preds, m) \/ \E i \in 1 .. N - 1 : a[i].node = m
      /\ a # <<>>
  BY RunningHas
<1>3. /\ preds' \in Seq(Predicates) /\ DOMAIN preds' = DOMAIN preds
      /\ \A m \in DOMAIN preds : m # t => preds'[m] = preds[m]
      /\ preds'[t].kind = preds[t].kind /\ preds'[t].operand = preds[t].operand
      /\ Len(preds'[t].child) = Len(preds[t].child)
      /\ DOMAIN preds'[t].child = DOMAIN preds[t].child
      /\ \A j \in DOMAIN preds[t].child :
           preds'[t].child[j] = IF j = k THEN NoPredicate ELSE preds[t].child[j]
      /\ k \in Nat \ {0} /\ c \in 1 .. t - 1 /\ c \in DOMAIN preds
  BY ChildMoved
<1>4. /\ f \in ActivationTypes /\ f.at # "enter" /\ f.node = t /\ ActivationIn(preds', f)
      /\ k \in DOMAIN preds[t].child /\ preds[t].kind \in {"And", "Or", "Not"}
  BY DEF Calls
<1>5. /\ a \in Seq(ActivationTypes) /\ N \in Nat \ {0} /\ DOMAIN a = 1 .. N /\ a[N] = This
      /\ \A i \in DOMAIN a : ActivationIn(preds, a[i])
      /\ \A i \in DOMAIN a : a[i].at = "enter" => i = N
      /\ \A i \in DOMAIN a : i + 1 \in DOMAIN a => a[i + 1].node < a[i].node
  BY <1>1, <1>2, LastActivation DEF ActivationsOK, ActivationsIn
<1>6. /\ b = Append([a EXCEPT ![Len(a)] = f], Activation(c)) /\ folded' = NoPredicate
      /\ stage' = stage /\ pending' = pending /\ condition' = condition /\ conditions' = conditions
  BY DEF FoldChild, Untouched
<1>7. /\ b \in Seq(ActivationTypes) /\ Len(b) = N + 1 /\ DOMAIN b = 1 .. N + 1
      /\ b[N] = f /\ b[N + 1] = Activation(c)
      /\ \A i \in 1 .. N - 1 : b[i] = a[i]
  <2>1. c \in Nat
    BY <1>2, <1>3
  <2> HIDE DEF c
  <2>2. Pushed(a, b, f, c)
    BY <1>2, <1>4, <1>5, <1>6, <2>1, PushedAre
  <2> QED
    BY <2>2 DEF Pushed
<1>8. /\ Activation(c).node = c /\ Activation(c).at = "enter" /\ Activation(c).lch = NoPredicate
  BY DEF Activation
<1> HIDE DEF N, a, b
<1>9. \A i \in 1 .. N + 1 : i = N + 1 \/ i = N \/ i \in 1 .. N - 1
  BY <1>5
<1>10. IsWhole(preds, c) /\ c # t
  <2>1. ChildAt(preds, t, k) = c /\ t \in Nat /\ k \in Nat
    BY <1>2, <1>3, <1>4 DEF ChildAt
  <2>2. \A i \in 1 .. N - 1 : a[i].node # c
    <3>1. c # NoPredicate
      BY <1>2, <1>3
    <3> QED
      BY <2>1, <3>1, LowerApart DEF a, N
  <2>3. c # t
    BY <1>2, <1>3
  <2> QED
    BY <1>2, <1>3, <2>2, <2>3
<1> HIDE DEF c, t
<1>11. PredsOK'
  <2>1. NodeOK(preds', t)
    <3>1. NodeOK(preds, t)
      BY <1>2
    <3>2. ASSUME NEW j \in DOMAIN preds'[t].child, preds'[t].child[j] # NoPredicate
          PROVE  preds'[t].child[j] \in 1 .. t - 1 /\ preds'[preds'[t].child[j]].kind # "Raw"
      <4>1. j \in DOMAIN preds[t].child /\ preds'[t].child[j] = preds[t].child[j]
        BY <1>3, <3>2
      <4>2. preds[t].child[j] \in 1 .. t - 1 /\ preds[preds[t].child[j]].kind # "Raw"
        BY <3>1, <3>2, <4>1 DEF NodeOK
      <4>3. preds[t].child[j] \in DOMAIN preds /\ preds[t].child[j] # t
        BY <1>2, <4>2
      <4> QED
        BY <1>3, <4>1, <4>2, <4>3
    <3> QED
      BY <1>3, <3>1, <3>2 DEF NodeOK
  <2>2. ASSUME NEW m \in DOMAIN preds, m # t PROVE NodeOK(preds', m)
    <3>1. \A x \in DOMAIN preds : preds'[x].kind = "Raw" => preds[x].kind = "Raw"
      BY <1>3
    <3> QED
      BY <1>2, <1>3, <2>2, <3>1, ShapeKept
  <2>3. ASSUME NEW m \in DOMAIN preds'
        PROVE  IsWhole(preds', m) \/ \E i \in DOMAIN b : b[i].node = m
    <3>1. CASE m = t
      <4>1. N \in DOMAIN b
        BY <1>5, <1>7
      <4> QED
        BY <1>4, <1>7, <3>1, <4>1
    <3>2. CASE m # t /\ IsWhole(preds, m)
      BY <1>3, <3>2 DEF IsWhole
    <3>3. CASE \E i \in 1 .. N - 1 : a[i].node = m
      <4>1. PICK i \in 1 .. N - 1 : a[i].node = m
        BY <3>3
      <4>2. i \in DOMAIN b
        BY <1>5, <1>7
      <4> QED
        BY <1>7, <4>1, <4>2
    <3> QED
      BY <1>2, <1>3, <3>1, <3>2, <3>3
  <2> QED
    BY <1>3, <2>1, <2>2, <2>3 DEF PredsOK, b
<1>12. ActivationsIn(preds', b, folded')
  <2>1. ASSUME NEW i \in DOMAIN b PROVE ActivationIn(preds', b[i])
    <3>1. CASE i = N + 1
      <4>1. IsWhole(preds', c) /\ c \in DOMAIN preds'
        BY <1>3, <1>10 DEF IsWhole, c, t
      <4> QED
        BY <1>7, <1>8, <3>1, <4>1 DEF ActivationIn
    <3>2. CASE i = N
      BY <1>4, <1>7, <3>2
    <3>3. CASE i \in 1 .. N - 1
      <4>1. i \in DOMAIN a
        BY <1>5, <3>3
      <4>2. ActivationIn(preds, a[i]) /\ NoPredicate \notin DOMAIN preds
        BY <1>2, <1>5, <4>1
      <4>3. \A x \in {a[i].node, a[i].lch} :
              x # NoPredicate => x \in DOMAIN preds' /\ preds'[x] = preds[x]
        BY <1>3, <3>3, LowerApart DEF a, N, t
      <4>4. ActivationIn(preds', a[i])
        BY <4>2, <4>3, ActivationKept
      <4> QED
        BY <1>7, <3>3, <4>4
    <3> QED
      BY <1>7, <1>9, <3>1, <3>2, <3>3
  <2>2. ASSUME NEW i \in DOMAIN b
        PROVE  b[i].at = "enter" <=> (i = Len(b) /\ folded' = NoPredicate)
    <3>1. CASE i = N + 1
      BY <1>6, <1>7, <1>8, <3>1
    <3>2. CASE i = N
      BY <1>4, <1>5, <1>7, <3>2
    <3>3. CASE i \in 1 .. N - 1
      <4>1. i \in DOMAIN a /\ i # N /\ i # N + 1 /\ b[i] = a[i]
        BY <1>5, <1>7, <3>3
      <4> QED
        BY <1>5, <1>7, <4>1
    <3> QED
      BY <1>7, <1>9, <3>1, <3>2, <3>3
  <2>3. ASSUME NEW i \in DOMAIN b, i + 1 \in DOMAIN b
        PROVE  b[i + 1].node < b[i].node
    <3>1. CASE i = N
      BY <1>2, <1>3, <1>4, <1>7, <1>8, <3>1 DEF c
    <3>2. CASE i \in 1 .. N - 1
      <4>1. i \in DOMAIN a /\ i + 1 \in DOMAIN a /\ b[i] = a[i]
        BY <1>5, <1>7, <3>2
      <4>2. b[i + 1].node = a[i + 1].node
        <5>1. CASE i + 1 = N
          BY <1>4, <1>5, <1>7, <5>1 DEF t
        <5>2. CASE i + 1 # N
          <6>1. i + 1 \in 1 .. N - 1
            BY <1>5, <4>1, <5>2
          <6> QED
            BY <1>7, <6>1
        <5> QED
          BY <5>1, <5>2
      <4> QED
        BY <1>5, <4>1, <4>2
    <3> QED
      BY <1>5, <1>7, <1>9, <2>3, <3>1, <3>2
  <2> QED
    BY <1>6, <1>7, <2>1, <2>2, <2>3 DEF ActivationsIn
<1>13. StageOK'
  <2>1. b # <<>>
    BY <1>5, <1>7
  <2> QED
    BY <1>1, <1>3, <1>6, <2>1 DEF StageOK, b
<1> QED
  BY <1>11, <1>12, <1>13 DEF ActivationsOK, b

LEMMA CallOwned ==
  ASSUME OwnershipInv, stage = "folding", NEW f, NEW k, Calls(f, k), FoldChild(f, k)
  PROVE  PredicatesOwned'
<1> DEFINE t == This.node
           c == preds[t].child[k]
           N == Len(activations)
           pl == <<"lch", N, 0>>
           pn == <<"node", N + 1, 0>>
           pr == <<"returned", 0, 0>>
           pc == <<"child", t, k>>
           M == {pl, pn, pr, pc}
           W == Holding
           V == Holding'
<1>1. PredsOK /\ ActivationsOK /\ StageOK /\ PredicatesOwned
  BY DEF OwnershipInv
<1>2. /\ t \in DOMAIN preds /\ t \in Nat /\ activations # <<>>
      /\ folded # NoPredicate => \A i, j \in Nat : ChildAt(preds, i, j) # folded
  BY <1>1, RunningHas, LocalsApart
<1>3. /\ preds' \in Seq(Predicates) /\ DOMAIN preds' = DOMAIN preds
      /\ \A m \in DOMAIN preds : m # t => preds'[m] = preds[m]
      /\ preds'[t].kind = preds[t].kind
      /\ DOMAIN preds'[t].child = DOMAIN preds[t].child
      /\ \A j \in DOMAIN preds[t].child :
           preds'[t].child[j] = IF j = k THEN NoPredicate ELSE preds[t].child[j]
      /\ k \in Nat /\ c \in DOMAIN preds /\ c # NoPredicate
  BY ChildMoved, RunningHas
<1>4. /\ f \in ActivationTypes /\ f.node = t /\ This.lch = NoPredicate /\ f.lch = folded
      /\ k \in DOMAIN preds[t].child
  BY DEF Calls
<1>5. /\ activations \in Seq(ActivationTypes) /\ N \in Nat \ {0}
      /\ NodeAt(activations, N) = t /\ LchAt(activations, N) = NoPredicate
  BY <1>1, <1>2, <1>4, LastActivation DEF ActivationsOK, ActivationsIn
<1>6. PushedLocals(activations, activations', f, c)
  <2>1. activations' = Append([activations EXCEPT ![Len(activations)] = f], Activation(c))
    BY DEF FoldChild
  <2>2. c \in Nat
    BY <1>1, <1>3, RunningHas
  <2> HIDE DEF c
  <2> QED
    BY <1>2, <1>4, <1>5, <2>1, <2>2, PushedHold
<1>7. /\ folded' = NoPredicate
      /\ pending' = pending /\ condition' = condition /\ conditions' = conditions
  BY DEF FoldChild, Untouched
<1> HIDE DEF c, N, t
<1>8. /\ \A i \in Nat : i \notin {N, N + 1} =>
           /\ NodeAt(activations', i) = NodeAt(activations, i)
           /\ LchAt(activations', i) = LchAt(activations, i)
      /\ NodeAt(activations', N) = t /\ LchAt(activations', N) = folded
      /\ NodeAt(activations', N + 1) = c /\ LchAt(activations', N + 1) = NoPredicate
      /\ NodeAt(activations, N + 1) = NoPredicate /\ LchAt(activations, N + 1) = NoPredicate
  BY <1>4, <1>6 DEF PushedLocals, N
<1>9. M \subseteq Places
  <2>1. /\ N \in Nat /\ N + 1 \in Nat /\ 0 \in Nat
        /\ {"lch", "node", "returned", "child"} \subseteq Kinds
    BY <1>5, SomePlaces
  <2> QED
    BY <1>2, <1>3, <2>1, SomePlaces
<1>10. ChildAt(preds, t, k) = c /\ ChildAt(preds', t, k) = NoPredicate
  BY <1>2, <1>3, <1>4 DEF ChildAt, c
<1>11. /\ W[pl] = NoPredicate /\ W[pn] = NoPredicate /\ W[pr] = folded /\ W[pc] = c
       /\ V[pl] = folded /\ V[pn] = c /\ V[pr] = NoPredicate /\ V[pc] = NoPredicate
  <2>0. N \in Nat /\ N + 1 \in Nat /\ t \in Nat /\ k \in Nat
    BY <1>2, <1>3, <1>5
  <2>1. /\ W[pl] = LchAt(activations, N) /\ W[pn] = NodeAt(activations, N + 1)
        /\ W[pr] = folded /\ W[pc] = ChildAt(preds, t, k)
    BY <2>0, HoldsNow
  <2>2. /\ V[pl] = LchAt(activations', N) /\ V[pn] = NodeAt(activations', N + 1)
        /\ V[pr] = folded' /\ V[pc] = ChildAt(preds', t, k)
    BY <2>0, HoldsNext
  <2> QED
    BY <1>5, <1>7, <1>8, <1>10, <2>1, <2>2
<1>12. \A p \in Places : p \in M \/ V[p] = W[p] \/ (V[p] = NoPredicate /\ W[p] \in {})
  <2>1. ChildrenAlone(M, {})
    <3>1. ASSUME NEW i \in Nat, NEW j \in Nat, <<"child", i, j>> \notin M
          PROVE  ChildAt(preds', i, j) = ChildAt(preds, i, j)
      <4>1. CASE i # t
        BY <1>3, <4>1 DEF ChildAt
      <4>2. CASE i = t /\ j # k
        BY <1>2, <1>3, <4>2 DEF ChildAt
      <4> QED
        BY <3>1, <4>1, <4>2
    <3> QED
      BY <3>1 DEF ChildrenAlone
  <2>2. LocalsAlone(M)
    <3>1. ASSUME NEW i \in Nat
          PROVE  /\ <<"node", i, 0>> \in M \/ NodeAt(activations', i) = NodeAt(activations, i)
                 /\ <<"lch", i, 0>> \in M \/ LchAt(activations', i) = LchAt(activations, i)
      <4>1. CASE i = N
        BY <1>5, <1>8, <4>1
      <4>2. CASE i = N + 1
        BY <1>8, <4>2
      <4>3. CASE i \notin {N, N + 1}
        BY <1>8, <4>3
      <4> QED
        BY <4>1, <4>2, <4>3
    <3> QED
      BY <3>1 DEF LocalsAlone
  <2>3. StatementAlone(M)
    BY <1>7 DEF StatementAlone
  <2>4. ResultsAlone(M)
    BY <1>7 DEF ResultsAlone
  <2> HIDE DEF M
  <2> QED
    BY <2>1, <2>2, <2>3, <2>4, RestAlone
<1>13. folded # NoPredicate => c # folded
  BY <1>2, <1>3, <1>10
<1> HIDE DEF pl, pn, pr, pc, W, V
<1>14. Exchanged(W, V, M, {}, {})
  <2>1. \A q \in M : V[q] # NoPredicate => \E p \in M : W[p] = V[q]
    BY <1>11
  <2>2. \A p \in M : W[p] # NoPredicate => \E q \in M : V[q] = W[p]
    BY <1>11
  <2>3. \A q, r \in M : (V[q] # NoPredicate /\ V[q] = V[r]) => q = r
    BY <1>3, <1>11, <1>13
  <2> QED
    BY <1>12, <2>1, <2>2, <2>3 DEF Exchanged
<1> HIDE DEF M
<1>15. V \in [Places -> {V[p] : p \in Places}]
  BY <1>1, OneHolder DEF V
<1>16. Owned(W, LiveNodes)
  BY <1>1 DEF PredicatesOwned, W
<1>17. Owned(V, (LiveNodes \ {}) \cup {})
  <2>1. {} \in SUBSET LiveNodes /\ {} \cap LiveNodes = {} /\ NoPredicate \notin {}
    OBVIOUS
  <2> QED
    BY <1>9, <1>14, <1>15, <1>16, <2>1, ExchangeOwned
<1>18. LiveNodes' = LiveNodes
  <2>1. \A m \in DOMAIN preds : preds'[m].kind = preds[m].kind
    BY <1>3
  <2> QED
    BY <1>3, <2>1 DEF LiveNodes
<1> QED
  BY <1>17, <1>18 DEF PredicatesOwned, V

LEMMA FoldFirstCalls ==
  ASSUME OwnershipInv, FoldFirst
  PROVE  LET f == [This EXCEPT !.at = "first"]
         IN  stage = "folding" /\ FoldChild(f, 1) /\ Calls(f, 1)
<1> DEFINE t == This.node
           f == [This EXCEPT !.at = "first"]
<1>1. /\ stage = "folding" /\ This.at = "enter" /\ FoldChild(f, 1)
      /\ preds[t].kind \in {"And", "Or", "Not"}
  BY DEF FoldFirst, Folding
<1>2. /\ This \in ActivationTypes /\ activations # <<>>
      /\ folded = NoPredicate /\ This.lch = NoPredicate /\ IsWhole(preds, t)
      /\ NodeOK(preds, t) /\ preds \in Seq(Predicates) /\ t \in DOMAIN preds
      /\ DOMAIN preds[t].child = 1 .. Len(preds[t].child)
  <2>1. preds[t] \in Predicates /\ ActivationsOK /\ activations # <<>>
    BY <1>1, RunningHas DEF OwnershipInv
  <2>2. preds[t].child \in Seq(Nat)
    BY <2>1, NodeTyped
  <2> QED
    BY <1>1, <2>1, <2>2, RunningHas, LastActivation
<1>3. f \in ActivationTypes /\ f.at = "first" /\ f.node = t /\ f.lch = NoPredicate
  BY <1>2 DEF ActivationTypes
<1>4. 1 \in DOMAIN preds[t].child /\ preds[t].child[1] # NoPredicate
  <2>1. Len(preds[t].child) \in {1, 2}
    BY <1>1, <1>2 DEF NodeOK
  <2>2. 1 \in DOMAIN preds[t].child
    <3>1. DOMAIN preds[t].child = 1 .. Len(preds[t].child)
      BY <1>2
    <3> QED
      BY <2>1, <3>1
  <2> QED
    BY <1>2, <2>2 DEF IsWhole
<1> HIDE DEF f, t
<1>5. ActivationIn(preds', f)
  <2>1. preds' = [preds EXCEPT ![t].child[1] = NoPredicate]
    BY <1>1 DEF FoldChild, t
  <2>2. preds[t] \in Predicates
    BY <1>2
  <2>3. preds[t].child \in Seq(Nat)
    BY <2>2, NodeTyped
  <2> DEFINE r == [preds[t] EXCEPT !.child = [@ EXCEPT ![1] = NoPredicate]]
  <2>4. OneNode(preds', preds, t, r) /\ [preds[t].child EXCEPT ![1] = NoPredicate] \in Seq(Nat)
    BY <1>2, <1>4, <2>1, ChildWritten DEF NoPredicate
  <2>5. r.kind = preds[t].kind /\ r.child = [preds[t].child EXCEPT ![1] = NoPredicate]
    BY <2>2, <2>4, NodeWritten
  <2> HIDE DEF r
  <2>6. /\ DOMAIN r.child = DOMAIN preds[t].child
        /\ \A j \in DOMAIN preds[t].child :
             r.child[j] = IF j = 1 THEN NoPredicate ELSE preds[t].child[j]
    BY <2>3, <2>5
  <2>7. preds'[t] = r /\ t \in DOMAIN preds'
    BY <1>2, <2>4 DEF OneNode
  <2>8. \A j \in DOMAIN r.child : r.child[j] = NoPredicate <=> j = 1
    BY <1>2, <2>6 DEF IsWhole
  <2> QED
    BY <1>1, <1>3, <2>5, <2>7, <2>8 DEF ActivationIn
<1>6. Calls(f, 1)
  BY <1>1, <1>2, <1>3, <1>4, <1>5 DEF Calls, t
<1> QED
  BY <1>1, <1>6 DEF f

LEMMA FoldFirstStep ==
  ASSUME OwnershipInv, FoldFirst
  PROVE  Shapes'
<1> DEFINE f == [This EXCEPT !.at = "first"]
<1>1. stage = "folding" /\ FoldChild(f, 1) /\ Calls(f, 1)
  BY FoldFirstCalls
<1> HIDE DEF f
<1> QED
  BY <1>1, CallShape, CallOwned DEF Shapes

LEMMA FoldSecondCalls ==
  ASSUME OwnershipInv, FoldSecond
  PROVE  LET f == [This EXCEPT !.at = "second", !.lch = folded]
         IN  stage = "folding" /\ FoldChild(f, 2) /\ Calls(f, 2)
<1> DEFINE t == This.node
           f == [This EXCEPT !.at = "second", !.lch = folded]
<1>1. /\ stage = "folding" /\ This.at = "first" /\ FoldChild(f, 2)
      /\ preds[t].kind \in {"And", "Or"}
  BY DEF FoldSecond, Folding
<1>2. /\ This \in ActivationTypes /\ activations # <<>>
      /\ folded \in LiveNodes /\ folded # t /\ IsFolded(preds, folded, t)
      /\ This.lch = NoPredicate /\ ActivationIn(preds, This) /\ folded # NoPredicate
      /\ NodeOK(preds, t) /\ preds \in Seq(Predicates) /\ t \in DOMAIN preds
      /\ folded \in DOMAIN preds /\ folded \in Nat
      /\ DOMAIN preds[t].child = 1 .. Len(preds[t].child)
  <2>1. preds[t] \in Predicates /\ ActivationsOK /\ activations # <<>>
    BY <1>1, RunningHas DEF OwnershipInv
  <2>2. preds[t].child \in Seq(Nat)
    BY <2>1, NodeTyped
  <2> QED
    BY <1>1, <2>1, <2>2, RunningHas, LastActivation
<1>3. f \in ActivationTypes /\ f.at = "second" /\ f.node = t /\ f.lch = folded
  BY <1>2 DEF ActivationTypes
<1>4. /\ 2 \in DOMAIN preds[t].child /\ preds[t].child[2] # NoPredicate
      /\ DOMAIN preds[t].child = 1 .. 2
      /\ \A j \in DOMAIN preds[t].child : preds[t].child[j] = NoPredicate <=> j = 1
  <2>1. Len(preds[t].child) = 2
    BY <1>1, <1>2 DEF NodeOK
  <2>2. DOMAIN preds[t].child = 1 .. 2 /\ 2 \in DOMAIN preds[t].child
    BY <1>2, <2>1
  <2>3. \A j \in DOMAIN preds[t].child : preds[t].child[j] = NoPredicate <=> j = 1
    BY <1>1, <1>2 DEF ActivationIn
  <2> QED
    BY <2>2, <2>3
<1> HIDE DEF f, t
<1>5. ActivationIn(preds', f)
  <2>1. preds' = [preds EXCEPT ![t].child[2] = NoPredicate]
    BY <1>1 DEF FoldChild, t
  <2>2. preds[t] \in Predicates
    BY <1>2
  <2>3. preds[t].child \in Seq(Nat)
    BY <2>2, NodeTyped
  <2> DEFINE r == [preds[t] EXCEPT !.child = [@ EXCEPT ![2] = NoPredicate]]
  <2>4. OneNode(preds', preds, t, r) /\ [preds[t].child EXCEPT ![2] = NoPredicate] \in Seq(Nat)
    BY <1>2, <1>4, <2>1, ChildWritten DEF NoPredicate
  <2>5. r.kind = preds[t].kind /\ r.child = [preds[t].child EXCEPT ![2] = NoPredicate]
    BY <2>2, <2>4, NodeWritten
  <2> HIDE DEF r
  <2>6. /\ DOMAIN r.child = DOMAIN preds[t].child
        /\ \A j \in DOMAIN preds[t].child :
             r.child[j] = IF j = 2 THEN NoPredicate ELSE preds[t].child[j]
    BY <2>3, <2>5
  <2>7. preds'[t] = r /\ t \in DOMAIN preds'
    BY <1>2, <2>4 DEF OneNode
  <2>8. \A j \in DOMAIN r.child : r.child[j] = NoPredicate
    BY <1>4, <2>6
  <2>9. folded \in DOMAIN preds' /\ preds'[folded] = preds[folded]
    BY <1>2, <2>4 DEF OneNode
  <2>10. IsFolded(preds', folded, t)
    BY <1>2, <2>9 DEF IsFolded
  <2> QED
    BY <1>1, <1>2, <1>3, <2>5, <2>7, <2>8, <2>9, <2>10 DEF ActivationIn
<1>6. Calls(f, 2)
  BY <1>1, <1>2, <1>3, <1>4, <1>5 DEF Calls, t
<1> QED
  BY <1>1, <1>6 DEF f

LEMMA FoldSecondStep ==
  ASSUME OwnershipInv, FoldSecond
  PROVE  Shapes'
<1> DEFINE f == [This EXCEPT !.at = "second", !.lch = folded]
<1>1. stage = "folding" /\ FoldChild(f, 2) /\ Calls(f, 2)
  BY FoldSecondCalls
<1> HIDE DEF f
<1> QED
  BY <1>1, CallShape, CallOwned DEF Shapes

-----------------------------------------------------------------------------
(* Leaves *)

\* Only leaves, constants, and connectives with all of their children.
Formed(p, n) ==
  \A m \in 1 .. n :
    /\ p[m].kind \in {"Leaf", "Raw", "And", "Or", "Not"}
    /\ p[m].kind \in {"Leaf", "Raw"} => DOMAIN p[m].child = {}
    /\ p[m].kind = "Not" => DOMAIN p[m].child = {1}
    /\ p[m].kind \in {"And", "Or"} => DOMAIN p[m].child = {1, 2}
    /\ \A k \in DOMAIN p[m].child : p[m].child[k] \in 1 .. m - 1

\* The recursion of LeavesOf.
LeavesAt(p, m, f) ==
  CASE p[m].kind = "Leaf" -> <<m>>
    [] p[m].kind = "Raw"  -> <<>>
    [] p[m].kind = "Not"  -> f[p[m].child[1]]
    [] OTHER              -> f[p[m].child[1]] \o f[p[m].child[2]]

LeavesIn(p, n) == CHOOSE f : f = [m \in 1 .. n |-> LeavesAt(p, m, f)]

LEMMA LeavesAtBelow ==
  ASSUME NEW p, NEW n \in Nat, Formed(p, n), NEW m \in 1 .. n, NEW f, NEW g,
         \A x \in 1 .. m - 1 : f[x] = g[x]
  PROVE  LeavesAt(p, m, f) = LeavesAt(p, m, g)
<1>1. /\ p[m].kind \in {"Leaf", "Raw", "And", "Or", "Not"}
      /\ p[m].kind = "Not" => p[m].child[1] \in 1 .. m - 1
      /\ p[m].kind \in {"And", "Or"} =>
           p[m].child[1] \in 1 .. m - 1 /\ p[m].child[2] \in 1 .. m - 1
  BY DEF Formed
<1>2. CASE p[m].kind = "Leaf"
  BY <1>2 DEF LeavesAt
<1>3. CASE p[m].kind = "Raw"
  BY <1>3 DEF LeavesAt
<1>4. CASE p[m].kind = "Not"
  BY <1>1, <1>4 DEF LeavesAt
<1>5. CASE p[m].kind \in {"And", "Or"}
  <2>1. f[p[m].child[1]] = g[p[m].child[1]] /\ f[p[m].child[2]] = g[p[m].child[2]]
    BY <1>1, <1>5
  <2> QED
    BY <1>5, <2>1 DEF LeavesAt
<1> QED
  BY <1>1, <1>2, <1>3, <1>4, <1>5

LEMMA LeavesExist ==
  ASSUME NEW p, NEW n \in Nat, Formed(p, n)
  PROVE  \E f : f = [m \in 1 .. n |-> LeavesAt(p, m, f)]
<1> DEFINE T == {k \in 0 .. n : \E f : f = [m \in 1 .. k |-> LeavesAt(p, m, f)]}
<1>1. 0 \in T
  <2> DEFINE f == [m \in 1 .. 0 |-> {}]
  <2>1. f = [m \in 1 .. 0 |-> LeavesAt(p, m, f)]
    OBVIOUS
  <2> HIDE DEF f
  <2>2. \E h : h = [m \in 1 .. 0 |-> LeavesAt(p, m, h)]
    BY <2>1
  <2>3. 0 \in 0 .. n
    OBVIOUS
  <2> QED
    BY <2>2, <2>3
<1>2. ASSUME NEW k \in 0 .. n - 1, k \in T PROVE k + 1 \in T
  <2>1. PICK f : f = [m \in 1 .. k |-> LeavesAt(p, m, f)]
    BY <1>2
  <2> DEFINE g == [m \in 1 .. k + 1 |-> IF m = k + 1 THEN LeavesAt(p, k + 1, f) ELSE f[m]]
  <2>2. \A m \in 1 .. k : f[m] = g[m]
    OBVIOUS
  <2>3. ASSUME NEW m \in 1 .. k + 1 PROVE g[m] = LeavesAt(p, m, g)
    <3>1. g[m] = LeavesAt(p, m, f)
      <4>1. CASE m = k + 1
        BY <4>1
      <4>2. CASE m # k + 1
        <5>1. m \in 1 .. k /\ g[m] = f[m]
          BY <4>2
        <5> HIDE DEF g
        <5> QED
          BY <2>1, <5>1
      <4> QED
        BY <4>1, <4>2
    <3>2. LeavesAt(p, m, f) = LeavesAt(p, m, g)
      <4>1. m \in 1 .. n /\ \A x \in 1 .. m - 1 : x \in 1 .. k
        OBVIOUS
      <4> HIDE DEF g
      <4>2. \A x \in 1 .. m - 1 : f[x] = g[x]
        BY <2>2, <4>1
      <4> QED
        BY <4>1, <4>2, LeavesAtBelow
    <3> HIDE DEF g
    <3> QED
      BY <3>1, <3>2
  <2>4. g = [m \in 1 .. k + 1 |-> g[m]]
    OBVIOUS
  <2> HIDE DEF g
  <2>5. g = [m \in 1 .. k + 1 |-> LeavesAt(p, m, g)]
    BY <2>3, <2>4
  <2>6. \E h : h = [m \in 1 .. k + 1 |-> LeavesAt(p, m, h)]
    BY <2>5
  <2>7. k + 1 \in 0 .. n
    OBVIOUS
  <2> QED
    BY <2>6, <2>7
<1> HIDE DEF T
<1>3. 0 .. n \subseteq T
  BY <1>1, <1>2, IntervalInductionSet
<1> QED
  BY <1>3 DEF T

LEMMA LeavesUnfold ==
  ASSUME NEW p, NEW n \in Nat, Formed(p, n)
  PROVE  /\ LeavesOf(p, n) = LeavesIn(p, n)[n]
         /\ \A m \in 1 .. n : LeavesIn(p, n)[m] = LeavesAt(p, m, LeavesIn(p, n))
<1>1. LeavesIn(p, n) = [m \in 1 .. n |-> LeavesAt(p, m, LeavesIn(p, n))]
  BY LeavesExist DEF LeavesIn
<1>2. LeavesOf(p, n) = LeavesIn(p, n)[n]
  BY DEF LeavesOf, LeavesIn, LeavesAt
<1> QED
  BY <1>1, <1>2

(* They are the leaves below n: each of these, and no other node. *)
ListsLeaves(p, s, S) ==
  /\ s \in Seq(S) /\ \A i \in DOMAIN s : p[s[i]].kind = "Leaf"
  /\ \A x \in S : p[x].kind = "Leaf" => \E i \in DOMAIN s : s[i] = x

LEMMA ConcatLists ==
  ASSUME NEW p, NEW S, NEW Q, NEW s, NEW q, ListsLeaves(p, s, S), ListsLeaves(p, q, Q)
  PROVE  ListsLeaves(p, s \o q, S \cup Q)
<1>1. s \in Seq(S \cup Q) /\ q \in Seq(S \cup Q)
  BY DEF ListsLeaves
<1>2. /\ s \o q \in Seq(S \cup Q) /\ Len(s \o q) = Len(s) + Len(q)
      /\ \A i \in 1 .. Len(s) : (s \o q)[i] = s[i]
      /\ \A i \in 1 .. Len(q) : (s \o q)[i + Len(s)] = q[i]
      /\ DOMAIN (s \o q) = 1 .. Len(s) + Len(q)
      /\ DOMAIN s = 1 .. Len(s) /\ DOMAIN q = 1 .. Len(q) /\ Len(s) \in Nat /\ Len(q) \in Nat
  BY <1>1
<1> DEFINE c == s \o q
<1> HIDE DEF c
<1>3. ASSUME NEW i \in DOMAIN c PROVE p[c[i]].kind = "Leaf"
  <2>1. CASE i \in 1 .. Len(s)
    BY <1>2, <2>1 DEF c, ListsLeaves
  <2>2. CASE i \notin 1 .. Len(s)
    <3>1. i - Len(s) \in 1 .. Len(q) /\ (i - Len(s)) + Len(s) = i
      BY <1>2, <2>2 DEF c
    <3>2. c[(i - Len(s)) + Len(s)] = q[i - Len(s)]
      BY <1>2, <3>1 DEF c
    <3> QED
      BY <1>2, <3>1, <3>2 DEF ListsLeaves
  <2> QED
    BY <2>1, <2>2
<1>4. ASSUME NEW x \in S \cup Q, p[x].kind = "Leaf" PROVE \E i \in DOMAIN c : c[i] = x
  <2>1. CASE x \in S
    <3>1. PICK i \in DOMAIN s : s[i] = x
      BY <1>4, <2>1 DEF ListsLeaves
    <3>2. i \in DOMAIN c /\ c[i] = x
      BY <1>2, <3>1 DEF c
    <3> QED
      BY <3>2
  <2>2. CASE x \in Q
    <3>1. PICK i \in DOMAIN q : q[i] = x
      BY <1>4, <2>2 DEF ListsLeaves
    <3>2. i + Len(s) \in DOMAIN c /\ c[i + Len(s)] = x
      BY <1>2, <3>1 DEF c
    <3> QED
      BY <3>2
  <2> QED
    BY <2>1, <2>2
<1> QED
  BY <1>2, <1>3, <1>4 DEF c, ListsLeaves

LEMMA LeavesAre ==
  ASSUME NEW p, NEW n \in Nat \ {0}, Formed(p, n)
  PROVE  Ordered(p, n) /\ ListsLeaves(p, LeavesOf(p, n), SubPredicates(p, n))
<1> DEFINE f == LeavesIn(p, n)
           b == BelowOf(p, n)
           G == {m \in Nat : m \in 1 .. n => ListsLeaves(p, f[m], b[m])}
<1>1. Ordered(p, n)
  BY DEF Ordered, Formed
<1>2. /\ LeavesOf(p, n) = f[n] /\ \A m \in 1 .. n : f[m] = LeavesAt(p, m, f)
      /\ SubPredicates(p, n) = b[n] /\ \A m \in 0 .. n : b[m] = BelowAt(p, m, b)
  BY <1>1, LeavesUnfold, BelowUnfolds
<1> HIDE DEF f, b
<1>3. ASSUME NEW m \in Nat, \A x \in 0 .. m - 1 : x \in G
      PROVE  m \in G
  <2> SUFFICES ASSUME m \in 1 .. n PROVE ListsLeaves(p, f[m], b[m])
    BY DEF G
  <2> DEFINE ch == p[m].child
  <2>1. /\ p[m].kind \in {"Leaf", "Raw", "And", "Or", "Not"}
        /\ p[m].kind \in {"Leaf", "Raw"} => DOMAIN ch = {}
        /\ p[m].kind = "Not" => DOMAIN ch = {1}
        /\ p[m].kind \in {"And", "Or"} => DOMAIN ch = {1, 2}
        /\ \A k \in DOMAIN ch : ch[k] \in 1 .. m - 1
    BY DEF Formed
  <2>2. f[m] = LeavesAt(p, m, f)
    BY <1>2
  <2>3. b[m] = {m} \cup UNION {b[ch[k]] : k \in DOMAIN ch}
    <3>1. b[m] = BelowAt(p, m, b) /\ m # 0
      BY <1>2
    <3> QED
      BY <3>1 DEF BelowAt, NoPredicate
  <2>4. \A k \in DOMAIN ch : ListsLeaves(p, f[ch[k]], b[ch[k]])
    <3>1. ASSUME NEW k \in DOMAIN ch PROVE ListsLeaves(p, f[ch[k]], b[ch[k]])
      <4>1. ch[k] \in 1 .. m - 1
        BY <2>1
      <4> HIDE DEF ch
      <4>2. ch[k] \in 0 .. m - 1 /\ ch[k] \in 1 .. n
        BY <4>1
      <4>3. ch[k] \in G
        BY <1>3, <4>2
      <4> QED
        BY <4>2, <4>3 DEF G
    <3> QED
      BY <3>1
  <2> HIDE DEF ch, G
  <2>5. CASE p[m].kind = "Leaf"
    <3>1. f[m] = <<m>>
      BY <2>2, <2>5 DEF LeavesAt
    <3>2. b[m] = {m}
      BY <2>1, <2>3, <2>5
    <3>3. <<m>> \in Seq({m}) /\ DOMAIN <<m>> = 1 .. 1 /\ <<m>>[1] = m
      OBVIOUS
    <3> QED
      BY <2>5, <3>1, <3>2, <3>3 DEF ListsLeaves
  <2>6. CASE p[m].kind = "Raw"
    <3>1. f[m] = <<>>
      BY <2>2, <2>6 DEF LeavesAt
    <3>2. b[m] = {m}
      BY <2>1, <2>3, <2>6
    <3>3. <<>> \in Seq({m}) /\ DOMAIN <<>> = {}
      OBVIOUS
    <3> QED
      BY <2>6, <3>1, <3>2, <3>3 DEF ListsLeaves
  <2>7. CASE p[m].kind = "Not"
    <3>1. f[m] = f[ch[1]]
      BY <2>2, <2>7 DEF LeavesAt, ch
    <3>2. b[m] = {m} \cup b[ch[1]]
      BY <2>1, <2>3, <2>7
    <3>3. ListsLeaves(p, f[ch[1]], b[ch[1]])
      BY <2>1, <2>4, <2>7
    <3> QED
      BY <2>7, <3>1, <3>2, <3>3 DEF ListsLeaves
  <2>8. CASE p[m].kind \in {"And", "Or"}
    <3>1. f[m] = f[ch[1]] \o f[ch[2]]
      BY <2>2, <2>8 DEF LeavesAt, ch
    <3>2. b[m] = {m} \cup (b[ch[1]] \cup b[ch[2]])
      BY <2>1, <2>3, <2>8
    <3>3. ListsLeaves(p, f[ch[1]], b[ch[1]]) /\ ListsLeaves(p, f[ch[2]], b[ch[2]])
      BY <2>1, <2>4, <2>8
    <3>4. ListsLeaves(p, f[m], b[ch[1]] \cup b[ch[2]])
      BY <3>1, <3>3, ConcatLists
    <3> QED
      BY <2>8, <3>2, <3>4 DEF ListsLeaves
  <2> QED
    BY <2>1, <2>5, <2>6, <2>7, <2>8
<1>4. n \in G
  <2> HIDE DEF G
  <2>1. Nat \subseteq G
    BY <1>3, StrongInductionSet
  <2> QED
    BY <2>1
<1> QED
  BY <1>1, <1>2, <1>4 DEF G

-----------------------------------------------------------------------------
(* Resolving *)

\* What the fold and the split work on.
foldedVars == <<preds, condition, foldVars, stmtVars>>

LEMMA QuietStep ==
  ASSUME OwnershipInv, UNCHANGED foldedVars,
         stage' = stage \/ (stage = "relations" /\ stage' = "attributes")
  PROVE  Shapes'
<1>1. /\ preds' = preds /\ activations' = activations /\ folded' = folded
      /\ condition' = condition /\ pending' = pending /\ conditions' = conditions
  BY DEF foldedVars, foldVars, stmtVars
<1>2. PredsOK'
  BY <1>1 DEF OwnershipInv, PredsOK
<1>3. ActivationsOK'
  BY <1>1 DEF OwnershipInv, ActivationsOK
<1>4. StageOK'
  BY <1>1 DEF OwnershipInv, StageOK, Stages
<1>5. PredicatesOwned'
  BY <1>1 DEF OwnershipInv, PredicatesOwned, Holding, LiveNodes
<1> QED
  BY <1>2, <1>3, <1>4, <1>5 DEF Shapes

LEMMA AttributesResolvedStep ==
  ASSUME OwnershipInv, AttributesResolved
  PROVE  Shapes'
<1>1. PredsOK /\ ActivationsOK /\ StageOK /\ PredicatesOwned
  BY DEF OwnershipInv
<1>2. /\ stage = "attributes" /\ stage' = "leaves" /\ activations' = activations
      /\ folded' = folded /\ pending' = pending /\ conditions' = conditions
  BY DEF AttributesResolved, foldVars, stmtVars
<1>3. /\ activations = <<>> /\ pending = <<>> /\ conditions = <<>>
      /\ \A m \in DOMAIN preds : preds[m].kind # "Destroyed"
      /\ preds \in Seq(Predicates) /\ DOMAIN preds = 1 .. Len(preds) /\ Len(preds) \in Nat
      /\ \A m \in DOMAIN preds : NodeOK(preds, m) /\ IsWhole(preds, m)
  BY <1>1, <1>2 DEF StageOK, PredsOK
<1>4. folded = NoPredicate
  BY <1>1, <1>3 DEF ActivationsOK, ActivationsIn
<1>5. CASE condition # NoPredicate
  <2>1. preds' = preds /\ condition' = condition
    BY <1>5 DEF AttributesResolved
  <2>2. PredsOK'
    BY <1>1, <1>2, <2>1 DEF PredsOK
  <2>3. ActivationsOK'
    BY <1>1, <1>2, <2>1 DEF ActivationsOK
  <2>4. StageOK'
    BY <1>1, <1>2, <1>3, <1>5, <2>1 DEF StageOK, Stages
  <2>5. PredicatesOwned'
    BY <1>1, <1>2, <2>1 DEF PredicatesOwned, Holding, LiveNodes
  <2> QED
    BY <2>2, <2>3, <2>4, <2>5 DEF Shapes
<1>6. CASE condition = NoPredicate
  <2> DEFINE n == Len(preds) + 1
             pq == <<"query", 0, 0>>
  <2>1. preds' = Append(preds, PredicateRaw(TRUE)) /\ condition' = Len(preds')
    BY <1>6 DEF AttributesResolved
  <2>2. WithRaw(preds, preds')
    BY <1>3, <2>1, RawAdded
  <2>3. /\ preds' \in Seq(Predicates) /\ DOMAIN preds' = DOMAIN preds \cup {n}
        /\ n \notin DOMAIN preds /\ n # NoPredicate /\ condition' = n
        /\ \A m \in DOMAIN preds : preds'[m] = preds[m]
        /\ preds'[n].kind = "Raw" /\ NodeOK(preds', n) /\ IsWhole(preds', n)
        /\ \A i, k \in Nat : ChildAt(preds', i, k) = ChildAt(preds, i, k)
    <3>1. /\ DOMAIN preds' = DOMAIN preds \cup {n} /\ n \notin DOMAIN preds
          /\ n # NoPredicate /\ condition' = n
      BY <1>3, <2>1, <2>2 DEF WithRaw, NoPredicate
    <3>2. preds' \in Seq(Predicates) /\ \A m \in DOMAIN preds : preds'[m] = preds[m]
      BY <2>2 DEF WithRaw
    <3>3. preds'[n].kind = "Raw" /\ NodeOK(preds', n) /\ IsWhole(preds', n)
      BY <2>2 DEF WithRaw
    <3>4. \A i, k \in Nat : ChildAt(preds', i, k) = ChildAt(preds, i, k)
      BY <2>2 DEF WithRaw
    <3> HIDE DEF n
    <3> QED
      BY <3>1, <3>2, <3>3, <3>4
  <2> HIDE DEF n
  <2>4. \A m \in DOMAIN preds' : NodeOK(preds', m) /\ IsWhole(preds', m)
    <3>1. ASSUME NEW m \in DOMAIN preds PROVE NodeOK(preds', m) /\ IsWhole(preds', m)
      <4>1. \A x \in DOMAIN preds : preds'[x].kind = "Raw" => preds[x].kind = "Raw"
        BY <2>3
      <4>2. NodeOK(preds', m)
        BY <1>3, <2>3, <4>1, ShapeKept
      <4> QED
        BY <1>3, <2>3, <4>2 DEF IsWhole
    <3> QED
      BY <2>3, <3>1
  <2>5. PredsOK'
    BY <2>3, <2>4 DEF PredsOK
  <2>6. ActivationsOK'
    <3>1. <<>> \in Seq(ActivationTypes) /\ DOMAIN <<>> = {}
      OBVIOUS
    <3> QED
      BY <1>2, <1>3, <1>4, <3>1 DEF ActivationsOK, ActivationsIn
  <2>7. StageOK'
    <3>1. \A m \in DOMAIN preds' : preds'[m].kind # "Destroyed"
      BY <1>3, <2>3
    <3>2. pending' \in Seq(DOMAIN preds') /\ conditions' \in Seq(DOMAIN preds')
      BY <1>2, <1>3
    <3> QED
      BY <1>2, <1>3, <1>4, <2>3, <3>1, <3>2 DEF StageOK, Stages
  <2>8. Exchanged(Holding, Holding', {pq}, {}, {n})
    <3>1. ChildrenAlone({pq}, {})
      BY <2>3 DEF ChildrenAlone
    <3>2. LocalsAlone({pq}) /\ StatementAlone({pq})
      BY <1>2 DEF LocalsAlone, StatementAlone
    <3>3. ResultsAlone({pq})
      BY <1>2 DEF ResultsAlone
    <3>4. \A p \in Places : \/ p \in {pq} \/ Holding'[p] = Holding[p]
                            \/ Holding'[p] = NoPredicate /\ Holding[p] \in {}
      BY <3>1, <3>2, <3>3, RestAlone
    <3>5. Holding[pq] = NoPredicate /\ Holding'[pq] = n
      BY <1>6, <2>3, HoldsNow, HoldsNext
    <3> HIDE DEF pq
    <3> QED
      BY <3>4, <3>5 DEF Exchanged
  <2>9. Owned(Holding', (LiveNodes \ {}) \cup {n})
    <3>1. /\ {} \in SUBSET LiveNodes /\ {n} \cap LiveNodes = {} /\ NoPredicate \notin {n}
      BY <2>3 DEF LiveNodes
    <3>2. {pq} \in SUBSET Places
      BY SomePlaces
    <3>3. Owned(Holding, LiveNodes) /\ Holding' \in [Places -> {Holding'[p] : p \in Places}]
      BY <1>1, OneHolder DEF PredicatesOwned
    <3> HIDE DEF pq
    <3> QED
      BY <2>8, <3>1, <3>2, <3>3, ExchangeOwned
  <2>10. LiveNodes' = (LiveNodes \ {}) \cup {n}
    BY <2>3 DEF LiveNodes
  <2> QED
    BY <2>5, <2>6, <2>7, <2>9, <2>10 DEF Shapes, PredicatesOwned
<1> QED
  BY <1>5, <1>6

(* A relation that is filled in is a name. *)
LEMMA AttributeTyped ==
  ASSUME TypeOK, NEW a \in AttributeNames
  PROVE  resolve_attribute_item(a) \in AttributeNames
<1>1. a.relation \in STRING /\ a.attribute \in STRING
  <2>1. a.relation \in STRING
    BY DEF AttributeNames
  <2>2. a.attribute \in STRING
    BY DEF AttributeNames
  <2> QED
    BY <2>1, <2>2
<1>2. a.relation = NoRelation => get_relation(a.attribute) \in STRING
  <2>1. CASE count_relation(a.attribute) # 1
    <3>1. get_relation(a.attribute) = NoRelation
      BY <2>1 DEF get_relation
    <3> QED
      BY <1>1, <3>1
  <2>2. CASE count_relation(a.attribute) = 1
    <3> DEFINE S == DOMAIN attr_map_[a.attribute]
    <3>1. a.attribute \in DOMAIN attr_map_ /\ Cardinality(S) = 1
      BY <2>2 DEF count_relation
    <3>2. S # {}
      BY <3>1, FS_EmptySet
    <3>3. S \subseteq Relations
      BY <3>1 DEF TypeOK, NestedMap
    <3>4. Relations \subseteq STRING
      BY SchemaItemsAssumption DEF Relations
    <3>5. get_relation(a.attribute) = CHOOSE rel \in S : TRUE
      BY <2>2 DEF get_relation
    <3> HIDE DEF S
    <3> QED
      BY <3>2, <3>3, <3>4, <3>5
  <2> QED
    BY <2>1, <2>2
<1>3. \A r \in STRING : [a EXCEPT !.relation = r] \in AttributeNames
  BY DEF AttributeNames
<1> QED
  BY <1>2, <1>3 DEF resolve_attribute_item

(* Operands stay operands, with a relation or a date put in. *)
LEMMA OperandsTyped ==
  ASSUME TypeOK, NEW l \in Operands, NEW r \in Operands,
         is_valid_compare(resolve_operand(l), resolve_operand(r))
  PROVE  /\ set_value(resolve_operand(l), resolve_operand(r)) \in Operands
         /\ set_value(resolve_operand(r), resolve_operand(l)) \in Operands
<1>1. ASSUME NEW o \in Operands PROVE resolve_operand(o) \in Operands
  <2>1. CASE IsAttr(o)
    <3>1. o.attr \in AttributeNames
      BY <2>1 DEF IsAttr, Operands
    <3>2. resolve_attribute_item(o.attr) \in AttributeNames
      BY <3>1, AttributeTyped
    <3> QED
      BY <2>1, <3>2 DEF resolve_operand, Operands
  <2> QED
    BY <2>1 DEF resolve_operand
<1> DEFINE x == resolve_operand(l)
           y == resolve_operand(r)
<1>2. \A t : t \in DOMAIN DateOf => OperandVal(Value("date", DateOf[t])) \in Operands
  BY DateOfAssumption DEF OperandVal, Value, Operands, TypedValues, ValueTypes
<1>3. x \in Operands /\ y \in Operands
  BY <1>1
<1>4. is_valid_compare(x, y)
  OBVIOUS
<1> HIDE DEF x, y
<1>5. MeetsDate(x, y) => ~MeetsDate(y, x) /\ x.val.data \in DOMAIN DateOf
  BY <1>4 DEF is_valid_compare, MeetsDate
<1>6. MeetsDate(y, x) => ~MeetsDate(x, y) /\ y.val.data \in DOMAIN DateOf
  BY <1>4 DEF is_valid_compare, MeetsDate
<1>7. set_value(x, y) \in Operands /\ set_value(y, x) \in Operands
  BY <1>2, <1>3, <1>5, <1>6 DEF set_value
<1> QED
  BY <1>7 DEF x, y

(* The condition is a tree of leaves, connectives and constants. *)
LEMMA FormedNow ==
  ASSUME OwnershipInv, stage = "leaves"
  PROVE  Formed(preds, condition) /\ condition \in DOMAIN preds /\ condition \in Nat \ {0}
<1>1. /\ condition \in DOMAIN preds /\ condition # NoPredicate /\ activations = <<>>
      /\ \A m \in DOMAIN preds : preds[m].kind # "Destroyed"
  BY DEF OwnershipInv, StageOK
<1>2. /\ preds \in Seq(Predicates) /\ DOMAIN preds = 1 .. Len(preds) /\ Len(preds) \in Nat
      /\ \A m \in DOMAIN preds : NodeOK(preds, m) /\ IsWhole(preds, m)
  BY <1>1 DEF OwnershipInv, PredsOK
<1>3. ASSUME NEW m \in DOMAIN preds
      PROVE  /\ preds[m].kind \in {"Leaf", "Raw", "And", "Or", "Not"}
             /\ preds[m].kind \in {"Leaf", "Raw"} => DOMAIN preds[m].child = {}
             /\ preds[m].kind = "Not" => DOMAIN preds[m].child = {1}
             /\ preds[m].kind \in {"And", "Or"} => DOMAIN preds[m].child = {1, 2}
             /\ \A k \in DOMAIN preds[m].child : preds[m].child[k] \in 1 .. m - 1
  <2>1. preds[m] \in Predicates
    BY <1>2
  <2>2. /\ preds[m].kind \in {"Leaf", "Raw", "And", "Or", "Not", "Destroyed"}
        /\ preds[m].child \in Seq(Nat)
    BY <2>1, NodeTyped
  <2>3. preds[m].kind # "Destroyed"
    BY <1>1
  <2>4. DOMAIN preds[m].child = 1 .. Len(preds[m].child)
    BY <2>2
  <2>5. NodeOK(preds, m) /\ IsWhole(preds, m)
    BY <1>2
  <2>6. \A k \in DOMAIN preds[m].child : preds[m].child[k] \in 1 .. m - 1
    BY <2>5 DEF NodeOK, IsWhole
  <2>7. 1 .. 0 = {} /\ 1 .. 1 = {1} /\ 1 .. 2 = {1, 2}
    OBVIOUS
  <2>8. /\ preds[m].kind \in {"Leaf", "Raw"} => Len(preds[m].child) = 0
        /\ preds[m].kind = "Not" => Len(preds[m].child) = 1
        /\ preds[m].kind \in {"And", "Or"} => Len(preds[m].child) = 2
    BY <2>5 DEF NodeOK
  <2> QED
    BY <2>2, <2>3, <2>4, <2>6, <2>7, <2>8
<1>4. condition \in Nat \ {0} /\ \A m \in 1 .. condition : m \in DOMAIN preds
  BY <1>1, <1>2 DEF NoPredicate
<1> QED
  BY <1>1, <1>3, <1>4 DEF Formed

LEMMA LeafIsNext ==
  ASSUME OwnershipInv, LeavesAreLeft
  PROVE  /\ ThisLeaf \in DOMAIN preds /\ preds[ThisLeaf].kind = "Leaf"
         /\ preds[ThisLeaf].operand \in Seq(Operands) /\ Len(preds[ThisLeaf].operand) = 2
         /\ \A n \in {1, 2} : preds[ThisLeaf].operand[n] \in Operands
<1> DEFINE s == LeavesOf(preds, condition)
           S == SubPredicates(preds, condition)
<1>1. stage = "leaves" /\ resolved < Len(s) /\ resolved \in Nat /\ ThisLeaf = s[resolved + 1]
  BY DEF LeavesAreLeft, OwnershipInv, ListsOK, ThisLeaf
<1>2. Formed(preds, condition) /\ condition \in DOMAIN preds /\ condition \in Nat \ {0}
  BY <1>1, FormedNow
<1>3. Ordered(preds, condition) /\ ListsLeaves(preds, s, S)
  BY <1>2, LeavesAre
<1>4. S \subseteq 1 .. condition
  BY <1>2, <1>3, BelowIs
<1> HIDE DEF s, S
<1>5. preds \in Seq(Predicates) /\ \A m \in DOMAIN preds : NodeOK(preds, m)
  BY DEF OwnershipInv, PredsOK
<1>6. s \in Seq(S) /\ \A i \in DOMAIN s : preds[s[i]].kind = "Leaf"
  BY <1>3 DEF ListsLeaves
<1>7. resolved + 1 \in DOMAIN s /\ s[resolved + 1] \in S
  BY <1>1, <1>6
<1>8. ThisLeaf \in DOMAIN preds /\ preds[ThisLeaf].kind = "Leaf"
  <2>1. condition \in 1 .. Len(preds) /\ DOMAIN preds = 1 .. Len(preds) /\ Len(preds) \in Nat
    BY <1>2, <1>5
  <2>2. \A m \in 1 .. condition : m \in DOMAIN preds
    BY <1>2, <2>1
  <2> QED
    BY <1>1, <1>4, <1>6, <1>7, <2>2
<1>9. preds[ThisLeaf].operand \in Seq(Operands)
  BY <1>5, <1>8, NodeTyped
<1>10. Len(preds[ThisLeaf].operand) = 2
  BY <1>5, <1>8 DEF NodeOK
<1> QED
  BY <1>8, <1>9, <1>10

\* The leaf gets its operands; nothing else is written.
LEMMA LeafRewritten ==
  ASSUME OwnershipInv, ResolveLeaf
  PROVE  LET o == preds[ThisLeaf].operand
             l == resolve_operand(o[1])
             r == resolve_operand(o[2])
         IN  /\ preds' \in Seq(Predicates) /\ DOMAIN preds' = DOMAIN preds
             /\ \A m \in DOMAIN preds :
                  /\ preds'[m].kind = preds[m].kind /\ preds'[m].child = preds[m].child
                  /\ m # ThisLeaf => preds'[m] = preds[m]
             /\ preds'[ThisLeaf].operand = <<set_value(l, r), set_value(r, l)>>
             /\ Len(preds'[ThisLeaf].operand) = 2
<1> DEFINE n == ThisLeaf
           o == preds[n].operand
           l == resolve_operand(o[1])
           r == resolve_operand(o[2])
           w == <<set_value(l, r), set_value(r, l)>>
           e == [preds[n] EXCEPT !.operand = w]
<1>1. LeavesAreLeft /\ LeafResolves(preds[n])
  BY DEF ResolveLeaf
<1>2. /\ n \in DOMAIN preds /\ preds[n].kind = "Leaf"
      /\ o[1] \in Operands /\ o[2] \in Operands
  BY <1>1, LeafIsNext
<1>3. preds' = [preds EXCEPT ![n] = e]
  <2>1. preds' = [preds EXCEPT ![n].operand = w]
    BY DEF ResolveLeaf
  <2> HIDE DEF w, n, o
  <2> QED
    BY <2>1
<1>4. w \in Seq(Operands) /\ Len(w) = 2
  <2>1. is_valid_compare(l, r)
    BY <1>1 DEF LeafResolves
  <2>2. TypeOK
    BY DEF OwnershipInv, ListsOK
  <2>3. set_value(l, r) \in Operands /\ set_value(r, l) \in Operands
    <3> HIDE DEF o, n
    <3> QED
      BY <1>2, <2>1, <2>2, OperandsTyped
  <2> HIDE DEF l, r
  <2> QED
    BY <2>3
<1>6. preds \in Seq(Predicates)
  BY DEF OwnershipInv, PredsOK
<1> HIDE DEF n, o, l, r, w
<1>7. /\ e \in Predicates /\ e.kind = preds[n].kind /\ e.operand = w
      /\ e.child = preds[n].child
  <2>1. preds[n] \in Predicates
    BY <1>2, <1>6
  <2> QED
    BY <1>4, <2>1, NodeWritten
<1>8. OneNode(preds', preds, n, e)
  <2> HIDE DEF e
  <2> QED
    BY <1>2, <1>3, <1>6, <1>7, OneWritten
<1>9. /\ preds' \in Seq(Predicates) /\ DOMAIN preds' = DOMAIN preds
      /\ \A m \in DOMAIN preds : preds'[m].kind = preds[m].kind /\ preds'[m].child = preds[m].child
      /\ \A m \in DOMAIN preds : m # n => preds'[m] = preds[m]
      /\ preds'[n].operand = w /\ Len(preds'[n].operand) = 2
  <2> HIDE DEF e
  <2> QED
    BY <1>2, <1>4, <1>7, <1>8 DEF OneNode
<1> QED
  BY <1>9 DEF n, o, l, r, w

LEMMA ResolveLeafStep ==
  ASSUME OwnershipInv, ResolveLeaf
  PROVE  Shapes'
<1> DEFINE n == ThisLeaf
<1>3. /\ stage' = stage /\ stage = "leaves"
      /\ condition' = condition /\ activations' = activations /\ folded' = folded
      /\ pending' = pending /\ conditions' = conditions
  BY DEF ResolveLeaf, LeavesAreLeft, foldVars, stmtVars
<1>5. PredsOK /\ ActivationsOK /\ StageOK /\ PredicatesOwned
  BY DEF OwnershipInv
<1>6. preds \in Seq(Predicates) /\ \A m \in DOMAIN preds : NodeOK(preds, m)
  BY <1>5 DEF PredsOK
<1>9. /\ preds' \in Seq(Predicates) /\ DOMAIN preds' = DOMAIN preds
      /\ \A m \in DOMAIN preds : preds'[m].kind = preds[m].kind /\ preds'[m].child = preds[m].child
      /\ \A m \in DOMAIN preds : m # n => preds'[m] = preds[m]
      /\ Len(preds'[n].operand) = 2
  BY LeafRewritten
<1> HIDE DEF n
<1>10. ASSUME NEW m \in DOMAIN preds
       PROVE  NodeOK(preds', m) /\ (IsWhole(preds', m) <=> IsWhole(preds, m))
  <2>1. NodeOK(preds, m) /\ \A x \in 1 .. m - 1 : x \in DOMAIN preds
    BY <1>6
  <2>2. Len(preds'[m].operand) = Len(preds[m].operand) \/ Len(preds'[m].operand) = 2
    BY <1>9
  <2>3. NodeOK(preds', m)
    BY <1>9, <2>1, <2>2 DEF NodeOK
  <2> QED
    BY <1>9, <2>3 DEF IsWhole
<1>11. PredsOK'
  BY <1>3, <1>5, <1>9, <1>10 DEF PredsOK
<1>12. ActivationsOK' /\ StageOK'
  <2>1. activations = <<>> /\ folded = NoPredicate
    BY <1>3, <1>5 DEF StageOK, ActivationsOK, ActivationsIn
  <2>2. <<>> \in Seq(ActivationTypes) /\ DOMAIN <<>> = {}
    OBVIOUS
  <2>3. ActivationsOK'
    BY <1>3, <2>1, <2>2 DEF ActivationsOK, ActivationsIn
  <2>4. StageOK'
    BY <1>3, <1>5, <1>9 DEF StageOK
  <2> QED
    BY <2>3, <2>4
<1>13. PredicatesOwned'
  <2>1. \A i, k \in Nat : ChildAt(preds', i, k) = ChildAt(preds, i, k)
    BY <1>9 DEF ChildAt
  <2>2. ChildrenAlone({}, {}) /\ LocalsAlone({}) /\ StatementAlone({}) /\ ResultsAlone({})
    BY <1>3, <2>1 DEF ChildrenAlone, LocalsAlone, StatementAlone, ResultsAlone
  <2>3. \A p \in Places : Holding'[p] = Holding[p]
    BY <2>2, RestAlone
  <2>4. LiveNodes' = LiveNodes
    BY <1>9 DEF LiveNodes
  <2>5. Owned(Holding, LiveNodes) /\ Holding' \in [Places -> {Holding'[p] : p \in Places}]
    BY <1>5, OneHolder DEF PredicatesOwned
  <2>6. Holding' = Holding
    BY <2>3, <2>5 DEF Owned
  <2> QED
    BY <2>4, <2>5, <2>6 DEF PredicatesOwned
<1> QED
  BY <1>11, <1>12, <1>13 DEF Shapes

(* A step that only moves a pointer from one place to another. *)
LEMMA MovedOnce ==
  ASSUME PredicatesOwned, LiveNodes' = LiveNodes,
         NEW p \in Places, NEW q \in Places, p # q,
         Holding[q] = NoPredicate, Holding'[p] = NoPredicate, Holding'[q] = Holding[p],
         ChildrenAlone({p, q}, {}), LocalsAlone({p, q}),
         StatementAlone({p, q}), ResultsAlone({p, q})
  PROVE  PredicatesOwned'
<1>1. \A r \in Places : r \in {p, q} \/ Holding'[r] = Holding[r]
  <2>1. \A r \in Places : \/ r \in {p, q} \/ Holding'[r] = Holding[r]
                          \/ Holding'[r] = NoPredicate /\ Holding[r] \in {}
    BY RestAlone
  <2> QED
    BY <2>1
<1>2. Exchanged(Holding, Holding', {p, q}, {}, {})
  BY <1>1 DEF Exchanged
<1>3. Owned(Holding, LiveNodes) /\ Holding' \in [Places -> {Holding'[r] : r \in Places}]
  BY OneHolder DEF PredicatesOwned
<1>4. Owned(Holding', (LiveNodes \ {}) \cup {})
  BY <1>2, <1>3, ExchangeOwned
<1>5. (LiveNodes \ {}) \cup {} = LiveNodes'
  OBVIOUS
<1> QED
  BY <1>4, <1>5 DEF PredicatesOwned

LEMMA LeavesResolvedStep ==
  ASSUME OwnershipInv, LeavesResolved
  PROVE  Shapes'
<1> DEFINE c == condition
           a == Activation(c)
           pq == <<"query", 0, 0>>
           pn == <<"node", 1, 0>>
<1>1. /\ stage = "leaves" /\ stage' = "folding" /\ activations' = <<a>> /\ preds' = preds
      /\ condition' = NoPredicate /\ folded' = folded /\ pending' = pending
      /\ conditions' = conditions
  BY DEF LeavesResolved, stmtVars
<1>2. PredsOK /\ ActivationsOK /\ StageOK /\ PredicatesOwned
  BY DEF OwnershipInv
<1>3. /\ activations = <<>> /\ pending = <<>> /\ conditions = <<>>
      /\ c \in DOMAIN preds /\ c \in Nat \ {0}
  BY <1>1, <1>2, FormedNow DEF StageOK
<1>4. folded = NoPredicate
  BY <1>2, <1>3 DEF ActivationsOK, ActivationsIn
<1>5. \A m \in DOMAIN preds : IsWhole(preds, m)
  BY <1>2, <1>3 DEF PredsOK
<1>6. /\ a.node = c /\ a.at = "enter" /\ a.lch = NoPredicate /\ a \in ActivationTypes
      /\ <<a>> \in Seq(ActivationTypes) /\ DOMAIN <<a>> = {1} /\ <<a>>[1] = a /\ Len(<<a>>) = 1
  <2>1. a.node = c /\ a.at = "enter" /\ a.lch = NoPredicate /\ a \in ActivationTypes
    BY <1>3 DEF Activation, ActivationTypes, NoPredicate
  <2> HIDE DEF a
  <2> QED
    BY <2>1
<1> HIDE DEF a, c
<1>7. PredsOK'
  BY <1>1, <1>2, <1>5 DEF PredsOK
<1>8. ActivationsOK'
  <2>1. ActivationIn(preds, a)
    BY <1>3, <1>5, <1>6 DEF ActivationIn
  <2>2. ActivationsIn(preds, <<a>>, NoPredicate)
    BY <1>6, <2>1 DEF ActivationsIn
  <2> QED
    BY <1>1, <1>4, <2>2 DEF ActivationsOK
<1>9. StageOK'
  <2>1. activations' # <<>>
    BY <1>1
  <2> QED
    BY <1>1, <1>2, <1>3, <2>1 DEF StageOK, Stages
<1>10. PredicatesOwned'
  <2>1. pq \in Places /\ pn \in Places /\ pq # pn
    BY SomePlaces
  <2>2. ChildrenAlone({pq, pn}, {}) /\ StatementAlone({pq, pn}) /\ ResultsAlone({pq, pn})
    BY <1>1 DEF ChildrenAlone, StatementAlone, ResultsAlone
  <2>3. LocalsAlone({pq, pn})
    BY <1>1, <1>3, <1>6 DEF LocalsAlone, NodeAt, LchAt
  <2>4. 1 \in Nat /\ NodeAt(activations, 1) = NoPredicate /\ NodeAt(activations', 1) = c
    BY <1>1, <1>3, <1>6 DEF NodeAt
  <2>5. /\ Holding[pn] = NoPredicate /\ Holding'[pn] = c
        /\ Holding[pq] = c /\ Holding'[pq] = NoPredicate
    BY <1>1, <2>4, HoldsNow, HoldsNext DEF c
  <2>6. LiveNodes' = LiveNodes
    BY <1>1 DEF LiveNodes
  <2> HIDE DEF pq, pn
  <2> QED
    BY <1>2, <2>1, <2>2, <2>3, <2>5, <2>6, MovedOnce
<1> QED
  BY <1>7, <1>8, <1>9, <1>10 DEF Shapes

LEMMA StatementBuiltStep ==
  ASSUME OwnershipInv, StatementBuilt
  PROVE  Shapes'
<1>1. /\ preds' = preds /\ activations' = activations /\ folded' = folded /\ stage' = "done"
      /\ condition' = condition /\ pending' = pending /\ conditions' = conditions
  BY DEF StatementBuilt, Untouched, foldVars
<1>2. PredsOK'
  BY <1>1 DEF OwnershipInv, PredsOK
<1>3. ActivationsOK'
  BY <1>1 DEF OwnershipInv, ActivationsOK
<1>4. StageOK'
  BY <1>1 DEF OwnershipInv, StageOK, Stages, Ends
<1>5. PredicatesOwned'
  BY <1>1 DEF OwnershipInv, PredicatesOwned, Holding, LiveNodes
<1> QED
  BY <1>2, <1>3, <1>4, <1>5 DEF Shapes

LEMMA SplitOtherStep ==
  ASSUME OwnershipInv, SplitOther
  PROVE  Shapes'
<1> DEFINE h == Head(pending)
           N == Len(pending) - 1
           C == Len(conditions) + 1
           pp == <<"pending", N, 0>>
           ps == <<"statement", C, 0>>
<1>1. /\ stage = "splitting" /\ stage' = stage /\ activations' = activations /\ preds' = preds
      /\ condition' = condition /\ folded' = folded /\ pending # <<>>
      /\ pending' = Tail(pending) /\ conditions' = Append(conditions, h)
  BY DEF SplitOther, foldVars, queryVars
<1>2. PredsOK /\ ActivationsOK /\ StageOK /\ PredicatesOwned
  BY DEF OwnershipInv
<1>3. pending \in Seq(DOMAIN preds) /\ conditions \in Seq(DOMAIN preds)
  BY <1>2 DEF StageOK
<1>4. /\ h \in DOMAIN preds /\ N \in Nat /\ C \in Nat /\ C \notin DOMAIN conditions
      /\ pending' \in Seq(DOMAIN preds) /\ Len(pending') = N /\ Len(pending) = N + 1
      /\ conditions' \in Seq(DOMAIN preds)
      /\ h = pending[1] /\ \A i \in 1 .. N : pending'[i] = pending[i + 1]
      /\ DOMAIN conditions' = DOMAIN conditions \cup {C} /\ conditions'[C] = h
      /\ \A i \in DOMAIN conditions : conditions'[i] = conditions[i]
  BY <1>1, <1>3
<1> HIDE DEF h, N, C
<1>5. PredsOK'
  BY <1>1, <1>2 DEF PredsOK
<1>6. ActivationsOK'
  BY <1>1, <1>2 DEF ActivationsOK
<1>7. StageOK'
  BY <1>1, <1>2, <1>4 DEF StageOK
<1>8. PredicatesOwned'
  <2>1. pp \in Places /\ ps \in Places /\ pp # ps
    BY <1>4, SomePlaces
  <2>2. ChildrenAlone({pp, ps}, {}) /\ LocalsAlone({pp, ps}) /\ ResultsAlone({pp, ps})
    BY <1>1 DEF ChildrenAlone, LocalsAlone, ResultsAlone
  <2>3. PendingAt(pending, N) = h /\ PendingAt(pending', N) = NoPredicate
    BY <1>4 DEF PendingAt
  <2>4. StatementAt(conditions, C) = NoPredicate /\ StatementAt(conditions', C) = h
    BY <1>4 DEF StatementAt
  <2>5. StatementAlone({pp, ps})
    <3>1. ASSUME NEW i \in Nat, i # N PROVE PendingAt(pending', i) = PendingAt(pending, i)
      <4>1. CASE i < N
        <5>1. N - i \in 1 .. N /\ N - i + 1 = Len(pending) - i
          BY <1>4, <4>1
        <5> QED
          BY <1>4, <4>1, <5>1 DEF PendingAt
      <4>2. CASE i > N
        BY <1>4, <4>2 DEF PendingAt
      <4> QED
        BY <1>4, <3>1, <4>1, <4>2
    <3>2. ASSUME NEW i \in Nat, i # C
          PROVE  StatementAt(conditions', i) = StatementAt(conditions, i)
      BY <1>4, <3>2 DEF StatementAt
    <3> QED
      BY <3>1, <3>2 DEF StatementAlone
  <2>6. /\ Holding[pp] = h /\ Holding'[pp] = NoPredicate
        /\ Holding[ps] = NoPredicate /\ Holding'[ps] = h
    <3>1. N \in Nat /\ C \in Nat
      BY <1>4
    <3> QED
      BY <2>3, <2>4, <3>1, HoldsNow, HoldsNext
  <2>7. LiveNodes' = LiveNodes
    BY <1>1 DEF LiveNodes
  <2> HIDE DEF pp, ps
  <2> QED
    BY <1>2, <2>1, <2>2, <2>5, <2>6, <2>7, MovedOnce
<1> QED
  BY <1>5, <1>6, <1>7, <1>8 DEF Shapes

(* Two pointers in front of the others. *)
InFront(g, c, t, S) ==
  /\ g \in Seq(S) /\ Len(g) = Len(t) + 2 /\ g[1] = c[1] /\ g[2] = c[2]
  /\ \A i \in 1 .. Len(t) : g[i + 2] = t[i]

(* A sequence is one of whatever its elements are in. *)
LEMMA SequenceOf ==
  ASSUME NEW S, NEW T, NEW c \in Seq(T), \A i \in 1 .. Len(c) : c[i] \in S
  PROVE  c \in Seq(S)
  OBVIOUS

(* What a concatenation is, place by place. *)
LEMMA ConcatIs ==
  ASSUME NEW S, NEW c \in Seq(S), NEW t \in Seq(S)
  PROVE  /\ c \o t \in Seq(S) /\ Len(c \o t) = Len(c) + Len(t)
         /\ \A i \in 1 .. Len(c) : (c \o t)[i] = c[i]
         /\ \A i \in 1 .. Len(t) : (c \o t)[i + Len(c)] = t[i]
         /\ Len(t) \in Nat
  OBVIOUS

LEMMA PairInFront ==
  ASSUME NEW S, NEW c \in Seq(S), Len(c) = 2, NEW t \in Seq(S)
  PROVE  InFront(c \o t, c, t, S)
<1>1. /\ c \o t \in Seq(S) /\ Len(c \o t) = Len(c) + Len(t)
      /\ \A i \in 1 .. Len(c) : (c \o t)[i] = c[i]
      /\ \A i \in 1 .. Len(t) : (c \o t)[i + Len(c)] = t[i]
      /\ Len(t) \in Nat
  BY ConcatIs
<1>2. 1 \in 1 .. Len(c) /\ 2 \in 1 .. Len(c)
  OBVIOUS
<1> QED
  BY <1>1, <1>2 DEF InFront

LEMMA SplitInTwo ==
  ASSUME OwnershipInv, SplitAnd
  PROVE  LET h == Head(pending)
             N == Len(pending) - 1
             c == preds[h].child
             c1 == c[1]
             c2 == c[2]
         IN  /\ pending \in Seq(DOMAIN preds) /\ activations = <<>> /\ preds \in Seq(Predicates)
             /\ folded = NoPredicate
             /\ h \in DOMAIN preds /\ h = pending[1] /\ N \in Nat /\ Len(pending) = N + 1
             /\ Tail(pending) \in Seq(DOMAIN preds) /\ Len(Tail(pending)) = N
             /\ \A i \in 1 .. N : Tail(pending)[i] = pending[i + 1]
             /\ h \in Nat \ {0} /\ \A m \in 1 .. h - 1 : m \in DOMAIN preds
             /\ c \in Seq(Nat) /\ Len(c) = 2 /\ DOMAIN c = {1, 2}
             /\ \A k \in DOMAIN c : c[k] \in 1 .. h - 1 /\ c[k] # NoPredicate
             /\ c1 \in DOMAIN preds /\ c2 \in DOMAIN preds /\ c1 # h /\ c2 # h
             /\ c1 # NoPredicate /\ c2 # NoPredicate
             /\ pending' \in Seq(DOMAIN preds) /\ Len(pending') = N + 2
             /\ pending'[1] = c1 /\ pending'[2] = c2
             /\ \A i \in 1 .. N : pending'[i + 2] = pending[i + 1]
             /\ preds' \in Seq(Predicates) /\ DOMAIN preds' = DOMAIN preds
             /\ \A m \in DOMAIN preds : m # h => preds'[m] = preds[m]
             /\ preds'[h].kind = "Destroyed" /\ preds'[h].child = <<>>
<1> DEFINE h == Head(pending)
           N == Len(pending) - 1
           c == preds[h].child
           c1 == c[1]
           c2 == c[2]
<1>1. /\ stage = "splitting" /\ stage' = stage /\ activations' = activations
      /\ condition' = condition /\ folded' = folded /\ pending # <<>>
      /\ pending' = c \o Tail(pending) /\ conditions' = conditions
      /\ preds' = DestroyPredicates(preds, {h}) /\ preds[h].kind = "And"
  BY DEF SplitAnd, foldVars, Untouched
<1>2. PredsOK /\ ActivationsOK /\ StageOK /\ PredicatesOwned
  BY DEF OwnershipInv
<1>3. /\ pending \in Seq(DOMAIN preds) /\ activations = <<>> /\ preds \in Seq(Predicates)
      /\ folded = NoPredicate
  BY <1>1, <1>2 DEF StageOK, PredsOK, ActivationsOK, ActivationsIn
<1>4. /\ h \in DOMAIN preds /\ h = pending[1] /\ N \in Nat /\ Len(pending) = N + 1
      /\ Tail(pending) \in Seq(DOMAIN preds) /\ Len(Tail(pending)) = N
      /\ \A i \in 1 .. N : Tail(pending)[i] = pending[i + 1]
  BY <1>1, <1>3
<1>5. h \in Nat \ {0} /\ \A m \in 1 .. h - 1 : m \in DOMAIN preds
  <2>1. DOMAIN preds = 1 .. Len(preds) /\ Len(preds) \in Nat
    BY <1>3
  <2> HIDE DEF h
  <2> QED
    BY <1>4, <2>1
<1>6. /\ c \in Seq(Nat) /\ Len(c) = 2 /\ DOMAIN c = {1, 2}
      /\ \A k \in DOMAIN c : c[k] \in 1 .. h - 1 /\ c[k] # NoPredicate
  <2>1. c \in Seq(Nat)
    BY <1>3, <1>4, NodeTyped
  <2>2. NodeOK(preds, h) /\ IsWhole(preds, h)
    BY <1>2, <1>3, <1>4 DEF PredsOK
  <2>3. Len(c) = 2
    BY <1>1, <2>2 DEF NodeOK
  <2>4. DOMAIN c = {1, 2}
    BY <2>1, <2>3
  <2>5. \A k \in DOMAIN c : c[k] # NoPredicate
    BY <2>2 DEF IsWhole
  <2>6. \A k \in DOMAIN c : c[k] \in 1 .. h - 1
    BY <2>2, <2>5 DEF NodeOK
  <2> QED
    BY <2>1, <2>3, <2>4, <2>5, <2>6
<1>7. /\ c1 \in DOMAIN preds /\ c2 \in DOMAIN preds /\ c1 # h /\ c2 # h
      /\ c1 # NoPredicate /\ c2 # NoPredicate
  <2>1. c1 \in 1 .. h - 1 /\ c2 \in 1 .. h - 1 /\ c1 # NoPredicate /\ c2 # NoPredicate
    BY <1>6
  <2> HIDE DEF h, c1, c2
  <2> QED
    BY <1>5, <2>1
<1>8. /\ pending' \in Seq(DOMAIN preds) /\ Len(pending') = N + 2
      /\ pending'[1] = c1 /\ pending'[2] = c2
      /\ \A i \in 1 .. N : pending'[i + 2] = pending[i + 1]
  <2> DEFINE t == Tail(pending)
  <2>1. t \in Seq(DOMAIN preds) /\ Len(t) = N /\ pending' = c \o t
    BY <1>1, <1>4
  <2>2. \A i \in 1 .. N : t[i] = pending[i + 1]
    BY <1>4
  <2>3. c \in Seq(Nat) /\ Len(c) = 2 /\ c[1] \in DOMAIN preds /\ c[2] \in DOMAIN preds
    BY <1>6, <1>7
  <2> HIDE DEF t, c, N, h
  <2>4. /\ pending' \in Seq(DOMAIN preds) /\ Len(pending') = Len(t) + 2
        /\ pending'[1] = c[1] /\ pending'[2] = c[2]
        /\ \A i \in 1 .. Len(t) : pending'[i + 2] = t[i]
    <3>1. \A i \in 1 .. Len(c) : c[i] \in DOMAIN preds
      <4>1. \A i \in 1 .. 2 : i = 1 \/ i = 2
        OBVIOUS
      <4> QED
        BY <2>3, <4>1
    <3>2. c \in Seq(DOMAIN preds)
      BY <2>3, <3>1, SequenceOf
    <3>3. InFront(c \o t, c, t, DOMAIN preds)
      BY <2>1, <2>3, <3>2, PairInFront
    <3> QED
      BY <2>1, <3>3 DEF InFront
  <2> QED
    BY <2>1, <2>2, <2>4
<1>9. /\ preds' \in Seq(Predicates) /\ DOMAIN preds' = DOMAIN preds
      /\ \A m \in DOMAIN preds : m # h => preds'[m] = preds[m]
      /\ preds'[h].kind = "Destroyed" /\ preds'[h].child = <<>>
  <2> HIDE DEF h
  <2> QED
    BY <1>1, <1>3, <1>4, DestroyedAre
<1> QED
  BY <1>3, <1>4, <1>5, <1>6, <1>7, <1>8, <1>9

LEMMA SplitAndStep ==
  ASSUME OwnershipInv, SplitAnd
  PROVE  Shapes'
<1> DEFINE h == Head(pending)
           N == Len(pending) - 1
           c == preds[h].child
           c1 == c[1]
           c2 == c[2]
           p1 == <<"pending", N, 0>>
           p2 == <<"pending", N + 1, 0>>
           q1 == <<"child", h, 1>>
           q2 == <<"child", h, 2>>
           M == {p1, p2, q1, q2}
<1>1. /\ stage = "splitting" /\ stage' = stage /\ activations' = activations
      /\ condition' = condition /\ folded' = folded /\ pending # <<>>
      /\ pending' = c \o Tail(pending) /\ conditions' = conditions
      /\ preds' = DestroyPredicates(preds, {h}) /\ preds[h].kind = "And"
  BY DEF SplitAnd, foldVars, Untouched
<1>2. PredsOK /\ ActivationsOK /\ StageOK /\ PredicatesOwned
  BY DEF OwnershipInv
<1>3. /\ pending \in Seq(DOMAIN preds) /\ activations = <<>> /\ preds \in Seq(Predicates)
      /\ folded = NoPredicate
  BY SplitInTwo
<1>4. /\ h \in DOMAIN preds /\ h = pending[1] /\ N \in Nat /\ Len(pending) = N + 1
      /\ Tail(pending) \in Seq(DOMAIN preds) /\ Len(Tail(pending)) = N
      /\ \A i \in 1 .. N : Tail(pending)[i] = pending[i + 1]
  BY SplitInTwo
<1>5. h \in Nat \ {0} /\ \A m \in 1 .. h - 1 : m \in DOMAIN preds
  BY SplitInTwo
<1>6. /\ c \in Seq(Nat) /\ Len(c) = 2 /\ DOMAIN c = {1, 2}
      /\ \A k \in DOMAIN c : c[k] \in 1 .. h - 1 /\ c[k] # NoPredicate
  BY SplitInTwo
<1>7. /\ c1 \in DOMAIN preds /\ c2 \in DOMAIN preds /\ c1 # h /\ c2 # h
      /\ c1 # NoPredicate /\ c2 # NoPredicate
  BY SplitInTwo
<1>8. /\ pending' \in Seq(DOMAIN preds) /\ Len(pending') = N + 2
      /\ pending'[1] = c1 /\ pending'[2] = c2
      /\ \A i \in 1 .. N : pending'[i + 2] = pending[i + 1]
  BY SplitInTwo
<1>9. /\ preds' \in Seq(Predicates) /\ DOMAIN preds' = DOMAIN preds
      /\ \A m \in DOMAIN preds : m # h => preds'[m] = preds[m]
      /\ preds'[h].kind = "Destroyed" /\ preds'[h].child = <<>>
  BY SplitInTwo
<1> HIDE DEF h, N, c, c1, c2
<1>10. \A m \in DOMAIN preds : preds'[m].kind = "Raw" => preds[m].kind = "Raw"
  BY <1>9
<1>11. PredsOK'
  <2>1. ASSUME NEW m \in DOMAIN preds PROVE NodeOK(preds', m) /\ IsWhole(preds', m)
    <3>1. NodeOK(preds, m) /\ IsWhole(preds, m)
      BY <1>2, <1>3 DEF PredsOK
    <3>2. CASE m = h
      BY <1>9, <3>2, DestroyedShape
    <3>3. CASE m # h
      <4>1. preds'[m] = preds[m]
        BY <1>9, <3>3
      <4>2. NodeOK(preds', m)
        BY <1>3, <1>10, <3>1, <4>1, ShapeKept
      <4> QED
        BY <3>1, <4>1, <4>2 DEF IsWhole
    <3> QED
      BY <3>2, <3>3
  <2> QED
    BY <1>9, <2>1 DEF PredsOK
<1>12. ActivationsOK'
  <2>1. <<>> \in Seq(ActivationTypes) /\ DOMAIN <<>> = {}
    OBVIOUS
  <2> QED
    BY <1>1, <1>3, <2>1 DEF ActivationsOK, ActivationsIn
<1>13. StageOK'
  BY <1>1, <1>2, <1>8, <1>9 DEF StageOK
<1>14. PredicatesOwned'
  <2>1. M \in SUBSET Places /\ p1 # p2 /\ q1 # q2 /\ p1 \notin {q1, q2} /\ p2 \notin {q1, q2}
    <3>1. /\ N \in Nat /\ N + 1 \in Nat /\ N # N + 1 /\ h \in Nat
          /\ "child" \in Kinds /\ "pending" \in Kinds
      BY <1>4, <1>5, SomePlaces
    <3> QED
      BY <3>1, SomePlaces
  <2>2. /\ Holding[p1] = h /\ Holding'[p1] = c2
        /\ Holding[p2] = NoPredicate /\ Holding'[p2] = c1
    <3>1. PendingAt(pending, N) = h /\ PendingAt(pending, N + 1) = NoPredicate
      BY <1>4 DEF PendingAt
    <3>2. PendingAt(pending', N) = c2 /\ PendingAt(pending', N + 1) = c1
      BY <1>4, <1>8 DEF PendingAt
    <3>3. N \in Nat /\ N + 1 \in Nat
      BY <1>4
    <3> QED
      BY <3>1, <3>2, <3>3, HoldsNow, HoldsNext
  <2>3. /\ Holding[q1] = c1 /\ Holding'[q1] = NoPredicate
        /\ Holding[q2] = c2 /\ Holding'[q2] = NoPredicate
    <3>1. ChildAt(preds, h, 1) = c1 /\ ChildAt(preds, h, 2) = c2
      BY <1>4, <1>6 DEF ChildAt, c, c1, c2
    <3>2. DOMAIN preds'[h].child = {}
      BY <1>9
    <3>3. ChildAt(preds', h, 1) = NoPredicate /\ ChildAt(preds', h, 2) = NoPredicate
      BY <3>2 DEF ChildAt
    <3>4. h \in Nat /\ 1 \in Nat /\ 2 \in Nat
      BY <1>5
    <3> QED
      BY <3>1, <3>3, <3>4, HoldsNow, HoldsNext
  <2>4. ChildrenAlone(M, {})
    <3>1. ASSUME NEW i \in Nat, NEW k \in Nat, <<"child", i, k>> \notin M
          PROVE  ChildAt(preds', i, k) = ChildAt(preds, i, k)
      <4>1. CASE i # h
        BY <1>9, <4>1 DEF ChildAt
      <4>2. CASE i = h
        <5>1. k \notin DOMAIN preds[h].child
          BY <1>6, <3>1, <4>2 DEF c
        <5>2. DOMAIN preds'[h].child = {}
          BY <1>9
        <5> QED
          BY <4>2, <5>1, <5>2 DEF ChildAt
      <4> QED
        BY <4>1, <4>2
    <3> QED
      BY <3>1 DEF ChildrenAlone
  <2>5. LocalsAlone(M) /\ ResultsAlone(M)
    BY <1>1 DEF LocalsAlone, ResultsAlone
  <2>6. StatementAlone(M)
    <3>1. ASSUME NEW i \in Nat, i # N, i # N + 1
          PROVE  PendingAt(pending', i) = PendingAt(pending, i)
      <4>1. CASE i < N
        <5>1. /\ N - i \in 1 .. N /\ (N - i) + 2 = Len(pending') - i
              /\ (N - i) + 1 = Len(pending) - i
          BY <1>4, <1>8, <4>1
        <5> QED
          BY <1>4, <1>8, <4>1, <5>1 DEF PendingAt
      <4>2. CASE i > N + 1
        BY <1>4, <1>8, <4>2 DEF PendingAt
      <4> QED
        BY <1>4, <3>1, <4>1, <4>2
    <3> QED
      BY <1>1, <3>1 DEF StatementAlone
  <2>7. \A p \in Places : p \in M \/ Holding'[p] = Holding[p]
    <3> HIDE DEF M
    <3>1. \A p \in Places : \/ p \in M \/ Holding'[p] = Holding[p]
                            \/ Holding'[p] = NoPredicate /\ Holding[p] \in {}
      BY <2>4, <2>5, <2>6, RestAlone
    <3> QED
      BY <3>1
  <2>8. c1 # c2
    <3>1. q1 \in Places /\ q2 \in Places
      BY <2>1
    <3> HIDE DEF q1, q2
    <3> QED
      BY <1>2, <1>7, <2>1, <2>3, <3>1, OneHolder
  <2> HIDE DEF p1, p2, q1, q2
  <2>9. Exchanged(Holding, Holding', M, {h}, {})
    BY <1>7, <2>1, <2>2, <2>3, <2>7, <2>8 DEF Exchanged
  <2>10. h \in LiveNodes /\ LiveNodes' = (LiveNodes \ {h}) \cup {}
    BY <1>1, <1>4, <1>9 DEF LiveNodes, h
  <2>11. Owned(Holding, LiveNodes) /\ Holding' \in [Places -> {Holding'[p] : p \in Places}]
    BY <1>2, OneHolder DEF PredicatesOwned
  <2> HIDE DEF M
  <2>12. Owned(Holding', (LiveNodes \ {h}) \cup {})
    BY <2>1, <2>9, <2>10, <2>11, ExchangeOwned
  <2> QED
    BY <2>10, <2>12 DEF PredicatesOwned
<1> QED
  BY <1>11, <1>12, <1>13, <1>14 DEF Shapes

-----------------------------------------------------------------------------
(* The invariant holds at the start ... *)
LEMMA ConditionShape ==
  ASSUME NEW p \in Seq(Predicates), NEW root, IsCondition(p, root)
  PROVE  /\ root = Len(p) /\ DOMAIN p = 1 .. Len(p) /\ Len(p) \in Nat
         /\ \A n \in DOMAIN p :
              NodeOK(p, n) /\ IsWhole(p, n) /\ p[n].kind \in {"Leaf", "And", "Or", "Not"}
<1>1. /\ root = Len(p) /\ DOMAIN p = 1 .. Len(p) /\ Len(p) \in Nat
      /\ \A n \in DOMAIN p : p[n].kind \in {"Leaf", "And", "Or", "Not"}
  BY DEF IsCondition
<1>2. ASSUME NEW n \in DOMAIN p PROVE NodeOK(p, n) /\ IsWhole(p, n)
  <2>1. /\ \/ p[n].kind = "Leaf" /\ Len(p[n].operand) = 2 /\ p[n].child = <<>>
           \/ p[n].kind \in {"And", "Or"} /\ Len(p[n].child) = 2
           \/ p[n].kind = "Not" /\ Len(p[n].child) = 1
        /\ \A k \in DOMAIN p[n].child : p[n].child[k] \in 1 .. n - 1
    BY DEF IsCondition
  <2>2. \A m \in 1 .. n - 1 : m \in DOMAIN p /\ m # NoPredicate
    BY <1>1 DEF NoPredicate
  <2>3. \A k \in DOMAIN p[n].child :
          p[n].child[k] # NoPredicate /\ p[p[n].child[k]].kind # "Raw"
    BY <1>1, <2>1, <2>2
  <2>4. Len(<<>>) = 0
    OBVIOUS
  <2>5. p[n].child = <<>> => Len(p[n].child) = 0
    BY <2>4
  <2> QED
    BY <2>1, <2>3, <2>5 DEF NodeOK, IsWhole
<1> QED
  BY <1>1, <1>2

LEMMA StartTyped ==
  ASSUME PreprocessInit
  PROVE  ListsOK /\ preds \in Seq(Predicates) /\ IsCondition(preds, condition)
<1>1. query \in SelectQueries /\ IsCondition(query.preds, query.root)
  BY QueriesAssumption DEF PreprocessInit
<1>2. /\ query.relations \in Seq(STRING) /\ query.attributes \in Seq(AttributeNames)
      /\ query.preds \in Seq(Predicates)
  BY <1>1 DEF SelectQueries
<1>3. TypeOK
  <2>1. schema_ = <<>> /\ rel_map_ = EmptyMap /\ attr_map_ = EmptyMap /\ mapped = 0
    BY DEF PreprocessInit
  <2>2. <<>> \in Seq(SchemaItems) /\ 0 \in 0 .. Len(<<>>)
    OBVIOUS
  <2> QED
    BY <2>1, <2>2 DEF TypeOK, NestedMap, EmptyMap
<1>4. /\ relations = query.relations /\ items = <<>> /\ attributes = query.attributes
      /\ printed = <<>> /\ resolved = 0 /\ preds = query.preds /\ condition = query.root
  BY DEF PreprocessInit
<1>5. items \in Seq(SchemaItems) /\ printed \in Seq(AttributeNames) /\ resolved \in Nat
  BY <1>4
<1> QED
  BY <1>1, <1>2, <1>3, <1>4, <1>5 DEF ListsOK

LEMMA StartOwned ==
  ASSUME PreprocessInit
  PROVE  PredicatesOwned
<1>1. preds \in Seq(Predicates) /\ IsCondition(preds, condition)
  BY StartTyped
<1>2. /\ condition = Len(preds) /\ DOMAIN preds = 1 .. Len(preds) /\ Len(preds) \in Nat
      /\ \A n \in DOMAIN preds : preds[n].kind \in {"Leaf", "And", "Or", "Not"}
  BY <1>1, ConditionShape
<1>3. /\ activations = <<>> /\ folded = NoPredicate /\ pending = <<>> /\ conditions = <<>>
  BY DEF PreprocessInit
<1>4. LiveNodes = DOMAIN preds /\ NoPredicate \notin LiveNodes
  BY <1>2 DEF LiveNodes, NoPredicate
<1> DEFINE pq == <<"query", 0, 0>>
<1>5. ASSUME NEW p \in Places
      PROVE  \/ p = pq
             \/ Holding[p] = NoPredicate
             \/ \E m \in DOMAIN preds : \E k \in DOMAIN preds[m].child :
                  /\ p = <<"child", m, k>> /\ Holding[p] = preds[m].child[k]
  <2>1. PICK s \in Kinds, i \in Nat, k \in Nat : p = <<s, i, k>>
    BY PlaceIs
  <2>2. CASE s = "child"
    <3>1. Holding[p] = ChildAt(preds, i, k)
      BY <2>1, <2>2, HoldsNow
    <3> QED
      BY <2>1, <2>2, <3>1 DEF ChildAt
  <2>3. CASE s # "child" /\ k # 0
    BY <2>1, <2>3, HoldsNow
  <2>4. CASE s \in {"node", "lch", "pending", "statement"} /\ k = 0
    <3>1. /\ NodeAt(activations, i) = NoPredicate /\ LchAt(activations, i) = NoPredicate
          /\ PendingAt(pending, i) = NoPredicate /\ StatementAt(conditions, i) = NoPredicate
      BY <1>3, <2>1 DEF NodeAt, LchAt, PendingAt, StatementAt
    <3> QED
      BY <2>1, <2>4, <3>1, HoldsNow
  <2>5. CASE s \in {"query", "returned"} /\ k = 0 /\ i # 0
    BY <2>1, <2>5, HoldsNow
  <2>6. CASE s = "query" /\ k = 0 /\ i = 0
    BY <2>1, <2>6
  <2>7. CASE s = "returned" /\ k = 0 /\ i = 0
    BY <1>3, <2>1, <2>7, HoldsNow
  <2> QED
    BY <2>1, <2>2, <2>3, <2>4, <2>5, <2>6, <2>7, SomePlaces
<1>6. Holding[pq] = condition /\ pq \in Places
  BY HoldsNow, SomePlaces
<1>7. \A m \in DOMAIN preds : \A k \in DOMAIN preds[m].child :
        preds[m].child[k] \in 1 .. m - 1
  BY <1>1 DEF IsCondition
<1>8. \A m \in DOMAIN preds : \A k \in DOMAIN preds[m].child :
        /\ preds[m].child[k] \in DOMAIN preds /\ preds[m].child[k] # condition
        /\ <<"child", m, k>> \in Places
        /\ Holding[<<"child", m, k>>] = preds[m].child[k]
  <2> SUFFICES ASSUME NEW m \in DOMAIN preds, NEW k \in DOMAIN preds[m].child
               PROVE  /\ preds[m].child[k] \in DOMAIN preds /\ preds[m].child[k] # condition
                      /\ <<"child", m, k>> \in Places
                      /\ Holding[<<"child", m, k>>] = preds[m].child[k]
    OBVIOUS
  <2>1. preds[m].child[k] \in 1 .. m - 1 /\ m \in 1 .. Len(preds)
    BY <1>2, <1>7
  <2>2. preds[m].child[k] \in DOMAIN preds /\ preds[m].child[k] # condition
    BY <1>2, <2>1
  <2>3. m \in Nat /\ k \in Nat
    <3>1. preds[m] \in Predicates
      BY <1>1
    <3>2. preds[m].child \in Seq(Nat)
      BY <3>1, NodeTyped
    <3> QED
      BY <1>2, <3>2
  <2>4. Holding[<<"child", m, k>>] = ChildAt(preds, m, k)
    BY <2>3, HoldsNow
  <2>5. "child" \in Kinds
    BY SomePlaces
  <2>6. <<"child", m, k>> \in Places
    BY <2>3, <2>5, SomePlaces
  <2> QED
    BY <2>2, <2>4, <2>6 DEF ChildAt
<1> HIDE DEF pq
<1>9. \A p \in Places : Holding[p] \in {NoPredicate} \cup LiveNodes
  <2>1. condition \in {NoPredicate} \cup LiveNodes
    BY <1>2, <1>4 DEF NoPredicate
  <2> QED
    BY <1>4, <1>5, <1>6, <1>8, <2>1
<1>10. ASSUME NEW p \in Places, NEW q \in Places, Holding[p] # NoPredicate, Holding[p] = Holding[q]
       PROVE  p = q
  <2>1. \A m, n \in DOMAIN preds : \A j \in DOMAIN preds[m].child, k \in DOMAIN preds[n].child :
          preds[m].child[j] = preds[n].child[k] => m = n /\ j = k
    BY <1>1 DEF IsCondition
  <2> QED
    BY <1>5, <1>6, <1>8, <1>10, <2>1
<1>11. ASSUME NEW n \in LiveNodes PROVE \E p \in Places : Holding[p] = n
  <2>1. CASE n = condition
    BY <1>6, <2>1
  <2>2. CASE n # condition
    <3>1. n \in 1 .. condition - 1
      BY <1>2, <1>4, <2>2
    <3>2. \E m \in DOMAIN preds : \E k \in DOMAIN preds[m].child : preds[m].child[k] = n
      BY <1>1, <3>1 DEF IsCondition
    <3> QED
      BY <1>8, <3>2
  <2> QED
    BY <2>1, <2>2
<1>12. Holding \in [Places -> {NoPredicate} \cup LiveNodes]
  <2>1. Holding \in [Places -> {Holding[q] : q \in Places}]
    BY DEF Holding, HoldingOf
  <2> HIDE DEF Holding
  <2> QED
    BY <1>9, <2>1
<1> QED
  BY <1>4, <1>10, <1>11, <1>12 DEF PredicatesOwned, Owned

LEMMA OwnershipStarts == PreprocessInit => OwnershipInv
<1> SUFFICES ASSUME PreprocessInit PROVE OwnershipInv
  OBVIOUS
<1>1. ListsOK /\ preds \in Seq(Predicates) /\ IsCondition(preds, condition)
  BY StartTyped
<1>2. /\ condition = Len(preds) /\ DOMAIN preds = 1 .. Len(preds) /\ Len(preds) \in Nat
      /\ \A n \in DOMAIN preds : NodeOK(preds, n) /\ IsWhole(preds, n)
      /\ \A n \in DOMAIN preds : preds[n].kind \in {"Leaf", "And", "Or", "Not"}
  BY <1>1, ConditionShape
<1>3. /\ activations = <<>> /\ folded = NoPredicate /\ pending = <<>> /\ conditions = <<>>
      /\ stage = "relations"
  BY DEF PreprocessInit
<1>4. PredsOK
  BY <1>1, <1>2 DEF PredsOK
<1>5. ActivationsOK
  <2>1. <<>> \in Seq(ActivationTypes) /\ DOMAIN <<>> = {}
    OBVIOUS
  <2> QED
    BY <1>3, <2>1 DEF ActivationsOK, ActivationsIn
<1>6. StageOK
  <2>1. condition \in {NoPredicate} \cup DOMAIN preds
    BY <1>2 DEF NoPredicate
  <2>2. <<>> \in Seq(DOMAIN preds)
    OBVIOUS
  <2>3. \A n \in DOMAIN preds : preds[n].kind # "Destroyed"
    BY <1>2
  <2>4. stage \in Stages
    BY <1>3 DEF Stages
  <2> QED
    BY <1>3, <2>1, <2>2, <2>3, <2>4 DEF StageOK
<1> QED
  BY <1>1, <1>4, <1>5, <1>6, StartOwned DEF OwnershipInv

(* ... and every step keeps the lists typed ... *)
listVars == <<query, relations, items, schemaVars, attributes, resolved, printed>>

LEMMA QuietLists ==
  ASSUME ListsOK, UNCHANGED listVars
  PROVE  ListsOK'
<1>1. /\ schema_' = schema_ /\ rel_map_' = rel_map_ /\ attr_map_' = attr_map_
      /\ mapped' = mapped
  BY DEF listVars, schemaVars
<1>2. TypeOK'
  BY <1>1 DEF ListsOK, TypeOK, Positions
<1> QED
  BY <1>2 DEF ListsOK, listVars

LEMMA ItemNames ==
  ASSUME NEW it \in SchemaItems
  PROVE  Attribute(it.relation_, it.attribute_) \in AttributeNames
<1>1. it \in [relation_ : STRING, attribute_ : STRING, type_ : STRING]
  BY SchemaItemsAssumption
<1>2. it.relation_ \in STRING /\ it.attribute_ \in STRING
  BY <1>1
<1> QED
  BY <1>2 DEF Attribute, AttributeNames

LEMMA ListsStep ==
  ASSUME OwnershipInv, PreprocessNext
  PROVE  ListsOK'
<1>0. ListsOK
  BY DEF OwnershipInv
<1>1. ASSUME NEW error, Fail(error) PROVE ListsOK'
  BY <1>0, <1>1, QuietLists DEF Fail, listVars, queryVars
<1>2. CASE UnknownRelation \/ QualifiedStar \/ AttributeFails \/ LeafFails
  BY <1>1, <1>2 DEF UnknownRelation, QualifiedStar, AttributeFails, LeafFails
<1>3. CASE NextRelation
  <2>1. /\ query' = query /\ relations' = Tail(relations) /\ items' = Catalog[Head(relations)]
        /\ UNCHANGED schemaVars /\ attributes' = attributes /\ resolved' = resolved
        /\ printed' = printed /\ relations # <<>> /\ Head(relations) \in DOMAIN Catalog
    BY <1>3 DEF NextRelation, queryVars
  <2>2. TypeOK'
    BY <1>0, <2>1 DEF ListsOK, TypeOK, Positions, schemaVars
  <2>3. relations' \in Seq(STRING)
    BY <1>0, <2>1 DEF ListsOK
  <2>4. items' \in Seq(SchemaItems)
    BY <2>1, CatalogAssumption
  <2> QED
    BY <1>0, <2>1, <2>2, <2>3, <2>4 DEF ListsOK
<1>4. CASE AppendItem
  <2>1. /\ query' = query /\ relations' = relations /\ items' = Tail(items) /\ items # <<>>
        /\ append_schema(Head(items)) /\ attributes' = attributes /\ resolved' = resolved
        /\ printed' = printed
    BY <1>4 DEF AppendItem, queryVars
  <2>2. Head(items) \in SchemaItems /\ items' \in Seq(SchemaItems)
    BY <1>0, <2>1 DEF ListsOK
  <2>3. TypeOK'
    BY <1>0, <2>1, <2>2, AppendTyped DEF ListsOK
  <2> QED
    BY <1>0, <2>1, <2>2, <2>3 DEF ListsOK
<1>5. CASE ExpandStar
  <2>1. /\ query' = query /\ relations' = relations /\ items' = items
        /\ UNCHANGED schemaVars /\ printed' = printed
        /\ attributes' = [i \in DOMAIN schema_ |->
                            Attribute(schema_[i].relation_, schema_[i].attribute_)]
        /\ resolved' = Len(schema_)
    BY <1>5 DEF ExpandStar
  <2>2. schema_ \in Seq(SchemaItems)
    BY <1>0 DEF ListsOK, TypeOK
  <2>3. resolved' \in Nat
    BY <2>1, <2>2
  <2>4. attributes' \in Seq(AttributeNames)
    <3>1. \A i \in DOMAIN schema_ :
            Attribute(schema_[i].relation_, schema_[i].attribute_) \in AttributeNames
      BY <2>2, ItemNames
    <3>2. DOMAIN schema_ = 1 .. Len(schema_) /\ Len(schema_) \in Nat
      BY <2>2
    <3> DEFINE f(i) == Attribute(schema_[i].relation_, schema_[i].attribute_)
    <3>3. attributes' = [i \in 1 .. Len(schema_) |-> f(i)]
      BY <2>1, <3>2
    <3>4. \A i \in 1 .. Len(schema_) : f(i) \in AttributeNames
      BY <3>1, <3>2
    <3> HIDE DEF f
    <3> QED
      BY <3>2, <3>3, <3>4
  <2>5. TypeOK'
    BY <1>0, <2>1 DEF ListsOK, TypeOK, Positions, schemaVars
  <2> QED
    BY <1>0, <2>1, <2>3, <2>4, <2>5 DEF ListsOK
<1>6. CASE ResolveAttribute
  <2>1. /\ query' = query /\ relations' = relations /\ items' = items
        /\ UNCHANGED schemaVars /\ printed' = printed
        /\ attributes' = [attributes EXCEPT ![resolved + 1] = resolve_attribute_item(@)]
        /\ resolved' = resolved + 1 /\ resolved < Len(attributes)
    BY <1>6 DEF ResolveAttribute
  <2>2. attributes \in Seq(AttributeNames) /\ resolved + 1 \in DOMAIN attributes
    BY <1>0, <2>1 DEF ListsOK
  <2>3. resolve_attribute_item(attributes[resolved + 1]) \in AttributeNames
    BY <1>0, <2>2, AttributeTyped DEF ListsOK
  <2>4. attributes' \in Seq(AttributeNames)
    <3> DEFINE n == resolved + 1
               v == resolve_attribute_item(attributes[n])
    <3>1. attributes' = [attributes EXCEPT ![n] = v]
      BY <2>1
    <3>2. n \in DOMAIN attributes /\ v \in AttributeNames
      BY <2>2, <2>3
    <3> HIDE DEF n, v
    <3> QED
      BY <2>2, <3>1, <3>2
  <2>5. TypeOK'
    BY <1>0, <2>1 DEF ListsOK, TypeOK, Positions, schemaVars
  <2>6. resolved' \in Nat
    BY <1>0, <2>1 DEF ListsOK
  <2> QED
    BY <1>0, <2>1, <2>4, <2>5, <2>6 DEF ListsOK
<1>7. CASE AttributesResolved
  <2>1. /\ query' = query /\ relations' = relations /\ items' = items
        /\ UNCHANGED schemaVars /\ attributes' = attributes /\ printed' = attributes
        /\ resolved' = 0
    BY <1>7 DEF AttributesResolved
  <2>2. TypeOK'
    BY <1>0, <2>1 DEF ListsOK, TypeOK, Positions, schemaVars
  <2> QED
    BY <1>0, <2>1, <2>2 DEF ListsOK
<1>8. CASE ResolveLeaf
  <2>1. /\ query' = query /\ relations' = relations /\ items' = items
        /\ UNCHANGED schemaVars /\ attributes' = attributes /\ printed' = printed
        /\ resolved' = resolved + 1
    BY <1>8 DEF ResolveLeaf
  <2>2. TypeOK'
    BY <1>0, <2>1 DEF ListsOK, TypeOK, Positions, schemaVars
  <2>3. resolved' \in Nat
    BY <1>0, <2>1 DEF ListsOK
  <2> QED
    BY <1>0, <2>1, <2>2, <2>3 DEF ListsOK
<1>9. CASE RelationsResolved \/ LeavesResolved
  <2>1. UNCHANGED listVars
    BY <1>9 DEF RelationsResolved, LeavesResolved, listVars, queryVars
  <2> QED
    BY <1>0, <2>1, QuietLists
<1>10. ASSUME Untouched PROVE ListsOK'
  <2>1. UNCHANGED listVars
    BY <1>10 DEF Untouched, listVars
  <2> QED
    BY <1>0, <2>1, QuietLists
<1>11. CASE FoldNothing \/ FoldConstant \/ FoldBinary \/ FoldNotConstant \/ FoldNot
  <2>1. Untouched
    BY <1>11 DEF FoldNothing, FoldConstant, FoldBinary, FoldNotConstant, FoldNot, FoldReturn
  <2> QED
    BY <1>10, <2>1
<1>12. CASE FoldSimpleLeaf
  <2>1. Untouched \/ Fail("logic_error")
    BY <1>12 DEF FoldSimpleLeaf, FoldReturn
  <2> QED
    BY <1>1, <1>10, <2>1
<1>13. CASE FoldFirst \/ FoldSecond
  BY <1>10, <1>13 DEF FoldFirst, FoldSecond, FoldChild
<1>14. CASE SplitAnd \/ StatementBuilt
  BY <1>10, <1>14 DEF SplitAnd, StatementBuilt
<1>15. CASE SplitOther
  <2>1. UNCHANGED listVars
    BY <1>15 DEF SplitOther, listVars, queryVars
  <2> QED
    BY <1>0, <2>1, QuietLists
<1> QED
  BY <1>2, <1>3, <1>4, <1>5, <1>6, <1>7, <1>8, <1>9, <1>11, <1>12, <1>13, <1>14, <1>15
     DEF PreprocessNext

(* ... and the predicates owned. *)
LEMMA OwnershipStep ==
  ASSUME OwnershipInv, [PreprocessNext]_preprocessVars
  PROVE  OwnershipInv'
<1>1. ASSUME Shapes', ListsOK' PROVE OwnershipInv'
  BY <1>1 DEF Shapes, OwnershipInv
<1>2. CASE UNCHANGED preprocessVars
  <2>1. UNCHANGED listVars /\ UNCHANGED foldedVars /\ stage' = stage
    BY <1>2 DEF preprocessVars, listVars, foldedVars, queryVars
  <2>2. ListsOK'
    BY <2>1, QuietLists DEF OwnershipInv
  <2> QED
    BY <1>1, <2>1, <2>2, QuietStep
<1>3. CASE PreprocessNext
  <2>0. ListsOK'
    BY <1>3, ListsStep
  <2>1. CASE UnknownRelation \/ QualifiedStar \/ AttributeFails \/ LeafFails
    <3>1. \E error \in Ends : Fail(error)
      BY <2>1 DEF UnknownRelation, QualifiedStar, AttributeFails, LeafFails, Ends
    <3> QED
      BY <1>1, <2>0, <3>1, FailStep
  <2>2. CASE NextRelation \/ AppendItem \/ RelationsResolved \/ ExpandStar \/ ResolveAttribute
    <3>1. UNCHANGED foldedVars /\ (stage' = stage \/ (stage = "relations" /\ stage' = "attributes"))
      BY <2>2 DEF NextRelation, AppendItem, RelationsResolved, ExpandStar, ResolveAttribute,
                  foldedVars, queryVars
    <3> QED
      BY <1>1, <2>0, <3>1, QuietStep
  <2>3. CASE AttributesResolved \/ ResolveLeaf \/ LeavesResolved
    BY <1>1, <2>0, <2>3, AttributesResolvedStep, ResolveLeafStep, LeavesResolvedStep
  <2>4. CASE FoldNothing \/ FoldSimpleLeaf \/ FoldFirst \/ FoldSecond
    BY <1>1, <2>0, <2>4, FoldNothingStep, FoldSimpleLeafStep, FoldFirstStep, FoldSecondStep
  <2>5. CASE FoldConstant \/ FoldBinary \/ FoldNotConstant \/ FoldNot
    BY <1>1, <2>0, <2>5, FoldConstantStep, FoldBinaryStep, FoldNotConstantStep, FoldNotStep
  <2>6. CASE SplitAnd \/ SplitOther \/ StatementBuilt
    BY <1>1, <2>0, <2>6, SplitAndStep, SplitOtherStep, StatementBuiltStep
  <2> QED
    BY <1>3, <2>1, <2>2, <2>3, <2>4, <2>5, <2>6 DEF PreprocessNext
<1> QED
  BY <1>2, <1>3

(***************************************************************************)
(* While a query is resolved, folded and split, every predicate stays in   *)
(* exactly one place: no pointer is held twice and none is lost.           *)
(***************************************************************************)
THEOREM OwnershipInvariance == PreprocessSpec => []OwnershipInv
  BY OwnershipStarts, OwnershipStep, PTL DEF PreprocessSpec

-----------------------------------------------------------------------------
(* Owners *)

\* PredicateOwners, one kind after the other.
OwnsIt(o, n) ==
  \/ \E m \in DOMAIN preds : \E k \in DOMAIN preds[m].child :
       preds[m].child[k] = n /\ o = <<"child", m, k>>
  \/ \E i \in DOMAIN activations : activations[i].node = n /\ o = <<"node", i, 0>>
  \/ \E i \in DOMAIN activations : activations[i].lch = n /\ o = <<"lch", i, 0>>
  \/ \E i \in DOMAIN pending : pending[i] = n /\ o = <<"pending", i, 0>>
  \/ \E i \in DOMAIN conditions : conditions[i] = n /\ o = <<"statement", i, 0>>
  \/ condition = n /\ o = <<"query", 0, 0>>
  \/ folded = n /\ o = <<"returned", 0, 0>>

LEMMA OwnersListed ==
  ASSUME NEW n, NEW o
  PROVE  o \in PredicateOwners(n) <=> OwnsIt(o, n)
<1>1. o \in UNION {{<<"child", m, k>> :
                      k \in {j \in DOMAIN preds[m].child : preds[m].child[j] = n}} :
                     m \in DOMAIN preds}
      <=> \E m \in DOMAIN preds : \E k \in DOMAIN preds[m].child :
            preds[m].child[k] = n /\ o = <<"child", m, k>>
  OBVIOUS
<1>2. o \in {<<"query", 0, 0>> : x \in {p \in {condition} : p = n}}
      <=> condition = n /\ o = <<"query", 0, 0>>
  OBVIOUS
<1>3. o \in {<<"returned", 0, 0>> : x \in {p \in {folded} : p = n}}
      <=> folded = n /\ o = <<"returned", 0, 0>>
  OBVIOUS
<1> QED
  BY <1>1, <1>2, <1>3 DEF PredicateOwners, OwnsIt

\* The pending pointers are counted from the front there.
Holder(p) == IF p[1] = "pending" THEN <<"pending", Len(pending) - p[2], 0>> ELSE p

LEMMA OwnersAre ==
  ASSUME OwnershipInv, NEW n \in DOMAIN preds
  PROVE  /\ \A o \in PredicateOwners(n) : \E p \in Places : Holding[p] = n /\ o = Holder(p)
         /\ \A p \in Places : Holding[p] = n => Holder(p) \in PredicateOwners(n)
<1>0. /\ n # NoPredicate /\ DOMAIN preds \subseteq Nat
      /\ \A m \in DOMAIN preds : DOMAIN preds[m].child \subseteq Nat
      /\ DOMAIN activations \subseteq Nat /\ DOMAIN conditions \subseteq Nat
      /\ DOMAIN pending = 1 .. Len(pending) /\ Len(pending) \in Nat
  <2>1. /\ preds \in Seq(Predicates)
        /\ pending \in Seq(DOMAIN preds) /\ conditions \in Seq(DOMAIN preds)
        /\ activations \in Seq(ActivationTypes)
    BY DEF OwnershipInv, PredsOK, StageOK, ActivationsOK, ActivationsIn
  <2>2. ASSUME NEW m \in DOMAIN preds PROVE DOMAIN preds[m].child \subseteq Nat
    <3>1. preds[m] \in Predicates
      BY <2>1
    <3>2. preds[m].child \in Seq(Nat)
      BY <3>1, NodeTyped
    <3> QED
      BY <3>2
  <2> QED
    BY <2>1, <2>2 DEF NoPredicate
<1>1. ASSUME NEW o \in PredicateOwners(n)
      PROVE  \E p \in Places : Holding[p] = n /\ o = Holder(p)
  <2>1. OwnsIt(o, n)
    BY OwnersListed
  <2>2. ASSUME NEW s \in Kinds \ {"pending"}, NEW i \in Nat, NEW k \in Nat, o = <<s, i, k>>,
               Holding[<<s, i, k>>] = n
        PROVE  \E p \in Places : Holding[p] = n /\ o = Holder(p)
    <3>1. o \in Places /\ Holder(o) = o
      BY <2>2, SomePlaces DEF Holder
    <3> QED
      BY <2>2, <3>1
  <2>3. CASE \E m \in DOMAIN preds : \E k \in DOMAIN preds[m].child :
               preds[m].child[k] = n /\ o = <<"child", m, k>>
    <3>1. PICK m \in DOMAIN preds, k \in Nat :
            k \in DOMAIN preds[m].child /\ preds[m].child[k] = n /\ o = <<"child", m, k>>
      BY <1>0, <2>3
    <3>2. m \in Nat /\ Holding[<<"child", m, k>>] = n
      BY <1>0, <3>1, HoldsNow DEF ChildAt
    <3> QED
      BY <2>2, <3>1, <3>2, SomePlaces
  <2>4. CASE \E i \in DOMAIN activations : activations[i].node = n /\ o = <<"node", i, 0>>
    <3>1. PICK i \in DOMAIN activations : activations[i].node = n /\ o = <<"node", i, 0>>
      BY <2>4
    <3>2. i \in Nat /\ Holding[<<"node", i, 0>>] = n
      BY <1>0, <3>1, HoldsNow DEF NodeAt
    <3> QED
      BY <2>2, <3>1, <3>2, SomePlaces
  <2>5. CASE \E i \in DOMAIN activations : activations[i].lch = n /\ o = <<"lch", i, 0>>
    <3>1. PICK i \in DOMAIN activations : activations[i].lch = n /\ o = <<"lch", i, 0>>
      BY <2>5
    <3>2. i \in Nat /\ Holding[<<"lch", i, 0>>] = n
      BY <1>0, <3>1, HoldsNow DEF LchAt
    <3> QED
      BY <2>2, <3>1, <3>2, SomePlaces
  <2>6. CASE \E i \in DOMAIN pending : pending[i] = n /\ o = <<"pending", i, 0>>
    <3>1. PICK i \in DOMAIN pending : pending[i] = n /\ o = <<"pending", i, 0>>
      BY <2>6
    <3>2. PICK j \in Nat : j < Len(pending) /\ Len(pending) - j = i
      <4>1. Len(pending) - i \in Nat /\ Len(pending) - i < Len(pending)
            /\ Len(pending) - (Len(pending) - i) = i
        BY <1>0, <3>1
      <4> QED
        BY <4>1
    <3>3. PendingAt(pending, j) = n
      BY <3>1, <3>2 DEF PendingAt
    <3>4. Holding[<<"pending", j, 0>>] = n
      BY <3>3, HoldsNow
    <3>5. <<"pending", j, 0>> \in Places /\ Holder(<<"pending", j, 0>>) = o
      BY <3>1, <3>2, SomePlaces DEF Holder
    <3> QED
      BY <3>4, <3>5
  <2>7. CASE \E i \in DOMAIN conditions : conditions[i] = n /\ o = <<"statement", i, 0>>
    <3>1. PICK i \in DOMAIN conditions : conditions[i] = n /\ o = <<"statement", i, 0>>
      BY <2>7
    <3>2. i \in Nat /\ Holding[<<"statement", i, 0>>] = n
      BY <1>0, <3>1, HoldsNow DEF StatementAt
    <3> QED
      BY <2>2, <3>1, <3>2, SomePlaces
  <2>8. CASE condition = n /\ o = <<"query", 0, 0>>
    BY <2>2, <2>8, HoldsNow, SomePlaces
  <2>9. CASE folded = n /\ o = <<"returned", 0, 0>>
    BY <2>2, <2>9, HoldsNow, SomePlaces
  <2> QED
    BY <2>1, <2>3, <2>4, <2>5, <2>6, <2>7, <2>8, <2>9 DEF OwnsIt
<1>2. ASSUME NEW p \in Places, Holding[p] = n
      PROVE  Holder(p) \in PredicateOwners(n)
  <2>1. PICK s \in Kinds, i \in Nat, k \in Nat : p = <<s, i, k>>
    BY PlaceIs
  <2>2. s # "pending" => Holder(p) = p
    BY <2>1 DEF Holder
  <2>3. CASE s = "child"
    <3>1. ChildAt(preds, i, k) = n
      BY <1>2, <2>1, <2>3, HoldsNow
    <3>2. i \in DOMAIN preds /\ k \in DOMAIN preds[i].child /\ preds[i].child[k] = n
      BY <1>0, <3>1 DEF ChildAt
    <3>3. OwnsIt(p, n)
      BY <2>1, <2>3, <3>2 DEF OwnsIt
    <3> QED
      BY <2>2, <2>3, <3>3, OwnersListed
  <2>4. CASE s # "child" /\ k # 0
    BY <1>0, <1>2, <2>1, <2>4, HoldsNow
  <2>5. CASE s = "node" /\ k = 0
    <3>1. NodeAt(activations, i) = n
      BY <1>2, <2>1, <2>5, HoldsNow
    <3>2. i \in DOMAIN activations /\ activations[i].node = n
      BY <1>0, <3>1 DEF NodeAt
    <3>3. OwnsIt(p, n)
      BY <2>1, <2>5, <3>2 DEF OwnsIt
    <3> QED
      BY <2>2, <2>5, <3>3, OwnersListed
  <2>6. CASE s = "lch" /\ k = 0
    <3>1. LchAt(activations, i) = n
      BY <1>2, <2>1, <2>6, HoldsNow
    <3>2. i \in DOMAIN activations /\ activations[i].lch = n
      BY <1>0, <3>1 DEF LchAt
    <3>3. OwnsIt(p, n)
      BY <2>1, <2>6, <3>2 DEF OwnsIt
    <3> QED
      BY <2>2, <2>6, <3>3, OwnersListed
  <2>7. CASE s = "pending" /\ k = 0
    <3>1. PendingAt(pending, i) = n
      BY <1>2, <2>1, <2>7, HoldsNow
    <3>2. i < Len(pending) /\ pending[Len(pending) - i] = n
      BY <1>0, <3>1 DEF PendingAt
    <3>3. Len(pending) - i \in DOMAIN pending
      BY <1>0, <2>1, <3>2
    <3>4. Holder(p) = <<"pending", Len(pending) - i, 0>>
      BY <2>1, <2>7 DEF Holder
    <3>5. OwnsIt(Holder(p), n)
      BY <3>2, <3>3, <3>4 DEF OwnsIt
    <3> QED
      BY <3>5, OwnersListed
  <2>8. CASE s = "statement" /\ k = 0
    <3>1. StatementAt(conditions, i) = n
      BY <1>2, <2>1, <2>8, HoldsNow
    <3>2. i \in DOMAIN conditions /\ conditions[i] = n
      BY <1>0, <3>1 DEF StatementAt
    <3>3. OwnsIt(p, n)
      BY <2>1, <2>8, <3>2 DEF OwnsIt
    <3> QED
      BY <2>2, <2>8, <3>3, OwnersListed
  <2>9. CASE s \in {"query", "returned"} /\ k = 0 /\ i # 0
    BY <1>0, <1>2, <2>1, <2>9, HoldsNow
  <2>10. CASE s \in {"query", "returned"} /\ k = 0 /\ i = 0
    <3>1. OwnsIt(p, n)
      BY <1>2, <2>1, <2>10, HoldsNow DEF OwnsIt
    <3> QED
      BY <2>2, <2>10, <3>1, OwnersListed
  <2> QED
    BY <2>1, <2>3, <2>4, <2>5, <2>6, <2>7, <2>8, <2>9, <2>10, SomePlaces
<1> QED
  BY <1>1, <1>2

LEMMA OneOwner ==
  ASSUME OwnershipInv, NEW n \in DOMAIN preds
  PROVE  Cardinality(PredicateOwners(n)) = IF preds[n].kind = "Destroyed" THEN 0 ELSE 1
<1>1. /\ \A o \in PredicateOwners(n) : \E p \in Places : Holding[p] = n /\ o = Holder(p)
      /\ \A p \in Places : Holding[p] = n => Holder(p) \in PredicateOwners(n)
  BY OwnersAre
<1>2. n # NoPredicate
  BY DEF OwnershipInv, PredsOK, NoPredicate
<1>3. /\ \A p \in Places : Holding[p] \in {NoPredicate} \cup LiveNodes
      /\ \A p, q \in Places : (Holding[p] # NoPredicate /\ Holding[p] = Holding[q]) => p = q
      /\ \A m \in LiveNodes : \E p \in Places : Holding[p] = m
  BY OneHolder DEF OwnershipInv
<1>4. CASE preds[n].kind # "Destroyed"
  <2>1. PICK p \in Places : Holding[p] = n
    BY <1>3, <1>4 DEF LiveNodes
  <2>2. PredicateOwners(n) = {Holder(p)}
    BY <1>1, <1>2, <1>3, <2>1
  <2> QED
    BY <1>4, <2>2, FS_Singleton
<1>5. CASE preds[n].kind = "Destroyed"
  <2>1. PredicateOwners(n) = {}
    BY <1>1, <1>2, <1>3, <1>5 DEF LiveNodes
  <2> QED
    BY <1>5, <2>1, FS_EmptySet
<1> QED
  BY <1>4, <1>5

LEMMA TypesHold ==
  ASSUME OwnershipInv
  PROVE  PreprocessTypeOK
<1> DEFINE Types == [node : DOMAIN preds, at : {"enter", "first", "second"},
                     lch : {NoPredicate} \cup DOMAIN preds]
<1>1. /\ activations \in Seq(ActivationTypes)
      /\ \A i \in DOMAIN activations : ActivationIn(preds, activations[i])
  BY DEF OwnershipInv, ActivationsOK, ActivationsIn
<1>2. ASSUME NEW i \in DOMAIN activations PROVE activations[i] \in Types
  <2>1. activations[i] \in ActivationTypes
    BY <1>1
  <2>2. ActivationIn(preds, activations[i])
    BY <1>1
  <2> QED
    BY <2>1, <2>2 DEF ActivationTypes, ActivationIn
<1> HIDE DEF Types
<1>3. activations \in Seq(Types)
  <2>1. \A i \in 1 .. Len(activations) : activations[i] \in Types
    BY <1>1, <1>2
  <2> QED
    BY <1>1, <2>1, SequenceOf
<1> QED
  BY <1>3 DEF PreprocessTypeOK, Types, OwnershipInv, ListsOK, PredsOK, StageOK, Stages

(***************************************************************************)
(* The property PredicatesAreOwnedOnce: whatever the condition, between    *)
(* any two moves of a unique_ptr every predicate has exactly one owner,    *)
(* and a destroyed one none.                                               *)
(***************************************************************************)
THEOREM PreprocessOwnsOnce == PreprocessSpec => []PredicatesAreOwnedOnce
<1>1. OwnershipInv => PredicatesAreOwnedOnce
  BY TypesHold, OneOwner DEF PredicatesAreOwnedOnce
<1> QED
  BY <1>1, OwnershipInvariance, PTL

-----------------------------------------------------------------------------
(***************************************************************************)
(* Folding: there is a set of nodes, closed under children, without        *)
(* constants and without comparisons of two values, from which every       *)
(* pointer comes that a call has returned and that is no constant.         *)
(***************************************************************************)
Spent == {"Raw", "Destroyed"}

Reduced(p, D) ==
  /\ ClosedBelow(p, D)
  /\ \A m \in D : p[m].kind # "Raw" /\ (p[m].kind = "Leaf" => ~check_simple(p[m]))

Settled(p, D, x) == x \in D \/ p[x].kind \in Spent

\* One constant, or conditions that are reduced.
StatementReduced(D) ==
  /\ pending # <<>> \/ conditions # <<>>
  /\ \A k \in DOMAIN conditions : preds[conditions[k]].kind # "And"
  /\ \/ /\ \A i \in DOMAIN pending : pending[i] \in D
        /\ \A k \in DOMAIN conditions : conditions[k] \in D
     \/ /\ Len(pending) + Len(conditions) = 1
        /\ \A i \in DOMAIN pending : preds[pending[i]].kind \in Spent
        /\ \A k \in DOMAIN conditions : preds[conditions[k]].kind \in Spent
  /\ stage = "done" => pending = <<>>

FoldedBy(D) ==
  /\ Reduced(preds, D)
  /\ \A i \in DOMAIN activations :
       activations[i].lch # NoPredicate => Settled(preds, D, activations[i].lch)
  /\ folded # NoPredicate => Settled(preds, D, folded)
  /\ stage \in {"splitting", "done"} => StatementReduced(D)

FoldedInv == \E D \in SUBSET DOMAIN preds : FoldedBy(D)

\* A step of the fold makes E of the set D.
GrowsTo(D, E) ==
  /\ D \subseteq E /\ E \subseteq DOMAIN preds' /\ Reduced(preds', E)
  /\ \A m \in DOMAIN preds : preds[m].kind \in Spent => preds'[m].kind \in Spent

LEMMA SettledStays ==
  ASSUME NEW D, NEW E, GrowsTo(D, E), NEW x \in DOMAIN preds, Settled(preds, D, x)
  PROVE  Settled(preds', E, x)
  BY DEF GrowsTo, Settled

(* A return of something settled. *)
LEMMA FoldedReturn ==
  ASSUME OwnershipInv, stage = "folding", NEW D, NEW E, FoldedBy(D), GrowsTo(D, E),
         NEW n, FoldReturn(n), Settled(preds', E, n)
  PROVE  FoldedInv'
<1>1. /\ activations \in Seq(ActivationTypes) /\ activations # <<>>
      /\ \A i \in DOMAIN activations : activations[i].lch \in {NoPredicate} \cup DOMAIN preds
      /\ pending = <<>> /\ conditions = <<>>
  BY DEF OwnershipInv, ActivationsOK, ActivationsIn, ActivationIn, StageOK
<1>2. /\ activations' = SubSeq(activations, 1, Len(activations) - 1)
      /\ conditions' = conditions
      /\ \/ stage' = "splitting" /\ pending' = <<n>> /\ folded' = NoPredicate
         \/ folded' = n /\ stage' = stage /\ pending' = pending
  BY DEF FoldReturn, Untouched
<1>3. Popped(activations, activations')
  BY <1>1, <1>2, PoppedAre
<1>4. ASSUME NEW i \in DOMAIN activations', activations'[i].lch # NoPredicate
      PROVE  Settled(preds', E, activations'[i].lch)
  <2>1. i \in DOMAIN activations /\ activations'[i] = activations[i]
    BY <1>3, <1>4 DEF Popped
  <2> QED
    BY <1>1, <1>4, <2>1, SettledStays DEF FoldedBy
<1>5. stage' \in {"splitting", "done"} =>
        StatementReduced(E)'
  <2> SUFFICES ASSUME stage' \in {"splitting", "done"} PROVE StatementReduced(E)'
    OBVIOUS
  <2>1. stage' = "splitting" /\ pending' = <<n>>
    BY <1>2
  <2>2. pending' # <<>> /\ DOMAIN pending' = {1} /\ pending'[1] = n /\ Len(pending') = 1
    BY <2>1
  <2>3. DOMAIN conditions' = {} /\ Len(conditions') = 0
    BY <1>1, <1>2
  <2> QED
    BY <2>1, <2>2, <2>3 DEF StatementReduced, Settled
<1>6. FoldedBy(E)'
  BY <1>2, <1>4, <1>5 DEF FoldedBy, GrowsTo
<1> QED
  BY <1>6 DEF FoldedInv, GrowsTo

(* What a node that is destroyed had below it does not matter any more. *)
LEMMA ReducedKept ==
  ASSUME NEW p, NEW g, NEW D, Reduced(p, D),
         \A m \in D : g[m] = p[m] \/ (g[m].kind = "Destroyed" /\ g[m].child = <<>>)
  PROVE  Reduced(g, D)
<1>1. ASSUME NEW m \in D, NEW k \in DOMAIN g[m].child
      PROVE  g[m].child[k] \in {NoPredicate} \cup D
  <2>1. CASE g[m] = p[m]
    BY <1>1, <2>1 DEF Reduced, ClosedBelow
  <2>2. CASE g[m].child = <<>>
    BY <1>1, <2>2
  <2> QED
    BY <1>1, <2>1, <2>2
<1>2. ASSUME NEW m \in D
      PROVE  g[m].kind # "Raw" /\ (g[m].kind = "Leaf" => ~check_simple(g[m]))
  BY DEF Reduced
<1> QED
  BY <1>1, <1>2 DEF Reduced, ClosedBelow

(* What the last activation has in its hands is settled. *)
LEMMA HandsSettled ==
  ASSUME OwnershipInv, stage = "folding", NEW D, FoldedBy(D)
  PROVE  /\ This.at # "enter" => folded \in DOMAIN preds /\ Settled(preds, D, folded)
         /\ This.at = "second" => This.lch \in DOMAIN preds /\ Settled(preds, D, This.lch)
<1>1. /\ activations # <<>> /\ LiveNodes \subseteq DOMAIN preds
      /\ \A m \in DOMAIN preds : m # NoPredicate
      /\ This.at # "enter" => folded \in LiveNodes
      /\ This.at = "second" => This.lch \in LiveNodes
  BY RunningHas
<1>2. /\ Len(activations) \in DOMAIN activations /\ This = activations[Len(activations)]
  <2>1. ActivationsOK
    BY DEF OwnershipInv
  <2> QED
    BY <1>1, <2>1, LastActivation
<1> QED
  BY <1>1, <1>2 DEF FoldedBy

LEMMA FoldedNothing ==
  ASSUME OwnershipInv, NEW D \in SUBSET DOMAIN preds, FoldedBy(D), FoldNothing
  PROVE  FoldedInv'
<1> DEFINE t == This.node
<1>1. /\ stage = "folding" /\ FoldReturn(t) /\ preds' = preds
      /\ preds[t].kind \in {"Raw", "Leaf"}
      /\ preds[t].kind = "Leaf" => ~check_simple(preds[t])
  BY DEF FoldNothing, Folding
<1>2. t \in DOMAIN preds /\ NodeOK(preds, t) /\ preds[t] \in Predicates
  BY <1>1, RunningHas
<1>3. Reduced(preds, D)
  BY DEF FoldedBy
<1> HIDE DEF t
<1>4. CASE preds[t].kind = "Raw"
  <2>1. GrowsTo(D, D) /\ Settled(preds', D, t)
    BY <1>1, <1>3, <1>4 DEF GrowsTo, Settled, Spent
  <2> QED
    BY <1>1, <2>1, FoldedReturn
<1>5. CASE preds[t].kind = "Leaf"
  <2>1. DOMAIN preds[t].child = {}
    <3>1. preds[t].child \in Seq(Nat) /\ Len(preds[t].child) = 0
      BY <1>2, <1>5, NodeTyped DEF NodeOK
    <3> QED
      BY <3>1
  <2>2. Reduced(preds, D \cup {t})
    BY <1>1, <1>3, <1>5, <2>1 DEF Reduced, ClosedBelow
  <2>3. GrowsTo(D, D \cup {t}) /\ Settled(preds', D \cup {t}, t)
    BY <1>1, <1>2, <2>2 DEF GrowsTo, Settled
  <2> QED
    BY <1>1, <2>3, FoldedReturn
<1> QED
  BY <1>1, <1>4, <1>5

(* An exception leaves everything as it is. *)
LEMMA FoldedFails ==
  ASSUME NEW D \in SUBSET DOMAIN preds, FoldedBy(D), NEW error, Fail(error), error # "done",
         error # "splitting"
  PROVE  FoldedInv'
<1>1. /\ preds' = preds /\ activations' = activations /\ folded' = folded /\ stage' = error
  BY DEF Fail, queryVars, foldVars
<1>2. FoldedBy(D)'
  BY <1>1 DEF FoldedBy
<1> QED
  BY <1>1, <1>2 DEF FoldedInv

LEMMA FoldedSimpleLeaf ==
  ASSUME OwnershipInv, NEW D \in SUBSET DOMAIN preds, FoldedBy(D), FoldSimpleLeaf
  PROVE  FoldedInv'
<1> DEFINE t == This.node
           n == Len(preds) + 1
           d == DestroyPredicates(preds, {t})
<1>1. CASE Fail("logic_error")
  BY <1>1, FoldedFails
<1>2. CASE ~Fail("logic_error")
  <2>1. stage = "folding" /\ FoldReturn(n)
    BY <1>2 DEF FoldSimpleLeaf, Folding
  <2>2. PICK v \in BOOLEAN : preds' = Append(d, PredicateRaw(v))
    <3>1. \A s : (s = "true") \in BOOLEAN
      OBVIOUS
    <3> QED
      BY <1>2, <3>1 DEF FoldSimpleLeaf
  <2>3. preds \in Seq(Predicates) /\ DOMAIN preds = 1 .. Len(preds) /\ Reduced(preds, D)
    BY <2>1, RunningHas DEF FoldedBy
  <2>4. /\ d \in Seq(Predicates) /\ Len(d) = Len(preds) /\ DOMAIN d = DOMAIN preds
        /\ \A m \in DOMAIN preds : m # t => d[m] = preds[m]
        /\ t \in DOMAIN preds => d[t].kind = "Destroyed" /\ d[t].child = <<>>
    BY <2>3, DestroyedAre
  <2> HIDE DEF d
  <2>5. WithRaw(d, preds')
    BY <2>2, <2>4, RawAdded
  <2>6. /\ \A m \in DOMAIN preds : m \in DOMAIN preds' /\ preds'[m] = d[m]
        /\ preds'[n].kind = "Raw"
    BY <2>4, <2>5 DEF WithRaw
  <2>7. \A m \in DOMAIN preds :
          preds'[m] = preds[m] \/ (preds'[m].kind = "Destroyed" /\ preds'[m].child = <<>>)
    BY <2>4, <2>6
  <2>8. Reduced(preds', D)
    BY <2>3, <2>7, ReducedKept
  <2>9. GrowsTo(D, D)
    BY <2>6, <2>7, <2>8 DEF GrowsTo, Spent
  <2>10. Settled(preds', D, n)
    BY <2>6 DEF Settled, Spent
  <2> HIDE DEF n
  <2> QED
    BY <2>1, <2>9, <2>10, FoldedReturn
<1> QED
  BY <1>1, <1>2

(* The other side of a constant, or the constant, is settled. *)
LEMMA FoldedConstant ==
  ASSUME OwnershipInv, NEW D \in SUBSET DOMAIN preds, FoldedBy(D), FoldConstant
  PROVE  FoldedInv'
<1>1. /\ stage = "folding" /\ This.at = "second"
      /\ \E S, n : /\ preds' = DestroyPredicates(preds, S)
                   /\ FoldReturn(n) /\ n \in {This.lch, folded}
  BY DEF FoldConstant, Folding, Keep
<1>2. PICK S, n : /\ preds' = DestroyPredicates(preds, S)
                  /\ FoldReturn(n) /\ n \in {This.lch, folded}
  BY <1>1
<1>3. preds \in Seq(Predicates) /\ Reduced(preds, D)
  BY <1>1, RunningHas DEF FoldedBy
<1>4. /\ DOMAIN preds' = DOMAIN preds
      /\ \A m \in DOMAIN preds :
           preds'[m] = preds[m] \/ (preds'[m].kind = "Destroyed" /\ preds'[m].child = <<>>)
  BY <1>2, <1>3, DestroyedAre
<1>5. GrowsTo(D, D)
  <2>1. Reduced(preds', D)
    BY <1>3, <1>4, ReducedKept
  <2> QED
    BY <1>4, <2>1 DEF GrowsTo, Spent
<1>6. n \in DOMAIN preds /\ Settled(preds, D, n)
  BY <1>1, <1>2, HandsSettled
<1>7. Settled(preds', D, n)
  BY <1>5, <1>6, SettledStays
<1> QED
  BY <1>1, <1>2, <1>5, <1>7, FoldedReturn

LEMMA FoldedNotConstant ==
  ASSUME OwnershipInv, NEW D \in SUBSET DOMAIN preds, FoldedBy(D), FoldNotConstant
  PROVE  FoldedInv'
<1> DEFINE t == This.node
           p == [preds EXCEPT ![folded].value = ~@]
<1>1. /\ stage = "folding" /\ This.at = "first" /\ FoldReturn(folded)
      /\ preds' = DestroyPredicates(p, {t}) /\ preds[folded].kind = "Raw"
  BY DEF FoldNotConstant, Folding
<1>2. /\ preds \in Seq(Predicates) /\ Reduced(preds, D)
      /\ folded \in DOMAIN preds /\ Settled(preds, D, folded)
  BY <1>1, RunningHas, HandsSettled DEF FoldedBy
<1>3. /\ p \in Seq(Predicates) /\ DOMAIN p = DOMAIN preds
      /\ \A m \in DOMAIN preds : m # folded => p[m] = preds[m]
      /\ p[folded].kind = "Raw"
  <2> DEFINE r == [preds[folded] EXCEPT !.value = ~@]
  <2>1. OneNode(p, preds, folded, r) /\ r.kind = preds[folded].kind
    BY <1>2, ValueFlipped
  <2> HIDE DEF r, p
  <2> QED
    BY <1>1, <1>2, <2>1 DEF OneNode
<1> HIDE DEF p
<1>4. /\ DOMAIN preds' = DOMAIN preds
      /\ \A m \in DOMAIN preds :
           preds'[m] = p[m] \/ (preds'[m].kind = "Destroyed" /\ preds'[m].child = <<>>)
  BY <1>1, <1>3, DestroyedAre
<1>5. folded \notin D
  BY <1>1 DEF FoldedBy, Reduced
<1>6. Reduced(preds', D)
  BY <1>2, <1>3, <1>4, <1>5, ReducedKept
<1>7. GrowsTo(D, D)
  BY <1>1, <1>3, <1>4, <1>6 DEF GrowsTo, Spent
<1>8. Settled(preds', D, folded)
  BY <1>2, <1>7, SettledStays
<1> QED
  BY <1>1, <1>7, <1>8, FoldedReturn

(* A node that gets its children back joins the set. *)
LEMMA FoldedRefill ==
  ASSUME OwnershipInv, stage = "folding", This.at # "enter", NEW D \in SUBSET DOMAIN preds,
         FoldedBy(D), FoldReturn(This.node), NEW c, Refills(c)
  PROVE  FoldedInv'
<1> DEFINE t == This.node
           Kept == {This.lch, folded} \ {NoPredicate}
           r == [preds[t] EXCEPT !.child = c]
           G == D \cup {t}
<1>1. /\ preds' = [preds EXCEPT ![t].child = c] /\ preds[t].kind \in {"And", "Or", "Not"}
      /\ c \in Seq(Kept) /\ \A x \in Kept : preds[x].kind # "Raw"
  BY DEF Refills
<1>2. /\ preds \in Seq(Predicates) /\ t \in DOMAIN preds /\ preds[t] \in Predicates
      /\ folded \in LiveNodes /\ This.at \in {"first", "second"}
      /\ This.at = "first" => This.lch = NoPredicate
      /\ This.at = "second" => This.lch \in LiveNodes
      /\ LiveNodes \subseteq DOMAIN preds /\ DOMAIN preds \subseteq Nat
  <2>1. This \in ActivationTypes
    BY RunningHas, LastActivation DEF OwnershipInv
  <2>2. This.at \in {"first", "second"}
    BY <2>1 DEF ActivationTypes
  <2> QED
    BY <2>2, RunningHas
<1>3. Kept \subseteq D
  <2>1. \A x \in Kept : x \in LiveNodes /\ Settled(preds, D, x)
    BY <1>2, HandsSettled
  <2> HIDE DEF Kept
  <2> QED
    BY <1>1, <2>1 DEF Settled, Spent, LiveNodes
<1>4. Kept \subseteq Nat
  BY <1>2
<1> HIDE DEF Kept
<1>5. c \in Seq(Nat) /\ \A k \in DOMAIN c : c[k] \in D
  <2>1. \A k \in DOMAIN c : c[k] \in Kept
    BY <1>1
  <2>2. \A k \in 1 .. Len(c) : c[k] \in Nat
    BY <1>1, <1>4
  <2> QED
    BY <1>1, <1>3, <2>1, <2>2, SequenceOf
<1>6. /\ r \in Predicates /\ r.kind = preds[t].kind /\ r.operand = preds[t].operand
      /\ r.child = c
  BY <1>2, <1>5, NodeWritten
<1>7. OneNode(preds', preds, t, r)
  <2>1. preds' = [preds EXCEPT ![t] = r]
    BY <1>1
  <2> HIDE DEF r, t
  <2> QED
    BY <1>2, <1>6, <2>1, OneWritten
<1> HIDE DEF r, t
<1>8. Reduced(preds, D)
  BY DEF FoldedBy
<1>9. Reduced(preds', G)
  <2>1. ASSUME NEW m \in G, NEW k \in DOMAIN preds'[m].child
        PROVE  preds'[m].child[k] \in {NoPredicate} \cup G
    <3>1. CASE m = t
      BY <1>2, <1>5, <1>6, <1>7, <2>1, <3>1 DEF OneNode
    <3>2. CASE m # t
      BY <1>7, <1>8, <2>1, <3>2 DEF OneNode, Reduced, ClosedBelow
    <3> QED
      BY <3>1, <3>2
  <2>2. ASSUME NEW m \in G
        PROVE  preds'[m].kind # "Raw" /\ (preds'[m].kind = "Leaf" => ~check_simple(preds'[m]))
    <3>1. CASE m = t
      BY <1>1, <1>6, <1>7, <3>1 DEF OneNode
    <3>2. CASE m # t
      BY <1>7, <1>8, <2>2, <3>2 DEF OneNode, Reduced
    <3> QED
      BY <3>1, <3>2
  <2> QED
    BY <2>1, <2>2 DEF Reduced, ClosedBelow
<1>10. GrowsTo(D, G)
  <2>1. \A m \in DOMAIN preds : preds'[m].kind = preds[m].kind
    BY <1>6, <1>7 DEF OneNode
  <2> QED
    BY <1>2, <1>7, <1>9, <2>1 DEF GrowsTo, OneNode
<1>11. FoldReturn(t) /\ Settled(preds', G, t)
  BY DEF Settled, t
<1> HIDE DEF G
<1> QED
  BY <1>10, <1>11, FoldedReturn

(* A call leaves what is settled alone, and keeps what was returned. *)
LEMMA FoldedCall ==
  ASSUME OwnershipInv, stage = "folding", NEW D \in SUBSET DOMAIN preds, FoldedBy(D),
         NEW f, NEW k, Calls(f, k), FoldChild(f, k)
  PROVE  FoldedInv'
<1> DEFINE t == This.node
           c == preds[t].child[k]
           N == Len(activations)
<1>1. /\ DOMAIN preds' = DOMAIN preds
      /\ \A m \in DOMAIN preds : m # t => preds'[m] = preds[m]
      /\ preds'[t].kind = preds[t].kind
      /\ DOMAIN preds'[t].child = DOMAIN preds[t].child
      /\ \A j \in DOMAIN preds[t].child :
           preds'[t].child[j] = IF j = k THEN NoPredicate ELSE preds[t].child[j]
      /\ c \in DOMAIN preds
  BY ChildMoved
<1>2. /\ f \in ActivationTypes /\ f.lch = folded /\ preds[t].kind \in {"And", "Or", "Not"}
  BY DEF Calls
<1>3. /\ activations \in Seq(ActivationTypes) /\ activations # <<>>
      /\ DOMAIN preds \subseteq Nat /\ t \in DOMAIN preds
      /\ folded \in {NoPredicate} \cup DOMAIN preds
      /\ \A i \in DOMAIN activations : activations[i].lch \in {NoPredicate} \cup DOMAIN preds
  BY RunningHas DEF OwnershipInv, ActivationsOK, ActivationsIn, ActivationIn, StageOK
<1>4. /\ activations' = Append([activations EXCEPT ![N] = f], Activation(c))
      /\ folded' = NoPredicate /\ stage' = stage
  BY DEF FoldChild
<1> HIDE DEF c, t
<1>5. Pushed(activations, activations', f, c)
  <2>1. c \in Nat
    BY <1>1, <1>3
  <2> QED
    BY <1>2, <1>3, <1>4, <2>1, PushedAre
<1>6. Reduced(preds, D)
  BY DEF FoldedBy
<1>7. Reduced(preds', D)
  <2>1. ASSUME NEW m \in D, NEW j \in DOMAIN preds'[m].child
        PROVE  preds'[m].child[j] \in {NoPredicate} \cup D
    <3>1. CASE m = t
      BY <1>1, <1>6, <2>1, <3>1 DEF Reduced, ClosedBelow
    <3>2. CASE m # t
      BY <1>1, <1>6, <2>1, <3>2 DEF Reduced, ClosedBelow
    <3> QED
      BY <3>1, <3>2
  <2>2. ASSUME NEW m \in D
        PROVE  preds'[m].kind # "Raw" /\ (preds'[m].kind = "Leaf" => ~check_simple(preds'[m]))
    <3>1. CASE m = t
      BY <1>1, <1>2, <3>1 DEF t
    <3>2. CASE m # t
      BY <1>1, <1>6, <2>2, <3>2 DEF Reduced
    <3> QED
      BY <3>1, <3>2
  <2> QED
    BY <2>1, <2>2 DEF Reduced, ClosedBelow
<1>8. GrowsTo(D, D)
  <2>1. \A m \in DOMAIN preds : preds'[m].kind = preds[m].kind
    BY <1>1
  <2> QED
    BY <1>1, <1>7, <2>1 DEF GrowsTo
<1>9. ASSUME NEW i \in DOMAIN activations', activations'[i].lch # NoPredicate
      PROVE  Settled(preds', D, activations'[i].lch)
  <2>0. N \in Nat \ {0} /\ DOMAIN activations = 1 .. N /\ i \in 1 .. N + 1
    BY <1>3, <1>5 DEF Pushed
  <2>1. CASE i = N + 1
    BY <1>5, <1>9, <2>1 DEF Pushed, Activation
  <2>2. CASE i = N
    <3>1. activations'[i].lch = folded
      BY <1>2, <1>5, <2>2 DEF Pushed
    <3>2. folded \in DOMAIN preds /\ Settled(preds, D, folded)
      BY <1>3, <1>9, <3>1 DEF FoldedBy
    <3> QED
      BY <1>8, <3>1, <3>2, SettledStays
  <2>3. CASE i \in 1 .. N - 1
    <3>1. i \in DOMAIN activations /\ activations'[i] = activations[i]
      BY <1>5, <2>0, <2>3 DEF Pushed
    <3>2. activations[i].lch \in DOMAIN preds /\ Settled(preds, D, activations[i].lch)
      BY <1>3, <1>9, <3>1 DEF FoldedBy
    <3> QED
      BY <1>8, <3>1, <3>2, SettledStays
  <2> QED
    BY <2>0, <2>1, <2>2, <2>3
<1>10. FoldedBy(D)'
  BY <1>4, <1>7, <1>9 DEF FoldedBy
<1> QED
  BY <1>1, <1>10 DEF FoldedInv

(* A split hands the two children on, or a finished condition over. *)
LEMMA FoldedSplitAnd ==
  ASSUME OwnershipInv, NEW D \in SUBSET DOMAIN preds, FoldedBy(D), SplitAnd
  PROVE  FoldedInv'
<1> DEFINE h == Head(pending)
           N == Len(pending) - 1
           c == preds[h].child
<1>1. /\ stage = "splitting" /\ stage' = stage /\ activations' = activations
      /\ folded' = folded /\ pending # <<>> /\ conditions' = conditions /\ preds[h].kind = "And"
  BY DEF SplitAnd, foldVars, Untouched
<1>2. /\ pending \in Seq(DOMAIN preds) /\ activations = <<>> /\ folded = NoPredicate
      /\ h \in DOMAIN preds /\ h = pending[1] /\ N \in Nat /\ Len(pending) = N + 1
      /\ DOMAIN c = {1, 2} /\ c[1] # NoPredicate /\ c[2] # NoPredicate
      /\ pending' \in Seq(DOMAIN preds) /\ Len(pending') = N + 2
      /\ pending'[1] = c[1] /\ pending'[2] = c[2]
      /\ \A i \in 1 .. N : pending'[i + 2] = pending[i + 1]
      /\ DOMAIN preds' = DOMAIN preds
      /\ \A m \in DOMAIN preds : m # h => preds'[m] = preds[m]
      /\ preds'[h].kind = "Destroyed" /\ preds'[h].child = <<>>
  BY SplitInTwo
<1>3. /\ Reduced(preds, D) /\ StatementReduced(D)
      /\ conditions \in Seq(DOMAIN preds)
  BY <1>1 DEF FoldedBy, OwnershipInv, StageOK
<1> HIDE DEF h, N, c
<1>4. 1 \in DOMAIN pending
  BY <1>2
<1>5. /\ \A i \in DOMAIN pending : pending[i] \in D
      /\ \A k \in DOMAIN conditions : conditions[k] \in D
  BY <1>1, <1>2, <1>3, <1>4 DEF StatementReduced, Spent
<1>6. c[1] \in D /\ c[2] \in D
  <2>1. h \in D
    BY <1>2, <1>4, <1>5
  <2> QED
    BY <1>2, <1>3, <2>1 DEF Reduced, ClosedBelow, c
<1>7. ASSUME NEW i \in DOMAIN pending' PROVE pending'[i] \in D
  <2>1. i = 1 \/ i = 2 \/ i - 2 \in 1 .. N
    BY <1>2
  <2>2. CASE i - 2 \in 1 .. N
    <3>1. (i - 2) + 2 = i /\ (i - 2) + 1 \in DOMAIN pending
      BY <1>2, <2>2
    <3>2. pending'[(i - 2) + 2] = pending[(i - 2) + 1]
      BY <1>2, <2>2
    <3> QED
      BY <1>5, <3>1, <3>2
  <2> QED
    BY <1>2, <1>6, <2>1, <2>2
<1>8. \A m \in DOMAIN preds :
        preds'[m] = preds[m] \/ (preds'[m].kind = "Destroyed" /\ preds'[m].child = <<>>)
  BY <1>2
<1>9. Reduced(preds', D)
  BY <1>3, <1>8, ReducedKept
<1>10. StatementReduced(D)'
  <2>1. pending' # <<>>
    BY <1>2
  <2>2. \A k \in DOMAIN conditions : preds'[conditions[k]].kind # "And"
    BY <1>3, <1>8 DEF StatementReduced
  <2> QED
    BY <1>1, <1>5, <1>7, <2>1, <2>2 DEF StatementReduced
<1>11. FoldedBy(D)'
  BY <1>1, <1>2, <1>9, <1>10 DEF FoldedBy
<1> QED
  BY <1>2, <1>11 DEF FoldedInv

LEMMA FoldedSplitOther ==
  ASSUME OwnershipInv, NEW D \in SUBSET DOMAIN preds, FoldedBy(D), SplitOther
  PROVE  FoldedInv'
<1> DEFINE h == Head(pending)
           C == Len(conditions) + 1
<1>1. /\ stage = "splitting" /\ stage' = stage /\ activations' = activations /\ preds' = preds
      /\ folded' = folded /\ pending # <<>> /\ preds[h].kind # "And"
      /\ pending' = Tail(pending) /\ conditions' = Append(conditions, h)
  BY DEF SplitOther, foldVars, queryVars
<1>2. /\ pending \in Seq(DOMAIN preds) /\ conditions \in Seq(DOMAIN preds)
  BY DEF OwnershipInv, StageOK
<1>3. /\ h = pending[1] /\ 1 \in DOMAIN pending
      /\ \A i \in DOMAIN pending' : i + 1 \in DOMAIN pending /\ pending'[i] = pending[i + 1]
      /\ Len(pending') = Len(pending) - 1 /\ Len(conditions') = Len(conditions) + 1
      /\ Len(pending) \in Nat /\ Len(conditions) \in Nat
      /\ DOMAIN conditions' = DOMAIN conditions \cup {C} /\ conditions'[C] = h
      /\ \A i \in DOMAIN conditions : conditions'[i] = conditions[i]
  BY <1>1, <1>2
<1>4. StatementReduced(D)
  BY <1>1 DEF FoldedBy
<1> HIDE DEF h, C
<1>5. StatementReduced(D)'
  <2>1. conditions' # <<>> /\ Len(pending') + Len(conditions') = Len(pending) + Len(conditions)
    BY <1>3
  <2>2. \A k \in DOMAIN conditions' : preds[conditions'[k]].kind # "And"
    BY <1>1, <1>3, <1>4 DEF StatementReduced
  <2>3. CASE /\ \A i \in DOMAIN pending : pending[i] \in D
             /\ \A k \in DOMAIN conditions : conditions[k] \in D
    <3>1. /\ \A i \in DOMAIN pending' : pending'[i] \in D
          /\ \A k \in DOMAIN conditions' : conditions'[k] \in D
      BY <1>3, <2>3
    <3> QED
      BY <1>1, <2>1, <2>2, <3>1 DEF StatementReduced
  <2>4. CASE /\ Len(pending) + Len(conditions) = 1
             /\ \A i \in DOMAIN pending : preds[pending[i]].kind \in Spent
             /\ \A k \in DOMAIN conditions : preds[conditions[k]].kind \in Spent
    <3>1. /\ \A i \in DOMAIN pending' : preds[pending'[i]].kind \in Spent
          /\ \A k \in DOMAIN conditions' : preds[conditions'[k]].kind \in Spent
      BY <1>3, <2>4
    <3> QED
      BY <1>1, <2>1, <2>2, <2>4, <3>1 DEF StatementReduced
  <2> QED
    BY <1>4, <2>3, <2>4 DEF StatementReduced
<1>6. FoldedBy(D)'
  BY <1>1, <1>5 DEF FoldedBy
<1> QED
  BY <1>1, <1>6 DEF FoldedInv

LEMMA FoldedBuilt ==
  ASSUME NEW D \in SUBSET DOMAIN preds, FoldedBy(D), StatementBuilt
  PROVE  FoldedInv'
<1>1. /\ stage = "splitting" /\ stage' = "done" /\ activations' = activations /\ preds' = preds
      /\ folded' = folded /\ pending = <<>> /\ pending' = pending /\ conditions' = conditions
  BY DEF StatementBuilt, Untouched, foldVars
<1>2. StatementReduced(D)'
  BY <1>1 DEF FoldedBy, StatementReduced
<1>3. FoldedBy(D)'
  BY <1>1, <1>2 DEF FoldedBy
<1> QED
  BY <1>1, <1>3 DEF FoldedInv

(* Before the fold nothing has been returned. *)
Early == {"relations", "attributes", "leaves"}

LEMMA NothingReturned ==
  ASSUME OwnershipInv', folded' = NoPredicate, stage' \notin {"splitting", "done"},
         activations' = <<>> \/ \E c : activations' = <<Activation(c)>>
  PROVE  FoldedInv'
<1>1. \A i \in DOMAIN activations' : activations'[i].lch = NoPredicate
  <2>1. CASE activations' = <<>>
    BY <2>1
  <2>2. ASSUME NEW c, activations' = <<Activation(c)>>
        PROVE  \A i \in DOMAIN activations' : activations'[i].lch = NoPredicate
    <3> DEFINE a == Activation(c)
    <3>1. a.lch = NoPredicate
      BY DEF Activation
    <3> HIDE DEF a
    <3>2. DOMAIN activations' = {1} /\ activations'[1] = a
      BY <2>2 DEF a
    <3> QED
      BY <3>1, <3>2
  <2> QED
    BY <2>1, <2>2
<1>2. FoldedBy({})'
  BY <1>1 DEF FoldedBy, Reduced, ClosedBelow
<1> QED
  BY <1>2 DEF FoldedInv

LEMMA FoldedEarly ==
  ASSUME OwnershipInv, OwnershipInv', stage \in Early, PreprocessNext
  PROVE  FoldedInv'
<1>1. activations = <<>> /\ folded = NoPredicate
  BY DEF OwnershipInv, StageOK, Early, ActivationsOK, ActivationsIn
<1>2. CASE UnknownRelation \/ QualifiedStar \/ AttributeFails \/ LeafFails
  <2>1. stage' \in {"runtime_error", "logic_error"} /\ UNCHANGED foldVars
    BY <1>2 DEF UnknownRelation, QualifiedStar, AttributeFails, LeafFails, Fail
  <2> QED
    BY <1>1, <2>1, NothingReturned DEF foldVars
<1>3. CASE NextRelation \/ AppendItem \/ RelationsResolved \/ ExpandStar \/ ResolveAttribute
             \/ AttributesResolved \/ ResolveLeaf
  <2>1. stage' \in Early /\ UNCHANGED foldVars
    BY <1>3 DEF NextRelation, AppendItem, RelationsResolved, ExpandStar, ResolveAttribute,
                AttributesResolved, ResolveLeaf, LeavesAreLeft, Early
  <2> QED
    BY <1>1, <2>1, NothingReturned DEF foldVars, Early
<1>4. CASE LeavesResolved
  <2>1. stage' = "folding" /\ folded' = folded /\ activations' = <<Activation(condition)>>
    BY <1>4 DEF LeavesResolved
  <2> QED
    BY <1>1, <2>1, NothingReturned
<1>5. ~\E kinds, at : Folding(kinds, at)
  BY DEF Folding, Early
<1>6. ~(FoldNothing \/ FoldSimpleLeaf \/ FoldFirst \/ FoldSecond)
  BY <1>5 DEF FoldNothing, FoldSimpleLeaf, FoldFirst, FoldSecond
<1>7. ~(FoldConstant \/ FoldBinary \/ FoldNotConstant \/ FoldNot)
  BY <1>5 DEF FoldConstant, FoldBinary, FoldNotConstant, FoldNot
<1>8. ~(SplitAnd \/ SplitOther \/ StatementBuilt)
  BY DEF SplitAnd, SplitOther, StatementBuilt, Early
<1> QED
  BY <1>2, <1>3, <1>4, <1>6, <1>7, <1>8 DEF PreprocessNext

LEMMA FoldedStarts == ASSUME OwnershipInv, PreprocessInit PROVE FoldedInv
<1>1. activations = <<>> /\ folded = NoPredicate /\ stage = "relations"
  BY DEF PreprocessInit
<1>2. FoldedBy({})
  BY <1>1 DEF FoldedBy, Reduced, ClosedBelow
<1> QED
  BY <1>2 DEF FoldedInv

LEMMA FoldedStep ==
  ASSUME OwnershipInv, OwnershipInv', FoldedInv, [PreprocessNext]_preprocessVars
  PROVE  FoldedInv'
<1>1. PICK D \in SUBSET DOMAIN preds : FoldedBy(D)
  BY DEF FoldedInv
<1>2. CASE UNCHANGED preprocessVars
  <2>1. /\ preds' = preds /\ activations' = activations /\ folded' = folded /\ stage' = stage
        /\ pending' = pending /\ conditions' = conditions
    BY <1>2 DEF preprocessVars, queryVars, foldVars, stmtVars
  <2>2. FoldedBy(D)'
    BY <1>1, <2>1 DEF FoldedBy, StatementReduced
  <2> QED
    BY <2>1, <2>2 DEF FoldedInv
<1>3. CASE PreprocessNext /\ stage \in Early
  BY <1>3, FoldedEarly
<1>4. CASE PreprocessNext /\ stage \notin Early
  <2>1. ~(UnknownRelation \/ NextRelation \/ AppendItem \/ RelationsResolved)
    BY <1>4 DEF UnknownRelation, NextRelation, AppendItem, RelationsResolved, Early
  <2>2. ~(QualifiedStar \/ ExpandStar \/ ResolveAttribute \/ AttributeFails \/ AttributesResolved)
    BY <1>4 DEF QualifiedStar, ExpandStar, ResolveAttribute, AttributeFails,
                AttributesResolved, Early
  <2>3. ~(ResolveLeaf \/ LeafFails \/ LeavesResolved)
    BY <1>4 DEF ResolveLeaf, LeafFails, LeavesResolved, LeavesAreLeft, Early
  <2>4. CASE FoldNothing \/ FoldSimpleLeaf
    BY <1>1, <2>4, FoldedNothing, FoldedSimpleLeaf
  <2>5. CASE FoldFirst
    BY <1>1, <2>5, FoldFirstCalls, FoldedCall
  <2>6. CASE FoldSecond
    BY <1>1, <2>6, FoldSecondCalls, FoldedCall
  <2>7. CASE FoldConstant \/ FoldNotConstant
    BY <1>1, <2>7, FoldedConstant, FoldedNotConstant
  <2>8. CASE FoldBinary
    BY <1>1, <2>8, FoldBinaryRefills, FoldedRefill
  <2>9. CASE FoldNot
    BY <1>1, <2>9, FoldNotRefills, FoldedRefill
  <2>10. CASE SplitAnd \/ SplitOther \/ StatementBuilt
    BY <1>1, <2>10, FoldedSplitAnd, FoldedSplitOther, FoldedBuilt
  <2> QED
    BY <1>4, <2>1, <2>2, <2>3, <2>4, <2>5, <2>6, <2>7, <2>8, <2>9, <2>10 DEF PreprocessNext
<1> QED
  BY <1>2, <1>3, <1>4

(* What the statement holds is not destroyed. *)
LEMMA HeldIsLive ==
  ASSUME OwnershipInv, NEW k \in DOMAIN conditions
  PROVE  conditions[k] \in LiveNodes
<1>1. PredicatesOwned /\ conditions \in Seq(DOMAIN preds) /\ preds \in Seq(Predicates)
  BY DEF OwnershipInv, StageOK, PredsOK
<1>2. k \in Nat /\ conditions[k] \in DOMAIN preds /\ conditions[k] # NoPredicate
  BY <1>1 DEF NoPredicate
<1>3. Holding[<<"statement", k, 0>>] = conditions[k]
  <2>1. Holding[<<"statement", k, 0>>] = StatementAt(conditions, k)
    BY <1>2, HoldsNow
  <2> QED
    BY <2>1 DEF StatementAt
<1>4. <<"statement", k, 0>> \in Places
  <2>1. "statement" \in Kinds /\ k \in Nat /\ 0 \in Nat
    BY <1>2 DEF Kinds
  <2> QED
    BY <2>1, SomePlaces
<1> QED
  BY <1>1, <1>2, <1>3, <1>4, OneHolder

LEMMA FoldedMeans == ASSUME OwnershipInv, FoldedInv PROVE ConstantsAreFolded
<1> SUFFICES ASSUME stage = "done" PROVE ConstantsAreFolded
  BY DEF ConstantsAreFolded
<1>1. PICK D \in SUBSET DOMAIN preds : FoldedBy(D)
  BY DEF FoldedInv
<1>2. StatementReduced(D) /\ Reduced(preds, D)
  BY <1>1 DEF FoldedBy
<1>3. /\ PredsOK /\ conditions \in Seq(DOMAIN preds) /\ DOMAIN conditions = 1 .. Len(conditions)
  BY DEF OwnershipInv, StageOK
<1>4. /\ pending = <<>> /\ conditions # <<>>
      /\ \A k \in DOMAIN conditions : preds[conditions[k]].kind # "And"
  BY <1>2 DEF StatementReduced
<1>5. CASE \A k \in DOMAIN conditions : conditions[k] \in D
  <2>1. ASSUME NEW k \in DOMAIN conditions, NEW n \in SubPredicates(preds, conditions[k])
        PROVE  n \in D
    <3>1. conditions[k] \in D /\ conditions[k] \in DOMAIN preds /\ ClosedBelow(preds, D)
      BY <1>2, <1>3, <1>5 DEF Reduced
    <3>2. conditions[k] \in Nat \ {0} /\ Ordered(preds, conditions[k])
      BY <1>3, <3>1, PredsOrdered
    <3>3. SubPredicates(preds, conditions[k]) \subseteq D
      BY <3>1, <3>2, BelowIs
    <3> QED
      BY <3>3
  <2> QED
    BY <1>2, <1>4, <2>1 DEF ConstantsAreFolded, Reduced
<1>6. CASE /\ Len(pending) + Len(conditions) = 1
           /\ \A k \in DOMAIN conditions : preds[conditions[k]].kind \in Spent
  <2>0. Len(pending) = 0
    BY <1>4
  <2>1. Len(conditions) = 1 /\ 1 \in DOMAIN conditions
    BY <1>3, <1>6, <2>0
  <2>2. conditions[1] \in LiveNodes
    BY <2>1, HeldIsLive
  <2> QED
    BY <1>6, <2>1, <2>2 DEF ConstantsAreFolded, Spent, LiveNodes
<1> QED
  BY <1>2, <1>5, <1>6 DEF StatementReduced

(***************************************************************************)
(* When the preprocessor is done, the statement's conditions are one       *)
(* constant, or conditions that are not split further and without any      *)
(* constant and any comparison of two constants below them: fold_constant  *)
(* and split_and leave nothing behind.                                     *)
(***************************************************************************)
THEOREM PreprocessFolds == PreprocessSpec => []ConstantsAreFolded
<1>1. PreprocessInit /\ OwnershipInv => FoldedInv
  BY FoldedStarts
<1>2. OwnershipInv /\ OwnershipInv' /\ FoldedInv /\ [PreprocessNext]_preprocessVars => FoldedInv'
  BY FoldedStep
<1>3. OwnershipInv /\ FoldedInv => ConstantsAreFolded
  BY FoldedMeans
<1> QED
  BY <1>1, <1>2, <1>3, OwnershipInvariance, PTL DEF PreprocessSpec

-----------------------------------------------------------------------------
(***************************************************************************)
(* Refusals: what has been resolved is well-formed, and what has not is    *)
(* still as it was written.                                                *)
(***************************************************************************)
InCatalog(it) == \E rel \in DOMAIN Catalog : \E i \in DOMAIN Catalog[rel] : it = Catalog[rel][i]

\* The recursion of ItemsOf.
ItemsAt(rels, k, f) == IF k = 0 THEN <<>> ELSE f[k - 1] \o Catalog[rels[k]]

ItemsIn(rels) == CHOOSE f : f = [k \in 0 .. Len(rels) |-> ItemsAt(rels, k, f)]

\* The first k relations are known; their items are in the schema, or are to be.
ResolvedUpto(k) ==
  /\ k \in 0 .. Len(query.relations) /\ Len(relations) = Len(query.relations) - k
  /\ \A i \in DOMAIN relations : relations[i] = query.relations[k + i]
  /\ \A i \in 1 .. k : query.relations[i] \in DOMAIN Catalog
  /\ schema_ \o items = ItemsIn(query.relations)[k]

NamesSo ==
  /\ mapped = Len(schema_) /\ MapsIndexTheArray
  /\ \A i \in DOMAIN schema_ : InCatalog(schema_[i])
  /\ \A i \in DOMAIN items : InCatalog(items[i])
  /\ stage = "relations" => \E k \in Nat : ResolvedUpto(k)
  /\ stage \in {"attributes", "leaves", "folding", "splitting"} =>
       Known(query.relations) /\ schema_ = QueryItems(query)

\* The attributes before resolved name one column each.
AttributesUpto ==
  /\ resolved > 0 => Stars = {}
  /\ DOMAIN attributes = DOMAIN query.attributes
  /\ \A i \in DOMAIN attributes :
       /\ attributes[i].attribute = query.attributes[i].attribute
       /\ i <= resolved => NamesOne(query, query.attributes[i])
       /\ i > resolved => attributes[i] = query.attributes[i]

StarExpanded ==
  /\ StarsIn(query) # {} /\ ~FirstStarIsQualified(query)
  /\ Stars = {} /\ resolved = Len(attributes)

AttributesGood ==
  /\ ~FirstStarIsQualified(query)
  /\ StarsIn(query) # {} \/ \A i \in DOMAIN query.attributes : NamesOne(query, query.attributes[i])

AttributesSo ==
  /\ stage = "relations" => attributes = query.attributes /\ resolved = 0
  /\ stage = "attributes" => AttributesUpto \/ StarExpanded
  /\ stage \in {"leaves", "folding", "splitting"} => AttributesGood

\* Two values are of one type.
TypesFit(leaf) == check_simple(leaf) => leaf.operand[1].val.type = leaf.operand[2].val.type

\* The first r of the leaves s are well-typed, the others are as in the query q.
LeavesUpto(p, s, r, q) ==
  /\ \A n \in DOMAIN p : p[n].kind = "Leaf" => \E k \in DOMAIN s : s[k] = n
  /\ \A j, k \in DOMAIN s : s[j] = s[k] => j = k
  /\ \A n \in DOMAIN q.preds : q.preds[n].kind = "Leaf" => n \in DOMAIN p /\ p[n].kind = "Leaf"
  /\ \A k \in DOMAIN s :
       /\ s[k] \in DOMAIN q.preds
       /\ k <= r => WellTyped(q, q.preds[s[k]]) /\ TypesFit(p[s[k]])
       /\ k > r => p[s[k]] = q.preds[s[k]]

LeavesSo ==
  /\ stage \in {"relations", "attributes"} => preds = query.preds /\ condition = query.root
  /\ stage = "leaves" => LeavesUpto(preds, LeavesOf(preds, condition), resolved, query)
  /\ stage \in {"folding", "splitting"} =>
       /\ \A n \in DOMAIN query.preds :
            query.preds[n].kind = "Leaf" => WellTyped(query, query.preds[n])
       /\ \A n \in DOMAIN preds : preds[n].kind = "Leaf" => TypesFit(preds[n])

VerdictInv ==
  /\ query \in Queries /\ NamesSo /\ AttributesSo /\ LeavesSo
  /\ stage \in Ends => stage = Verdict(query)
LEMMA ItemsExist ==
  ASSUME NEW rels, NEW n \in Nat, n = Len(rels)
  PROVE  \E f : f = [k \in 0 .. n |-> ItemsAt(rels, k, f)]
<1> DEFINE T == {k \in 0 .. n : \E f : f = [m \in 0 .. k |-> ItemsAt(rels, m, f)]}
<1>1. 0 \in T
  <2> DEFINE f == [m \in 0 .. 0 |-> <<>>]
  <2>1. f = [m \in 0 .. 0 |-> ItemsAt(rels, m, f)]
    BY DEF ItemsAt
  <2> HIDE DEF f
  <2>2. \E h : h = [m \in 0 .. 0 |-> ItemsAt(rels, m, h)]
    BY <2>1
  <2> QED
    BY <2>2
<1>2. ASSUME NEW k \in 0 .. n - 1, k \in T PROVE k + 1 \in T
  <2>1. PICK f : f = [m \in 0 .. k |-> ItemsAt(rels, m, f)]
    BY <1>2
  <2> DEFINE g == [m \in 0 .. k + 1 |-> IF m = k + 1 THEN ItemsAt(rels, k + 1, f) ELSE f[m]]
  <2>2. \A m \in 0 .. k : f[m] = g[m]
    OBVIOUS
  <2>3. ASSUME NEW m \in 0 .. k + 1 PROVE g[m] = ItemsAt(rels, m, g)
    <3>1. g[m] = ItemsAt(rels, m, f)
      <4>1. CASE m = k + 1
        BY <4>1
      <4>2. CASE m # k + 1
        <5>1. m \in 0 .. k /\ g[m] = f[m]
          BY <4>2
        <5> HIDE DEF g
        <5> QED
          BY <2>1, <5>1
      <4> QED
        BY <4>1, <4>2
    <3>2. ItemsAt(rels, m, f) = ItemsAt(rels, m, g)
      <4> HIDE DEF g
      <4>1. CASE m = 0
        BY <4>1 DEF ItemsAt
      <4>2. CASE m # 0
        <5>1. m - 1 \in 0 .. k
          BY <4>2
        <5>2. f[m - 1] = g[m - 1]
          BY <2>2, <5>1
        <5> QED
          BY <5>2 DEF ItemsAt
      <4> QED
        BY <4>1, <4>2
    <3> HIDE DEF g
    <3> QED
      BY <3>1, <3>2
  <2>4. g = [m \in 0 .. k + 1 |-> g[m]]
    OBVIOUS
  <2> HIDE DEF g
  <2>5. g = [m \in 0 .. k + 1 |-> ItemsAt(rels, m, g)]
    BY <2>3, <2>4
  <2>6. \E h : h = [m \in 0 .. k + 1 |-> ItemsAt(rels, m, h)]
    BY <2>5
  <2>7. k + 1 \in 0 .. n
    OBVIOUS
  <2> QED
    BY <2>6, <2>7
<1> HIDE DEF T
<1>3. 0 .. n \subseteq T
  BY <1>1, <1>2, IntervalInductionSet
<1> QED
  BY <1>3 DEF T

LEMMA ItemsUnfold ==
  ASSUME NEW rels, Len(rels) \in Nat
  PROVE  /\ ItemsOf(rels) = ItemsIn(rels)[Len(rels)]
         /\ ItemsIn(rels)[0] = <<>>
         /\ \A k \in 1 .. Len(rels) : ItemsIn(rels)[k] = ItemsIn(rels)[k - 1] \o Catalog[rels[k]]
<1>1. ItemsIn(rels) = [k \in 0 .. Len(rels) |-> ItemsAt(rels, k, ItemsIn(rels))]
  BY ItemsExist DEF ItemsIn
<1>2. ItemsOf(rels) = ItemsIn(rels)[Len(rels)]
  BY DEF ItemsOf, ItemsIn, ItemsAt
<1> DEFINE f == ItemsIn(rels)
<1> HIDE DEF f
<1>3. \A k \in 0 .. Len(rels) : f[k] = ItemsAt(rels, k, f)
  BY <1>1 DEF f
<1>4. f[0] = <<>>
  BY <1>3 DEF ItemsAt
<1>5. ASSUME NEW k \in 1 .. Len(rels) PROVE f[k] = f[k - 1] \o Catalog[rels[k]]
  <2>1. k \in 0 .. Len(rels) /\ k # 0
    OBVIOUS
  <2>2. f[k] = ItemsAt(rels, k, f)
    BY <1>3, <2>1
  <2> QED
    BY <2>1, <2>2 DEF ItemsAt
<1> QED
  BY <1>2, <1>4, <1>5 DEF f

(* Two items of the catalog with one name are one item. *)
LEMMA OneType ==
  ASSUME NEW it, NEW jt, InCatalog(it), InCatalog(jt), NameOf(it) = NameOf(jt)
  PROVE  it = jt
<1>1. it.relation_ = jt.relation_ /\ it.attribute_ = jt.attribute_
  BY DEF NameOf, Attribute
<1>2. PICK rel \in DOMAIN Catalog : \E i \in DOMAIN Catalog[rel] : it = Catalog[rel][i]
  BY DEF InCatalog
<1>3. PICK i \in DOMAIN Catalog[rel] : it = Catalog[rel][i]
  BY <1>2
<1>4. PICK sel \in DOMAIN Catalog : \E j \in DOMAIN Catalog[sel] : jt = Catalog[sel][j]
  BY DEF InCatalog
<1>5. PICK j \in DOMAIN Catalog[sel] : jt = Catalog[sel][j]
  BY <1>4
<1>6. rel = sel
  BY <1>1, <1>3, <1>5, CatalogAssumption
<1> QED
  BY <1>1, <1>3, <1>5, <1>6, CatalogAssumption

-----------------------------------------------------------------------------
(* Looking names up *)

\* The schema is filled with the items of the query.
Filled ==
  /\ TypeOK /\ MapsIndexTheArray /\ mapped = Len(schema_)
  /\ \A i \in DOMAIN schema_ : InCatalog(schema_[i])
  /\ schema_ = QueryItems(query)

LEMMA ColumnsAre ==
  ASSUME Filled
  PROVE  /\ DOMAIN schema_ = 1 .. Len(schema_) /\ Len(schema_) \in Nat
         /\ ColumnsOf(query) = {NameOf(schema_[i]) : i \in DOMAIN schema_}
         /\ \A i \in DOMAIN schema_ : /\ schema_[i] \in SchemaItems
                                     /\ NameOf(schema_[i]) \in AttributeNames
                                     /\ NameOf(schema_[i]).attribute # "*"
         /\ IsFiniteSet(ColumnsOf(query))
<1>1. schema_ \in Seq(SchemaItems)
  BY DEF Filled, TypeOK
<1>2. DOMAIN schema_ = 1 .. Len(schema_) /\ Len(schema_) \in Nat
  BY <1>1
<1>3. ColumnsOf(query) = {NameOf(schema_[i]) : i \in DOMAIN schema_}
  BY DEF Filled, ColumnsOf
<1>4. ASSUME NEW i \in DOMAIN schema_
      PROVE  /\ schema_[i] \in SchemaItems /\ NameOf(schema_[i]) \in AttributeNames
             /\ NameOf(schema_[i]).attribute # "*"
  <2>1. schema_[i] \in SchemaItems
    BY <1>1
  <2>2. NameOf(schema_[i]) \in AttributeNames
    BY <2>1, ItemNames DEF NameOf
  <2>3. PICK rel \in DOMAIN Catalog : \E k \in DOMAIN Catalog[rel] : schema_[i] = Catalog[rel][k]
    BY DEF Filled, InCatalog
  <2>4. schema_[i].attribute_ # "*"
    BY <2>3, CatalogAssumption
  <2> QED
    BY <2>1, <2>2, <2>4 DEF NameOf, Attribute
<1>5. IsFiniteSet(ColumnsOf(query))
  <2> DEFINE f == [i \in DOMAIN schema_ |-> NameOf(schema_[i])]
             C == ColumnsOf(query)
  <2>1. IsFiniteSet(DOMAIN schema_)
    BY <1>2, FS_Interval
  <2>2. f \in Surjection(DOMAIN schema_, C)
    BY <1>3 DEF Surjection
  <2> HIDE DEF f, C
  <2> QED
    BY <2>1, <2>2, FS_Surjection DEF C
<1> QED
  BY <1>2, <1>3, <1>4, <1>5

(* Both maps have the columns and no other entry. *)
LEMMA ColumnsIndexed ==
  ASSUME Filled, NEW rel, NEW attr
  PROVE  /\ Indexed(rel_map_, rel, attr) <=> Attribute(rel, attr) \in ColumnsOf(query)
         /\ Indexed(attr_map_, attr, rel) <=> Attribute(rel, attr) \in ColumnsOf(query)
         /\ Indexed(rel_map_, rel, attr) =>
              Item(rel_map_[rel][attr]).type_ = TypeOf(query, Attribute(rel, attr))
<1>1. /\ DOMAIN schema_ = 1 .. Len(schema_) /\ Len(schema_) \in Nat
      /\ ColumnsOf(query) = {NameOf(schema_[i]) : i \in DOMAIN schema_}
      /\ \A i \in DOMAIN schema_ : schema_[i] \in SchemaItems
  BY ColumnsAre
<1>2. TypeOK /\ MapsIndexTheArray /\ mapped = Len(schema_) /\ schema_ = QueryItems(query)
  BY DEF Filled
<1>3. ASSUME NEW i, IsLast(i, rel, attr)
      PROVE  i + 1 \in DOMAIN schema_ /\ NameOf(schema_[i + 1]) = Attribute(rel, attr)
  BY <1>1, <1>2, <1>3 DEF IsLast, Holds, Item, NameOf
<1>4. ASSUME Attribute(rel, attr) \in ColumnsOf(query)
      PROVE  /\ rel \in Relations /\ attr \in Attributes
             /\ \E i \in 0 .. mapped - 1 : Holds(i, rel, attr)
  <2>1. PICK i \in DOMAIN schema_ : NameOf(schema_[i]) = Attribute(rel, attr)
    BY <1>1, <1>4
  <2>2. schema_[i].relation_ = rel /\ schema_[i].attribute_ = attr /\ schema_[i] \in SchemaItems
    BY <1>1, <2>1 DEF NameOf, Attribute
  <2>3. i - 1 \in 0 .. mapped - 1 /\ (i - 1) + 1 = i
    BY <1>1, <1>2
  <2>4. Holds(i - 1, rel, attr)
    BY <2>2, <2>3 DEF Holds, Item
  <2> QED
    BY <2>2, <2>3, <2>4 DEF Relations, Attributes
<1>5. Indexed(rel_map_, rel, attr) \/ Indexed(attr_map_, attr, rel) =>
        rel \in Relations /\ attr \in Attributes
  BY <1>2 DEF TypeOK, NestedMap, Indexed
<1>6. rel \in Relations /\ attr \in Attributes =>
        /\ Indexes(rel_map_, rel, attr, rel, attr)
        /\ Indexes(attr_map_, attr, rel, rel, attr)
  BY <1>2 DEF MapsIndexTheArray
<1>7. ASSUME Indexed(rel_map_, rel, attr)
      PROVE  /\ Attribute(rel, attr) \in ColumnsOf(query)
             /\ Item(rel_map_[rel][attr]).type_ = TypeOf(query, Attribute(rel, attr))
  <2> DEFINE i == rel_map_[rel][attr] + 1
             c == Attribute(rel, attr)
             j == CHOOSE x \in DOMAIN schema_ : NameOf(schema_[x]) = c
  <2>1. IsLast(rel_map_[rel][attr], rel, attr)
    BY <1>5, <1>6, <1>7 DEF Indexes
  <2>2. i \in DOMAIN schema_ /\ NameOf(schema_[i]) = c
    BY <1>3, <2>1
  <2>3. Item(rel_map_[rel][attr]) = schema_[i]
    BY DEF Item
  <2>4. TypeOf(query, c) = schema_[j].type_
    BY <1>2 DEF TypeOf
  <2> HIDE DEF i, c
  <2>5. j \in DOMAIN schema_ /\ NameOf(schema_[j]) = c
    BY <2>2
  <2> HIDE DEF j
  <2>6. schema_[i] = schema_[j]
    BY <2>2, <2>5, OneType DEF Filled
  <2> QED
    BY <1>1, <2>2, <2>3, <2>4, <2>6 DEF c
<1>8. Indexed(attr_map_, attr, rel) => Attribute(rel, attr) \in ColumnsOf(query)
  <2> SUFFICES ASSUME Indexed(attr_map_, attr, rel) PROVE Attribute(rel, attr) \in ColumnsOf(query)
    OBVIOUS
  <2>1. IsLast(attr_map_[attr][rel], rel, attr)
    BY <1>5, <1>6 DEF Indexes
  <2> QED
    BY <1>1, <1>3, <2>1
<1>9. Attribute(rel, attr) \in ColumnsOf(query) =>
        Indexed(rel_map_, rel, attr) /\ Indexed(attr_map_, attr, rel)
  BY <1>4, <1>6 DEF Indexes
<1> QED
  BY <1>7, <1>8, <1>9

(* An attribute resolves iff it names one column, and then to that column. *)
LEMMA NameResolves ==
  ASSUME Filled, NEW a \in AttributeNames
  PROVE  /\ Unresolvable(a) <=> ~NamesOne(query, a)
         /\ NamesOne(query, a) => /\ TheColumn(query, a) \in ColumnsOf(query)
                                  /\ resolve_attribute_item(a) = TheColumn(query, a)
                                  /\ a.attribute # "*"
<1> DEFINE C == ColumnsOf(query)
           N == NamedBy(query, a)
           s == a.attribute
<1>1. /\ IsFiniteSet(C)
      /\ \A c \in C :
           /\ c \in AttributeNames /\ c.attribute # "*"
           /\ c = Attribute(c.relation, c.attribute)
  <2>1. \A c \in C : \E i \in DOMAIN schema_ : c = NameOf(schema_[i])
    BY ColumnsAre
  <2>2. \A it : NameOf(it) = Attribute(NameOf(it).relation, NameOf(it).attribute)
    BY DEF NameOf, Attribute
  <2> HIDE DEF C
  <2> QED
    BY <2>1, <2>2, ColumnsAre DEF C
<1>2. N = {c \in C : c.attribute = s /\ a.relation \in {"", c.relation}}
  BY DEF NamedBy
<1>3. /\ \A rel, attr : Indexed(rel_map_, rel, attr) <=> Attribute(rel, attr) \in C
      /\ \A rel, attr : Indexed(attr_map_, attr, rel) <=> Attribute(rel, attr) \in C
  BY ColumnsIndexed
<1>4. a = Attribute(a.relation, s)
  BY DEF AttributeNames, Attribute
<1>5. IsFiniteSet(N) /\ (NamesOne(query, a) <=> \E c : N = {c})
  <2>1. IsFiniteSet(N)
    BY <1>1, <1>2, FS_Subset
  <2> HIDE DEF N
  <2> QED
    BY <2>1, FS_Singleton DEF NamesOne, N
<1>6. ASSUME NEW c, N = {c}
      PROVE  /\ TheColumn(query, a) = c /\ c \in C
             /\ c.attribute = s /\ c = Attribute(c.relation, s)
             /\ a.relation \in {"", c.relation}
  <2>1. TheColumn(query, a) \in N
    BY <1>6 DEF TheColumn
  <2>2. c \in C /\ c.attribute = s /\ a.relation \in {"", c.relation}
    BY <1>2, <1>6
  <2> HIDE DEF N, C
  <2> QED
    BY <1>1, <1>6, <2>1, <2>2
<1> HIDE DEF C, N
<1>7. CASE a.relation # NoRelation
  <2>1. N = {c \in C : c = a}
    <3>1. \A c \in C : (c.attribute = s /\ a.relation \in {"", c.relation}) <=> c = a
      BY <1>1, <1>4, <1>7 DEF NoRelation
    <3> QED
      BY <1>2, <3>1
  <2>2. Unresolvable(a) <=> a \notin C
    BY <1>3, <1>4, <1>7 DEF Unresolvable, is_attribute_exists, Indexed
  <2>3. (\E c : N = {c}) <=> a \in C
    BY <2>1
  <2>4. resolve_attribute_item(a) = a
    BY <1>7 DEF resolve_attribute_item
  <2>5. \A c : N = {c} => c = a
    BY <2>1
  <2> QED
    BY <1>1, <1>5, <1>6, <2>2, <2>3, <2>4, <2>5 DEF C
<1>8. CASE a.relation = NoRelation
  <2> DEFINE R == IF s \in DOMAIN attr_map_ THEN DOMAIN attr_map_[s] ELSE {}
  <2>1. \A r : r \in R <=> Attribute(r, s) \in C
    BY <1>3 DEF Indexed
  <2>2. N = {c \in C : c.attribute = s}
    BY <1>2, <1>8 DEF NoRelation
  <2> HIDE DEF R
  <2>3. \A r \in R : Attribute(r, s) \in N
    BY <2>1, <2>2 DEF Attribute
  <2>4. \A c \in N : c = Attribute(c.relation, s) /\ c.relation \in R
    BY <1>1, <2>1, <2>2
  <2>5. IsFiniteSet(R)
    <3> DEFINE f == [c \in N |-> c.relation]
    <3>1. \A r : Attribute(r, s).relation = r
      BY DEF Attribute
    <3>2. f \in [N -> R]
      BY <2>4
    <3>3. \A r \in R : \E c \in N : f[c] = r
      BY <2>3, <3>1
    <3>4. f \in Surjection(N, R)
      BY <3>2, <3>3 DEF Surjection
    <3> HIDE DEF f
    <3> QED
      BY <1>5, <3>4, FS_Surjection
  <2>6. count_relation(s) = Cardinality(R)
    <3>1. s \in DOMAIN attr_map_ => R = DOMAIN attr_map_[s]
      BY DEF R
    <3>2. s \notin DOMAIN attr_map_ => R = {}
      BY DEF R
    <3> QED
      BY <3>1, <3>2, FS_EmptySet DEF count_relation
  <2>7. count_relation(s) = 1 <=> \E r : R = {r}
    BY <2>5, <2>6, FS_Singleton
  <2>8. (\E r : R = {r}) <=> (\E c : N = {c})
    <3>1. ASSUME NEW r, R = {r} PROVE N = {Attribute(r, s)}
      BY <2>3, <2>4, <3>1
    <3>2. ASSUME NEW c, N = {c} PROVE R = {c.relation}
      <4>1. \A r \in R : Attribute(r, s) = c
        BY <2>3, <3>2
      <4>2. \A r : Attribute(r, s).relation = r
        BY DEF Attribute
      <4>3. c.relation \in R
        BY <2>4, <3>2
      <4> QED
        BY <4>1, <4>2, <4>3
    <3> QED
      BY <3>1, <3>2
  <2>9. Unresolvable(a) <=> count_relation(s) # 1
    BY <1>8 DEF Unresolvable
  <2>10. ASSUME NEW c, N = {c} PROVE resolve_attribute_item(a) = c
    <3>1. count_relation(s) = 1 /\ c.relation \in R /\ \A r \in R : Attribute(r, s) = c
      BY <2>3, <2>4, <2>7, <2>8, <2>10
    <3>2. s \in DOMAIN attr_map_ /\ R = DOMAIN attr_map_[s]
      BY <3>1 DEF R
    <3>3. get_relation(s) = CHOOSE rel \in R : TRUE
      BY <3>1, <3>2 DEF get_relation
    <3>4. get_relation(s) \in R
      BY <3>1, <3>3
    <3>5. Attribute(get_relation(s), s) = c
      BY <3>1, <3>4
    <3>6. resolve_attribute_item(a) = [a EXCEPT !.relation = get_relation(s)]
      BY <1>8 DEF resolve_attribute_item
    <3>7. \A r : [a EXCEPT !.relation = r] = Attribute(r, s)
      BY DEF AttributeNames, Attribute
    <3> QED
      BY <3>5, <3>6, <3>7
  <2> QED
    BY <1>1, <1>5, <1>6, <2>7, <2>8, <2>9, <2>10 DEF C
<1> QED
  BY <1>7, <1>8

LEMMA OperandResolves ==
  ASSUME Filled, NEW o \in Operands, IsAttr(o) => NamesOne(query, o.attr)
  PROVE  LET x == resolve_operand(o)
         IN  /\ IsAttr(x) <=> IsAttr(o)
             /\ IsAttr(o) => resolve_operand_type(x) = TypeOf(query, TheColumn(query, o.attr))
             /\ ~IsAttr(o) => x = o /\ resolve_operand_type(x) = o.val.type
<1>1. CASE ~IsAttr(o)
  BY <1>1 DEF resolve_operand, resolve_operand_type
<1>2. CASE IsAttr(o)
  <2> DEFINE c == TheColumn(query, o.attr)
             x == resolve_operand(o)
  <2>1. o.attr \in AttributeNames
    BY <1>2 DEF Operands, IsAttr
  <2>2. c \in ColumnsOf(query) /\ resolve_attribute_item(o.attr) = c
    BY <1>2, <2>1, NameResolves
  <2>3. x = [attr |-> c]
    BY <1>2, <2>2 DEF resolve_operand
  <2>4. c = Attribute(c.relation, c.attribute)
    <3>1. PICK i \in DOMAIN schema_ : c = NameOf(schema_[i])
      BY <2>2, ColumnsAre
    <3> HIDE DEF c
    <3> QED
      BY <3>1 DEF NameOf, Attribute
  <2> HIDE DEF c, x
  <2>5. IsAttr(x) /\ x.attr = c
    BY <2>3 DEF IsAttr
  <2>6. Indexed(rel_map_, c.relation, c.attribute)
    BY <2>2, <2>4, ColumnsIndexed
  <2>7. Item(rel_map_[c.relation][c.attribute]).type_ = TypeOf(query, c)
    BY <2>4, <2>6, ColumnsIndexed
  <2>8. resolve_operand_type(x) = TypeOf(query, c)
    BY <2>5, <2>7 DEF resolve_operand_type, get_attribute_schema, get_attribute_id
  <2> QED
    BY <1>2, <2>5, <2>8 DEF c, x
<1> QED
  BY <1>1, <1>2

(* A leaf passes the checks iff it is well-typed. *)
LEMMA LeafChecked ==
  ASSUME Filled, NEW leaf, leaf.operand \in Seq(Operands), Len(leaf.operand) = 2
  PROVE  LeafResolves(leaf) <=> WellTyped(query, leaf)
<1> DEFINE l == leaf.operand[1]
           r == leaf.operand[2]
           x == resolve_operand(l)
           y == resolve_operand(r)
           Named == /\ IsAttr(l) => NamesOne(query, l.attr)
                    /\ IsAttr(r) => NamesOne(query, r.attr)
           Same == TypeBeside(query, l, r) = TypeBeside(query, r, l)
<1>1. DOMAIN leaf.operand = {1, 2} /\ l \in Operands /\ r \in Operands
  OBVIOUS
<1>2. \A o \in {l, r} : IsAttr(o) => (Unresolvable(o.attr) <=> ~NamesOne(query, o.attr))
  <2>1. ASSUME NEW o \in {l, r}, IsAttr(o) PROVE o.attr \in AttributeNames
    <3>1. o \in Operands
      BY <1>1
    <3> QED
      BY <2>1, <3>1 DEF Operands, IsAttr
  <2> HIDE DEF l, r
  <2> QED
    BY <2>1, NameResolves
<1>3. LeafResolves(leaf) <=> Named /\ is_valid_compare(x, y)
  <2>1. LeafResolves(leaf) <=> /\ \A i \in {1, 2} : IsAttr(leaf.operand[i]) =>
                                    ~Unresolvable(leaf.operand[i].attr)
                               /\ is_valid_compare(x, y)
    BY <1>1 DEF LeafResolves
  <2>2. (\A i \in {1, 2} : IsAttr(leaf.operand[i]) => ~Unresolvable(leaf.operand[i].attr)) <=> Named
    BY <1>2
  <2> HIDE DEF x, y, Named
  <2> QED
    BY <2>1, <2>2
<1>4. WellTyped(query, leaf) <=> Named /\ Same
  BY DEF WellTyped
<1>5. ASSUME Named PROVE is_valid_compare(x, y) <=> Same
  <2>1. /\ IsAttr(x) <=> IsAttr(l)
        /\ IsAttr(l) => resolve_operand_type(x) = TypeOf(query, TheColumn(query, l.attr))
        /\ ~IsAttr(l) => x = l /\ resolve_operand_type(x) = l.val.type
    <3> HIDE DEF l, r
    <3> QED
      BY <1>1, <1>5, OperandResolves
  <2>2. /\ IsAttr(y) <=> IsAttr(r)
        /\ IsAttr(r) => resolve_operand_type(y) = TypeOf(query, TheColumn(query, r.attr))
        /\ ~IsAttr(r) => y = r /\ resolve_operand_type(y) = r.val.type
    <3> HIDE DEF l, r
    <3> QED
      BY <1>1, <1>5, OperandResolves
  <2> HIDE DEF l, r, x, y
  <2>3. MeetsDate(x, y) <=> IsText(l) /\ IsDateColumn(query, r)
    BY <2>1, <2>2 DEF MeetsDate, IsText, IsDateColumn
  <2>4. MeetsDate(y, x) <=> IsText(r) /\ IsDateColumn(query, l)
    BY <2>1, <2>2 DEF MeetsDate, IsText, IsDateColumn
  <2>5. CASE IsText(l) /\ IsDateColumn(query, r)
    <3>1. x = l /\ ~IsAttr(l) /\ IsAttr(r)
      BY <2>1, <2>5 DEF IsText, IsDateColumn
    <3>2. MeetsDate(x, y) /\ ~MeetsDate(y, x) /\ x.val.data = l.val.data
      BY <2>2, <2>3, <2>5, <3>1 DEF MeetsDate
    <3>3. is_valid_compare(x, y) <=> l.val.data \in DOMAIN DateOf
      BY <3>2 DEF is_valid_compare
    <3>4. TypeBeside(query, l, r) = IF l.val.data \in DOMAIN DateOf THEN "date" ELSE "none"
      BY <2>5, <3>1 DEF TypeBeside
    <3>5. TypeBeside(query, r, l) = "date"
      BY <2>5, <3>1 DEF TypeBeside, IsDateColumn
    <3> QED
      BY <3>3, <3>4, <3>5
  <2>6. CASE IsText(r) /\ IsDateColumn(query, l)
    <3>1. y = r /\ ~IsAttr(r) /\ IsAttr(l)
      BY <2>2, <2>6 DEF IsText, IsDateColumn
    <3>2. ~MeetsDate(x, y) /\ MeetsDate(y, x)
      BY <2>1, <2>4, <2>6, <3>1 DEF MeetsDate
    <3>3. is_valid_compare(x, y) <=> r.val.data \in DOMAIN DateOf
      BY <3>1, <3>2 DEF is_valid_compare
    <3>4. TypeBeside(query, r, l) = IF r.val.data \in DOMAIN DateOf THEN "date" ELSE "none"
      BY <2>6, <3>1 DEF TypeBeside
    <3>5. TypeBeside(query, l, r) = "date"
      BY <2>6, <3>1 DEF TypeBeside, IsDateColumn
    <3> QED
      BY <3>3, <3>4, <3>5
  <2>7. CASE ~(IsText(l) /\ IsDateColumn(query, r)) /\ ~(IsText(r) /\ IsDateColumn(query, l))
    <3>1. is_valid_compare(x, y) <=> resolve_operand_type(x) = resolve_operand_type(y)
      BY <2>3, <2>4, <2>7 DEF is_valid_compare
    <3>2. TypeBeside(query, l, r) = resolve_operand_type(x)
      BY <2>1, <2>7 DEF TypeBeside
    <3>3. TypeBeside(query, r, l) = resolve_operand_type(y)
      BY <2>2, <2>7 DEF TypeBeside
    <3> QED
      BY <3>1, <3>2, <3>3
  <2> QED
    BY <2>5, <2>6, <2>7
<1> HIDE DEF l, r, x, y, Named, Same
<1> QED
  BY <1>3, <1>4, <1>5

(* ... and two values that passed them are of one type. *)
LEMMA RewrittenFits ==
  ASSUME NEW x, NEW y, is_valid_compare(x, y),
         ~IsAttr(set_value(x, y)), ~IsAttr(set_value(y, x))
  PROVE  set_value(x, y).val.type = set_value(y, x).val.type
<1>1. ~IsAttr(x) /\ ~IsAttr(y)
  BY DEF set_value, MeetsDate
<1>2. ~MeetsDate(x, y) /\ ~MeetsDate(y, x)
  BY <1>1 DEF MeetsDate
<1>3. resolve_operand_type(x) = resolve_operand_type(y)
  BY <1>2 DEF is_valid_compare
<1> QED
  BY <1>1, <1>2, <1>3 DEF set_value, resolve_operand_type

\* No two pointers of the first n predicates are the same.
Unshared(p, n) ==
  \A x, y \in 1 .. n : \A j \in DOMAIN p[x].child : \A k \in DOMAIN p[y].child :
    p[x].child[j] = p[y].child[k] => x = y /\ j = k

LEMMA ChildrenApart ==
  ASSUME NEW p, NEW n \in Nat, Formed(p, n), Unshared(p, n), NEW m \in 1 .. n,
         NEW i \in DOMAIN p[m].child, NEW j \in DOMAIN p[m].child, i # j
  PROVE  BelowOf(p, n)[p[m].child[i]] \cap BelowOf(p, n)[p[m].child[j]] = {}
<1> DEFINE c == p[m].child[i]
           d == p[m].child[j]
           S == BelowOf(p, n)[c]
           Q == BelowOf(p, n)[d]
<1>1. c \in 1 .. m - 1 /\ d \in 1 .. m - 1
  BY DEF Formed
<1>2. c # d
  BY DEF Unshared
<1>3. Ordered(p, n)
  BY DEF Ordered, Formed
<1>4. c \in 1 .. n /\ d \in 1 .. n
  <2> HIDE DEF c, d
  <2> QED
    BY <1>1
<1>5. IsBelow(p, c, S) /\ IsBelow(p, d, Q)
  BY <1>3, <1>4, BelowAll
<1>6. \A x \in 1 .. n : \A k \in DOMAIN p[x].child :
        p[x].child[k] \in {c, d} => x = m
  BY DEF Unshared
<1> HIDE DEF c, d, S, Q
<1>7. \A x \in S \cup Q : x \in 1 .. n /\ x # m
  <2>1. S \subseteq 1 .. c /\ Q \subseteq 1 .. d
    BY <1>5 DEF IsBelow
  <2> QED
    BY <1>1, <2>1
<1>8. c \notin Q
  <2> SUFFICES ASSUME c \in Q PROVE FALSE
    OBVIOUS
  <2>1. PICK y \in Q : \E k \in DOMAIN p[y].child : p[y].child[k] = c
    BY <1>2, <1>5 DEF IsBelow
  <2> QED
    BY <1>6, <1>7, <2>1
<1>9. ASSUME NEW u \in S \ Q, NEW k \in DOMAIN p[u].child
      PROVE  p[u].child[k] \in {NoPredicate} \cup (S \ Q)
  <2>1. p[u].child[k] # d
    BY <1>6, <1>7
  <2>2. p[u].child[k] \in {NoPredicate} \cup S
    BY <1>5 DEF IsBelow, ClosedBelow
  <2>3. p[u].child[k] \notin Q
    <3> SUFFICES ASSUME p[u].child[k] \in Q PROVE FALSE
      OBVIOUS
    <3>1. PICK v \in Q : \E l \in DOMAIN p[v].child : p[v].child[l] = p[u].child[k]
      BY <1>5, <2>1 DEF IsBelow
    <3>2. v = u
      BY <1>7, <3>1 DEF Unshared
    <3> QED
      BY <3>2
  <2> QED
    BY <2>2, <2>3
<1>10. S \subseteq S \ Q
  <2>1. c \in S \ Q /\ ClosedBelow(p, S \ Q)
    BY <1>5, <1>8, <1>9 DEF IsBelow, ClosedBelow
  <2> QED
    BY <1>5, <2>1 DEF IsBelow
<1> QED
  BY <1>10 DEF S, Q, c, d

\* A list of nodes of S, each of them once.
ListsOnce(s, S) == s \in Seq(S) /\ \A i, j \in DOMAIN s : s[i] = s[j] => i = j

LEMMA ConcatOnce ==
  ASSUME NEW S, NEW Q, S \cap Q = {}, NEW s, NEW q, ListsOnce(s, S), ListsOnce(q, Q)
  PROVE  ListsOnce(s \o q, S \cup Q)
<1>1. s \in Seq(S \cup Q) /\ q \in Seq(S \cup Q)
  BY DEF ListsOnce
<1> DEFINE c == s \o q
<1>2. /\ c \in Seq(S \cup Q) /\ DOMAIN c = 1 .. Len(s) + Len(q)
      /\ \A i \in 1 .. Len(s) : c[i] = s[i]
      /\ \A i \in Len(s) + 1 .. Len(s) + Len(q) : c[i] = q[i - Len(s)]
      /\ DOMAIN s = 1 .. Len(s) /\ DOMAIN q = 1 .. Len(q) /\ Len(s) \in Nat /\ Len(q) \in Nat
  BY <1>1
<1> HIDE DEF c
<1>3. /\ \A i \in 1 .. Len(s) : s[i] \in S
      /\ \A i \in 1 .. Len(q) : q[i] \in Q
  BY <1>2 DEF ListsOnce
<1>4. ASSUME NEW i \in DOMAIN c
      PROVE  \/ i \in 1 .. Len(s) /\ c[i] = s[i] /\ c[i] \in S
             \/ i - Len(s) \in 1 .. Len(q) /\ c[i] = q[i - Len(s)] /\ c[i] \in Q /\ i > Len(s)
  <2>1. CASE i \in 1 .. Len(s)
    BY <1>2, <1>3, <2>1
  <2>2. CASE i \notin 1 .. Len(s)
    <3>1. i \in Len(s) + 1 .. Len(s) + Len(q) /\ i - Len(s) \in 1 .. Len(q)
      BY <1>2, <2>2
    <3> QED
      BY <1>2, <1>3, <3>1
  <2> QED
    BY <2>1, <2>2
<1>5. ASSUME NEW i \in DOMAIN c, NEW j \in DOMAIN c, c[i] = c[j] PROVE i = j
  <2>1. CASE c[i] \in S
    <3>1. i \in 1 .. Len(s) /\ j \in 1 .. Len(s) /\ s[i] = s[j]
      BY <1>4, <1>5, <2>1
    <3> QED
      BY <1>2, <3>1 DEF ListsOnce
  <2>2. CASE c[i] \notin S
    <3>1. /\ i - Len(s) \in 1 .. Len(q) /\ j - Len(s) \in 1 .. Len(q)
          /\ q[i - Len(s)] = q[j - Len(s)]
      BY <1>4, <1>5, <2>2
    <3>2. i - Len(s) = j - Len(s)
      BY <1>2, <3>1 DEF ListsOnce
    <3>3. i \in Nat /\ j \in Nat
      BY <1>2
    <3> QED
      BY <1>2, <3>2, <3>3
  <2> QED
    BY <2>1, <2>2
<1> QED
  BY <1>2, <1>5 DEF c, ListsOnce

(* The list of the leaves below n has each of them once. *)
LEMMA LeavesOnce ==
  ASSUME NEW p, NEW n \in Nat \ {0}, Formed(p, n), Unshared(p, n)
  PROVE  ListsOnce(LeavesOf(p, n), SubPredicates(p, n))
<1> DEFINE f == LeavesIn(p, n)
           b == BelowOf(p, n)
           G == {m \in Nat : m \in 1 .. n => ListsOnce(f[m], b[m])}
<1>1. Ordered(p, n)
  BY DEF Ordered, Formed
<1>2. /\ LeavesOf(p, n) = f[n] /\ \A m \in 1 .. n : f[m] = LeavesAt(p, m, f)
      /\ SubPredicates(p, n) = b[n] /\ \A m \in 0 .. n : b[m] = BelowAt(p, m, b)
  BY <1>1, LeavesUnfold, BelowUnfolds
<1>3. \A m \in 1 .. n : \A i, j \in DOMAIN p[m].child :
        i # j => b[p[m].child[i]] \cap b[p[m].child[j]] = {}
  BY ChildrenApart
<1> HIDE DEF f, b
<1>4. ASSUME NEW m \in Nat, \A x \in 0 .. m - 1 : x \in G
      PROVE  m \in G
  <2> SUFFICES ASSUME m \in 1 .. n PROVE ListsOnce(f[m], b[m])
    BY DEF G
  <2> DEFINE ch == p[m].child
  <2>1. /\ p[m].kind \in {"Leaf", "Raw", "And", "Or", "Not"}
        /\ p[m].kind \in {"Leaf", "Raw"} => DOMAIN ch = {}
        /\ p[m].kind = "Not" => DOMAIN ch = {1}
        /\ p[m].kind \in {"And", "Or"} => DOMAIN ch = {1, 2}
        /\ \A k \in DOMAIN ch : ch[k] \in 1 .. m - 1
    BY DEF Formed
  <2>2. f[m] = LeavesAt(p, m, f)
    BY <1>2
  <2>3. b[m] = {m} \cup UNION {b[ch[k]] : k \in DOMAIN ch}
    <3>1. b[m] = BelowAt(p, m, b) /\ m # 0
      BY <1>2
    <3> QED
      BY <3>1 DEF BelowAt, NoPredicate
  <2>4. \A k \in DOMAIN ch : ListsOnce(f[ch[k]], b[ch[k]])
    <3>1. ASSUME NEW k \in DOMAIN ch PROVE ListsOnce(f[ch[k]], b[ch[k]])
      <4>1. ch[k] \in 1 .. m - 1
        BY <2>1
      <4> HIDE DEF ch
      <4>2. ch[k] \in 0 .. m - 1 /\ ch[k] \in 1 .. n
        BY <4>1
      <4>3. ch[k] \in G
        BY <1>4, <4>2
      <4> QED
        BY <4>2, <4>3 DEF G
    <3> QED
      BY <3>1
  <2>5. \A i, j \in DOMAIN ch : i # j => b[ch[i]] \cap b[ch[j]] = {}
    BY <1>3
  <2> HIDE DEF ch, G
  <2>6. CASE p[m].kind = "Leaf"
    <3>1. f[m] = <<m>> /\ m \in b[m]
      BY <2>2, <2>3, <2>6 DEF LeavesAt
    <3>2. \A S : m \in S => <<m>> \in Seq(S)
      OBVIOUS
    <3>3. \A i, j \in DOMAIN <<m>> : i = j
      OBVIOUS
    <3> QED
      BY <3>1, <3>2, <3>3 DEF ListsOnce
  <2>7. CASE p[m].kind = "Raw"
    <3>1. f[m] = <<>>
      BY <2>2, <2>7 DEF LeavesAt
    <3>2. <<>> \in Seq(b[m]) /\ DOMAIN <<>> = {}
      OBVIOUS
    <3> QED
      BY <3>1, <3>2 DEF ListsOnce
  <2>8. CASE p[m].kind = "Not"
    <3>1. f[m] = f[ch[1]]
      BY <2>2, <2>8 DEF LeavesAt, ch
    <3>2. b[ch[1]] \subseteq b[m] /\ ListsOnce(f[ch[1]], b[ch[1]])
      BY <2>1, <2>3, <2>4, <2>8
    <3> QED
      BY <3>1, <3>2 DEF ListsOnce
  <2>9. CASE p[m].kind \in {"And", "Or"}
    <3>1. f[m] = f[ch[1]] \o f[ch[2]]
      BY <2>2, <2>9 DEF LeavesAt, ch
    <3>2. b[ch[1]] \cup b[ch[2]] \subseteq b[m]
      BY <2>1, <2>3, <2>9
    <3>3. /\ ListsOnce(f[ch[1]], b[ch[1]]) /\ ListsOnce(f[ch[2]], b[ch[2]])
          /\ b[ch[1]] \cap b[ch[2]] = {}
      BY <2>1, <2>4, <2>5, <2>9
    <3>4. ListsOnce(f[m], b[ch[1]] \cup b[ch[2]])
      BY <3>1, <3>3, ConcatOnce
    <3> QED
      BY <3>2, <3>4 DEF ListsOnce
  <2> QED
    BY <2>1, <2>6, <2>7, <2>8, <2>9
<1>5. n \in G
  <2> HIDE DEF G
  <2>1. Nat \subseteq G
    BY <1>4, StrongInductionSet
  <2> QED
    BY <2>1
<1> QED
  BY <1>2, <1>5 DEF G

(* The leaves below n are found by kinds and children alone. *)
LEMMA SameLeaves ==
  ASSUME NEW p, NEW g, NEW n \in Nat \ {0}, Formed(p, n),
         \A m \in 1 .. n : g[m].kind = p[m].kind /\ g[m].child = p[m].child
  PROVE  LeavesOf(g, n) = LeavesOf(p, n)
<1> DEFINE f == LeavesIn(p, n)
           h == LeavesIn(g, n)
           G == {m \in Nat : m \in 1 .. n => f[m] = h[m]}
<1>1. Formed(g, n)
  BY DEF Formed
<1>2. /\ LeavesOf(p, n) = f[n] /\ \A m \in 1 .. n : f[m] = LeavesAt(p, m, f)
      /\ LeavesOf(g, n) = h[n] /\ \A m \in 1 .. n : h[m] = LeavesAt(g, m, h)
  BY <1>1, LeavesUnfold
<1> HIDE DEF f, h
<1>3. ASSUME NEW m \in Nat, \A x \in 0 .. m - 1 : x \in G
      PROVE  m \in G
  <2> SUFFICES ASSUME m \in 1 .. n PROVE f[m] = h[m]
    BY DEF G
  <2>1. ASSUME NEW x \in 1 .. m - 1 PROVE f[x] = h[x]
    <3>1. x \in 0 .. m - 1 /\ x \in 1 .. n
      OBVIOUS
    <3>2. x \in G
      BY <1>3, <3>1
    <3> QED
      BY <3>1, <3>2 DEF G
  <2>2. LeavesAt(p, m, f) = LeavesAt(p, m, h)
    BY <2>1, LeavesAtBelow
  <2>3. LeavesAt(g, m, h) = LeavesAt(p, m, h)
    BY DEF LeavesAt
  <2> QED
    BY <1>2, <2>2, <2>3
<1>4. n \in G
  <2> HIDE DEF G
  <2>1. Nat \subseteq G
    BY <1>3, StrongInductionSet
  <2> QED
    BY <2>1
<1> QED
  BY <1>2, <1>4 DEF G

(* In a condition every node is below the root. *)
LEMMA ConditionFormed ==
  ASSUME NEW p \in Seq(Predicates), NEW root \in Nat \ {0}, IsCondition(p, root)
  PROVE  /\ Formed(p, root) /\ Unshared(p, root)
         /\ DOMAIN p = 1 .. root /\ SubPredicates(p, root) = 1 .. root
<1>1. /\ root = Len(p) /\ DOMAIN p = 1 .. root
      /\ \A m \in DOMAIN p : p[m].kind \in {"Leaf", "And", "Or", "Not"}
  BY ConditionShape
<1>2. ASSUME NEW m \in 1 .. root
      PROVE  /\ p[m].kind \in {"Leaf", "Raw"} => DOMAIN p[m].child = {}
             /\ p[m].kind = "Not" => DOMAIN p[m].child = {1}
             /\ p[m].kind \in {"And", "Or"} => DOMAIN p[m].child = {1, 2}
             /\ \A k \in DOMAIN p[m].child : p[m].child[k] \in 1 .. m - 1
  <2>1. p[m] \in Predicates
    BY <1>1
  <2>2. p[m].child \in Seq(Nat)
    BY <2>1, NodeTyped
  <2>3. DOMAIN p[m].child = 1 .. Len(p[m].child)
    BY <2>2
  <2>4. NodeOK(p, m)
    BY <1>1, ConditionShape
  <2>5. 1 .. 0 = {} /\ 1 .. 1 = {1} /\ 1 .. 2 = {1, 2}
    OBVIOUS
  <2>6. \A k \in DOMAIN p[m].child : p[m].child[k] \in 1 .. m - 1
    BY <1>1 DEF IsCondition
  <2> QED
    BY <2>3, <2>4, <2>5, <2>6 DEF NodeOK
<1>3. Formed(p, root)
  BY <1>1, <1>2 DEF Formed
<1>4. Unshared(p, root)
  BY <1>1 DEF Unshared, IsCondition
<1>5. \A m \in 1 .. root - 1 : \E x \in 1 .. root : \E k \in DOMAIN p[x].child : p[x].child[k] = m
  BY <1>1 DEF IsCondition
<1> DEFINE S == SubPredicates(p, root)
<1>6. Ordered(p, root)
  BY <1>3 DEF Ordered, Formed
<1>7. root \in S /\ S \subseteq 1 .. root /\ ClosedBelow(p, S)
  BY <1>6, BelowIs
<1> HIDE DEF S
<1>8. 1 .. root \subseteq S
  <2> SUFFICES ASSUME (1 .. root) \ S # {} PROVE FALSE
    OBVIOUS
  <2> DEFINE T == {root - m : m \in (1 .. root) \ S}
  <2>1. T \in SUBSET Nat /\ T # {}
    OBVIOUS
  <2> HIDE DEF T
  <2>2. PICK t \in T : \A y \in T : t <= y
    BY <2>1, LeastNatural
  <2>3. PICK m \in (1 .. root) \ S : t = root - m
    BY <2>2 DEF T
  <2>4. m \in 1 .. root - 1
    BY <1>7, <2>3
  <2>5. PICK x \in 1 .. root : \E k \in DOMAIN p[x].child : p[x].child[k] = m
    BY <1>5, <2>4
  <2>6. m \in 1 .. x - 1
    BY <1>3, <2>5 DEF Formed
  <2>7. x \notin S
    BY <1>7, <2>3, <2>5, <2>6 DEF ClosedBelow, NoPredicate
  <2>8. root - x \in T /\ ~(t <= root - x)
    BY <2>3, <2>5, <2>6, <2>7 DEF T
  <2> QED
    BY <2>2, <2>8
<1> QED
  BY <1>1, <1>3, <1>4, <1>7, <1>8 DEF S

-----------------------------------------------------------------------------
(* Resolving relations *)

LEMMA HeadMoves ==
  ASSUME NEW S, NEW s \in Seq(S), NEW t \in Seq(S), t # <<>>
  PROVE  Append(s, Head(t)) \o Tail(t) = s \o t
<1>1. /\ Len(t) \in Nat \ {0} /\ Tail(t) \in Seq(S) /\ Len(Tail(t)) = Len(t) - 1
      /\ \A i \in 1 .. Len(t) - 1 : Tail(t)[i] = t[i + 1]
      /\ Head(t) = t[1] /\ Head(t) \in S
  OBVIOUS
<1> DEFINE a == Append(s, Head(t))
           w == Tail(t)
<1>2. /\ a \in Seq(S) /\ Len(a) = Len(s) + 1 /\ Len(s) \in Nat
      /\ \A i \in 1 .. Len(s) : a[i] = s[i]
      /\ a[Len(s) + 1] = Head(t)
  BY <1>1
<1> HIDE DEF a, w
<1>3. a \o w \in Seq(S) /\ Len(a \o w) = Len(s) + Len(t)
  BY <1>1, <1>2 DEF w
<1>4. s \o t \in Seq(S) /\ Len(s \o t) = Len(s) + Len(t)
  BY <1>1, <1>2
<1>5. ASSUME NEW i \in 1 .. Len(s) + Len(t) PROVE (a \o w)[i] = (s \o t)[i]
  <2>1. CASE i \in 1 .. Len(s)
    BY <1>1, <1>2, <2>1 DEF w
  <2>2. CASE i = Len(s) + 1
    <3>1. (a \o w)[i] = a[i]
      BY <1>1, <1>2, <2>2 DEF w
    <3>2. (s \o t)[i] = t[1]
      BY <1>1, <1>2, <2>2
    <3> QED
      BY <1>1, <1>2, <2>2, <3>1, <3>2
  <2>3. CASE i > Len(s) + 1
    <3>1. (a \o w)[i] = w[i - (Len(s) + 1)]
      BY <1>1, <1>2, <2>3 DEF w
    <3>2. (s \o t)[i] = t[i - Len(s)]
      BY <1>1, <1>2, <2>3
    <3>3. /\ i - (Len(s) + 1) \in 1 .. Len(t) - 1
          /\ (i - (Len(s) + 1)) + 1 = i - Len(s)
      BY <1>1, <1>2, <2>3
    <3>4. w[i - (Len(s) + 1)] = t[(i - (Len(s) + 1)) + 1]
      BY <1>1, <3>3 DEF w
    <3> QED
      BY <3>1, <3>2, <3>3, <3>4
  <2>4. i \in 1 .. Len(s) \/ i = Len(s) + 1 \/ i > Len(s) + 1
    BY <1>2
  <2> QED
    BY <2>1, <2>2, <2>3, <2>4
<1>6. \A x, y \in Seq(S) :
        (Len(x) = Len(y) /\ \A i \in 1 .. Len(x) : x[i] = y[i]) => x = y
  OBVIOUS
<1> QED
  BY <1>3, <1>4, <1>5, <1>6 DEF a, w

Late == {"attributes", "leaves", "folding", "splitting"}

LEMMA NamesStay ==
  ASSUME NamesSo, query' = query, relations' = relations, items' = items, UNCHANGED schemaVars,
         stage' \in Late => stage \in Late, stage' = "relations" => stage = "relations"
  PROVE  NamesSo'
<1>1. /\ schema_' = schema_ /\ rel_map_' = rel_map_ /\ attr_map_' = attr_map_
      /\ mapped' = mapped
  BY DEF schemaVars
<1>2. MapsIndexTheArray'
  BY <1>1 DEF NamesSo, MapsIndexTheArray, Indexes, IsLast, Holds, Item, Indexed
<1>3. \A k : ResolvedUpto(k)' <=> ResolvedUpto(k)
  BY <1>1 DEF ResolvedUpto
<1> QED
  BY <1>1, <1>2, <1>3 DEF NamesSo, Late

LEMMA NextRelationNames ==
  ASSUME OwnershipInv, NamesSo, NextRelation
  PROVE  NamesSo'
<1>1. /\ stage = "relations" /\ stage' = stage /\ items = <<>> /\ relations # <<>>
      /\ Head(relations) \in DOMAIN Catalog /\ items' = Catalog[Head(relations)]
      /\ relations' = Tail(relations) /\ query' = query /\ UNCHANGED schemaVars
  BY DEF NextRelation
<1>2. /\ schema_' = schema_ /\ rel_map_' = rel_map_ /\ attr_map_' = attr_map_
      /\ mapped' = mapped
  BY <1>1 DEF schemaVars
<1>3. MapsIndexTheArray'
  BY <1>2 DEF NamesSo, MapsIndexTheArray, Indexes, IsLast, Holds, Item, Indexed
<1>4. /\ relations \in Seq(STRING) /\ query.relations \in Seq(STRING)
      /\ schema_ \in Seq(SchemaItems)
  BY DEF OwnershipInv, ListsOK, TypeOK, SelectQueries
<1>5. PICK k \in Nat : ResolvedUpto(k)
  BY <1>1 DEF NamesSo
<1> DEFINE r == query.relations
           n == Len(relations)
<1>6. /\ n \in Nat \ {0} /\ Head(relations) = relations[1] /\ DOMAIN relations = 1 .. n
      /\ Len(relations') = n - 1 /\ DOMAIN relations' = 1 .. n - 1
      /\ \A i \in 1 .. n - 1 : relations'[i] = relations[i + 1]
  BY <1>1, <1>4
<1>7. Len(r) \in Nat
  BY <1>4
<1>8. /\ k \in 0 .. Len(r) /\ n = Len(r) - k
      /\ \A i \in 1 .. n : relations[i] = r[k + i]
      /\ \A i \in 1 .. k : r[i] \in DOMAIN Catalog
      /\ schema_ \o items = ItemsIn(r)[k]
  BY <1>5, <1>6 DEF ResolvedUpto
<1> HIDE DEF r, n
<1>9. k + 1 \in 1 .. Len(r) /\ (k + 1) - 1 = k /\ k + 1 \in 0 .. Len(r) /\ 1 \in 1 .. n
  BY <1>6, <1>7, <1>8
<1>10. Head(relations) = r[k + 1] /\ r[k + 1] \in DOMAIN Catalog
  BY <1>1, <1>6, <1>8, <1>9
<1>11. ASSUME NEW i \in 1 .. n - 1 PROVE relations'[i] = r[(k + 1) + i]
  <2>1. i + 1 \in 1 .. n /\ k + (i + 1) = (k + 1) + i
    <3>1. n \in Nat /\ i \in Nat
      BY <1>6
    <3> QED
      BY <3>1
  <2>2. relations[i + 1] = r[k + (i + 1)]
    BY <1>8, <2>1
  <2> QED
    BY <1>6, <2>1, <2>2
<1>12. ASSUME NEW i \in 1 .. k + 1 PROVE r[i] \in DOMAIN Catalog
  <2>1. i = k + 1 \/ i \in 1 .. k
    OBVIOUS
  <2> QED
    BY <1>8, <1>10, <2>1
<1>13. schema_ \o items' = ItemsIn(r)[k + 1]
  <2>1. schema_ \o <<>> = schema_
    BY <1>4
  <2>2. schema_ = ItemsIn(r)[k]
    BY <1>1, <1>8, <2>1
  <2>3. ItemsIn(r)[k + 1] = ItemsIn(r)[(k + 1) - 1] \o Catalog[r[k + 1]]
    BY <1>7, <1>9, ItemsUnfold
  <2> QED
    BY <1>1, <1>9, <1>10, <2>2, <2>3
<1>14. n - 1 = Len(r) - (k + 1)
  BY <1>6, <1>7, <1>8
<1>15. ResolvedUpto(k + 1)'
  BY <1>1, <1>2, <1>6, <1>9, <1>11, <1>12, <1>13, <1>14 DEF ResolvedUpto, r
<1>16. \A i \in DOMAIN items' : InCatalog(items'[i])
  BY <1>1 DEF InCatalog
<1>17. k + 1 \in Nat
  OBVIOUS
<1> QED
  BY <1>1, <1>2, <1>3, <1>15, <1>16, <1>17 DEF NamesSo

LEMMA AppendItemNames ==
  ASSUME OwnershipInv, NamesSo, AppendItem
  PROVE  NamesSo'
<1>1. /\ stage = "relations" /\ stage' = stage /\ items # <<>> /\ append_schema(Head(items))
      /\ items' = Tail(items) /\ relations' = relations /\ query' = query
  BY DEF AppendItem
<1>2. /\ items \in Seq(SchemaItems) /\ TypeOK /\ schema_ \in Seq(SchemaItems)
  BY DEF OwnershipInv, ListsOK, TypeOK
<1>3. Head(items) \in SchemaItems
  BY <1>1, <1>2
<1>4. MapsIndexTheArray'
  BY <1>1, <1>2, <1>3, AppendIndexed DEF NamesSo
<1>5. schema_' = Append(schema_, Head(items)) /\ mapped' = mapped + 1
  BY <1>1 DEF append_schema
<1>6. schema_' \o items' = schema_ \o items
  BY <1>1, <1>2, <1>5, HeadMoves
<1>7. PICK k \in Nat : ResolvedUpto(k)
  BY <1>1 DEF NamesSo
<1>8. ResolvedUpto(k)'
  BY <1>1, <1>6, <1>7 DEF ResolvedUpto
<1>9. mapped' = Len(schema_')
  BY <1>2, <1>5 DEF NamesSo
<1>10. /\ Len(items) \in Nat \ {0} /\ DOMAIN items = 1 .. Len(items) /\ Head(items) = items[1]
       /\ DOMAIN items' = 1 .. Len(items) - 1
       /\ \A i \in 1 .. Len(items) - 1 : items'[i] = items[i + 1]
  BY <1>1, <1>2
<1>11. \A i \in DOMAIN items' : InCatalog(items'[i])
  <2>1. \A i \in 1 .. Len(items) - 1 : i + 1 \in DOMAIN items
    BY <1>10
  <2> QED
    BY <1>10, <2>1 DEF NamesSo
<1>12. /\ DOMAIN schema_' = 1 .. Len(schema_) + 1 /\ Len(schema_) \in Nat
       /\ schema_'[Len(schema_) + 1] = Head(items)
       /\ \A i \in 1 .. Len(schema_) : i \in DOMAIN schema_ /\ schema_'[i] = schema_[i]
  BY <1>2, <1>3, <1>5
<1>13. \A i \in DOMAIN schema_' : InCatalog(schema_'[i])
  <2>1. 1 \in DOMAIN items
    BY <1>10
  <2>2. InCatalog(Head(items))
    BY <1>10, <2>1 DEF NamesSo
  <2>3. \A i \in DOMAIN schema_' : i = Len(schema_) + 1 \/ i \in 1 .. Len(schema_)
    BY <1>12
  <2> QED
    BY <1>12, <2>2, <2>3 DEF NamesSo
<1> QED
  BY <1>1, <1>4, <1>8, <1>9, <1>11, <1>13 DEF NamesSo

LEMMA RelationsResolvedNames ==
  ASSUME OwnershipInv, NamesSo, RelationsResolved
  PROVE  NamesSo'
<1>1. /\ stage = "relations" /\ stage' = "attributes" /\ items = <<>> /\ relations = <<>>
      /\ relations' = relations /\ items' = items /\ query' = query /\ UNCHANGED schemaVars
  BY DEF RelationsResolved
<1>2. /\ schema_' = schema_ /\ rel_map_' = rel_map_ /\ attr_map_' = attr_map_
      /\ mapped' = mapped
  BY <1>1 DEF schemaVars
<1>3. MapsIndexTheArray'
  BY <1>2 DEF NamesSo, MapsIndexTheArray, Indexes, IsLast, Holds, Item, Indexed
<1>4. query.relations \in Seq(STRING) /\ schema_ \in Seq(SchemaItems)
  BY DEF OwnershipInv, ListsOK, TypeOK, SelectQueries
<1> DEFINE r == query.relations
<1>5. PICK k \in Nat : ResolvedUpto(k)
  BY <1>1 DEF NamesSo
<1>6. DOMAIN r = 1 .. Len(r) /\ Len(r) \in Nat /\ Len(<<>>) = 0 /\ schema_ \o <<>> = schema_
  BY <1>4
<1>7. k = Len(r)
  BY <1>1, <1>5, <1>6 DEF ResolvedUpto
<1>8. Known(r)
  BY <1>5, <1>6, <1>7 DEF ResolvedUpto, Known
<1>9. schema_ = QueryItems(query)
  <2>1. schema_ = ItemsIn(r)[Len(r)]
    BY <1>1, <1>5, <1>6, <1>7 DEF ResolvedUpto
  <2> QED
    BY <1>6, <2>1, ItemsUnfold DEF QueryItems
<1> QED
  BY <1>1, <1>2, <1>3, <1>8, <1>9 DEF NamesSo

LEMMA UnknownRelationVerdict ==
  ASSUME OwnershipInv, NamesSo, UnknownRelation
  PROVE  Verdict(query) = "runtime_error"
<1>1. /\ stage = "relations" /\ relations # <<>> /\ Head(relations) \notin DOMAIN Catalog
  BY DEF UnknownRelation
<1>2. relations \in Seq(STRING) /\ query.relations \in Seq(STRING)
  BY DEF OwnershipInv, ListsOK, SelectQueries
<1> DEFINE r == query.relations
<1>3. PICK k \in Nat : ResolvedUpto(k)
  BY <1>1 DEF NamesSo
<1>4. /\ Len(relations) \in Nat \ {0} /\ 1 \in DOMAIN relations /\ Head(relations) = relations[1]
      /\ Len(r) \in Nat /\ DOMAIN r = 1 .. Len(r)
  BY <1>1, <1>2
<1>5. relations[1] = r[k + 1] /\ k \in 0 .. Len(r) /\ Len(relations) = Len(r) - k
  BY <1>3, <1>4 DEF ResolvedUpto
<1>6. k + 1 \in DOMAIN r
  BY <1>4, <1>5
<1>7. ~Known(r)
  BY <1>1, <1>4, <1>5, <1>6 DEF Known
<1> QED
  BY <1>7 DEF Verdict

-----------------------------------------------------------------------------
(* Resolving attributes *)

LEMMA FilledNow ==
  ASSUME OwnershipInv, NamesSo, stage \in Late
  PROVE  Filled /\ Known(query.relations)
  BY DEF OwnershipInv, ListsOK, NamesSo, Filled, Late

\* Until the first is resolved, the stars are those of the query.
LEMMA StarsAre ==
  ASSUME OwnershipInv, AttributesUpto
  PROVE  Stars = StarsIn(query)
  BY DEF AttributesUpto, Stars, StarsIn

LEMMA FirstStarIs ==
  ASSUME OwnershipInv, Stars # {}
  PROVE  FirstStar \in Stars /\ FirstStar \in Nat \ {0} /\ \A j \in Stars : FirstStar <= j
<1>1. attributes \in Seq(AttributeNames)
  BY DEF OwnershipInv, ListsOK
<1>2. DOMAIN attributes = 1 .. Len(attributes)
  BY <1>1
<1>3. Stars \in SUBSET Nat /\ \A i \in Stars : i # 0
  BY <1>2 DEF Stars
<1>4. \E i \in Stars : \A j \in Stars : i <= j
  BY <1>3, LeastNatural
<1>5. FirstStar \in Stars /\ \A j \in Stars : FirstStar <= j
  BY <1>4 DEF FirstStar
<1> QED
  BY <1>3, <1>5

LEMMA StarUnresolved ==
  ASSUME OwnershipInv, AttributesSo, stage = "attributes", Stars # {}
  PROVE  AttributesUpto /\ resolved = 0
<1>1. AttributesUpto
  BY DEF AttributesSo, StarExpanded
<1>2. resolved \in Nat
  BY DEF OwnershipInv, ListsOK
<1>3. ~(resolved > 0)
  BY <1>1 DEF AttributesUpto
<1> QED
  BY <1>1, <1>2, <1>3

LEMMA QualifiedStarVerdict ==
  ASSUME OwnershipInv, NamesSo, AttributesSo, QualifiedStar
  PROVE  Verdict(query) = "logic_error"
<1>1. /\ stage = "attributes" /\ Stars # {} /\ attributes[FirstStar].relation # ""
  BY DEF QualifiedStar, NoRelation
<1>2. AttributesUpto /\ resolved = 0
  BY <1>1, StarUnresolved
<1>3. FirstStar \in StarsIn(query) /\ \A j \in StarsIn(query) : FirstStar <= j
  BY <1>1, <1>2, FirstStarIs, StarsAre
<1>4. FirstStar \in DOMAIN attributes /\ FirstStar > resolved
  <2>1. FirstStar \in Stars /\ FirstStar \in Nat \ {0}
    BY <1>1, FirstStarIs
  <2>2. FirstStar \in DOMAIN attributes
    BY <2>1 DEF Stars
  <2> QED
    BY <1>2, <2>1, <2>2
<1>5. attributes[FirstStar] = query.attributes[FirstStar]
  BY <1>2, <1>4 DEF AttributesUpto
<1>6. FirstStarIsQualified(query)
  BY <1>1, <1>3, <1>5 DEF FirstStarIsQualified
<1>7. Known(query.relations)
  BY <1>1, FilledNow DEF Late
<1> QED
  BY <1>6, <1>7 DEF Verdict

LEMMA ExpandStarAttributes ==
  ASSUME OwnershipInv, NamesSo, AttributesSo, ExpandStar
  PROVE  AttributesSo'
<1>1. /\ stage = "attributes" /\ stage' = stage /\ Stars # {}
      /\ attributes[FirstStar].relation = "" /\ query' = query
      /\ attributes' = [i \in DOMAIN schema_ |-> NameOf(schema_[i])]
      /\ resolved' = Len(schema_)
  BY DEF ExpandStar, NoRelation, NameOf
<1>2. AttributesUpto /\ resolved = 0
  BY <1>1, StarUnresolved
<1>3. Stars = StarsIn(query)
  BY <1>2, StarsAre
<1>4. ~FirstStarIsQualified(query)
  <2> SUFFICES ASSUME FirstStarIsQualified(query) PROVE FALSE
    OBVIOUS
  <2>1. PICK i \in Stars : query.attributes[i].relation # "" /\ \A j \in Stars : i <= j
    BY <1>3 DEF FirstStarIsQualified
  <2>2. FirstStar \in Stars /\ FirstStar \in Nat \ {0} /\ \A j \in Stars : FirstStar <= j
    BY <1>1, FirstStarIs
  <2>3. i \in DOMAIN attributes /\ i \in Nat
    <3>1. attributes \in Seq(AttributeNames) /\ i \in DOMAIN attributes
      BY DEF OwnershipInv, ListsOK, Stars
    <3>2. DOMAIN attributes = 1 .. Len(attributes)
      BY <3>1
    <3> QED
      BY <3>1, <3>2
  <2>4. i = FirstStar
    <3>1. i <= FirstStar /\ FirstStar <= i
      BY <2>1, <2>2
    <3> QED
      BY <2>2, <2>3, <3>1
  <2>5. attributes[i] = query.attributes[i]
    BY <1>2, <2>2, <2>3, <2>4 DEF AttributesUpto
  <2> QED
    BY <1>1, <2>1, <2>4, <2>5
<1>5. Filled
  BY <1>1, FilledNow DEF Late
<1>6. /\ DOMAIN schema_ = 1 .. Len(schema_) /\ Len(schema_) \in Nat
      /\ \A i \in DOMAIN schema_ : NameOf(schema_[i]).attribute # "*"
  BY <1>5, ColumnsAre
<1>7. Stars' = {}
  BY <1>1, <1>6 DEF Stars
<1>8. Len(attributes') = Len(schema_)
  <2> DEFINE c(i) == NameOf(schema_[i])
  <2>1. attributes' = [i \in 1 .. Len(schema_) |-> c(i)]
    BY <1>1, <1>6
  <2> HIDE DEF c
  <2> QED
    BY <1>6, <2>1
<1> QED
  BY <1>1, <1>3, <1>4, <1>7, <1>8 DEF AttributesSo, StarExpanded

LEMMA NextAttribute ==
  ASSUME OwnershipInv, NamesSo, AttributesSo, stage = "attributes", Stars = {},
         resolved < Len(attributes)
  PROVE  LET a == attributes[resolved + 1]
         IN  /\ AttributesUpto /\ resolved + 1 \in DOMAIN attributes
             /\ resolved \in Nat /\ DOMAIN attributes = 1 .. Len(attributes)
             /\ a = query.attributes[resolved + 1] /\ a \in AttributeNames
             /\ Unresolvable(a) <=> ~NamesOne(query, a)
<1>1. attributes \in Seq(AttributeNames) /\ resolved \in Nat
  BY DEF OwnershipInv, ListsOK
<1>2. /\ DOMAIN attributes = 1 .. Len(attributes) /\ Len(attributes) \in Nat
      /\ resolved + 1 \in DOMAIN attributes /\ resolved + 1 > resolved
      /\ resolved # Len(attributes)
  BY <1>1
<1>3. AttributesUpto
  BY <1>2 DEF AttributesSo, StarExpanded
<1>4. attributes[resolved + 1] = query.attributes[resolved + 1]
  BY <1>2, <1>3 DEF AttributesUpto
<1>5. attributes[resolved + 1] \in AttributeNames
  <2>1. \A i \in DOMAIN attributes : attributes[i] \in AttributeNames
    BY <1>1
  <2> QED
    BY <1>2, <2>1
<1>6. Filled
  BY FilledNow DEF Late
<1>7. Unresolvable(attributes[resolved + 1]) <=> ~NamesOne(query, attributes[resolved + 1])
  BY <1>5, <1>6, NameResolves
<1> QED
  BY <1>1, <1>2, <1>3, <1>4, <1>5, <1>7

LEMMA ResolveAttributeAttributes ==
  ASSUME OwnershipInv, NamesSo, AttributesSo, ResolveAttribute
  PROVE  AttributesSo'
<1> DEFINE n == resolved + 1
           a == attributes[n]
           b == resolve_attribute_item(a)
<1>1. /\ stage = "attributes" /\ stage' = stage /\ Stars = {} /\ resolved < Len(attributes)
      /\ ~Unresolvable(a) /\ attributes' = [attributes EXCEPT ![n] = b] /\ resolved' = n
      /\ query' = query
  BY DEF ResolveAttribute
<1>2. /\ AttributesUpto /\ n \in DOMAIN attributes /\ resolved \in Nat
      /\ DOMAIN attributes = 1 .. Len(attributes) /\ a = query.attributes[n]
      /\ a \in AttributeNames /\ NamesOne(query, a)
  BY <1>1, NextAttribute
<1>3. b.attribute = a.attribute
  <2>1. DOMAIN a = {"relation", "attribute"}
    BY <1>2 DEF AttributeNames
  <2> HIDE DEF a
  <2> QED
    BY <2>1 DEF resolve_attribute_item
<1> HIDE DEF a, b
<1>4. /\ DOMAIN attributes' = DOMAIN attributes /\ attributes'[n] = b
      /\ \A i \in DOMAIN attributes : i # n => attributes'[i] = attributes[i]
  <2> HIDE DEF n
  <2> QED
    BY <1>1, <1>2
<1>5. \A i \in DOMAIN attributes : attributes'[i].attribute = attributes[i].attribute
  BY <1>3, <1>4 DEF a
<1>6. Stars' = {}
  BY <1>1, <1>4, <1>5 DEF Stars
<1>7. ASSUME NEW i \in DOMAIN attributes'
      PROVE  /\ attributes'[i].attribute = query.attributes[i].attribute
             /\ i <= n => NamesOne(query, query.attributes[i])
             /\ i > n => attributes'[i] = query.attributes[i]
  <2>1. i \in DOMAIN attributes /\ i \in Nat
    BY <1>2, <1>4
  <2>2. i <= n => i <= resolved \/ i = n
    BY <1>2, <2>1
  <2>3. i > n => i > resolved /\ i # n
    BY <1>2, <2>1
  <2>4. /\ attributes[i].attribute = query.attributes[i].attribute
        /\ i <= resolved => NamesOne(query, query.attributes[i])
        /\ i > resolved => attributes[i] = query.attributes[i]
    BY <1>2, <2>1 DEF AttributesUpto
  <2> HIDE DEF n
  <2> QED
    BY <1>2, <1>4, <1>5, <2>1, <2>2, <2>3, <2>4
<1>8. DOMAIN attributes' = DOMAIN query.attributes
  BY <1>2, <1>4 DEF AttributesUpto
<1>9. AttributesUpto'
  <2> HIDE DEF n
  <2> QED
    BY <1>1, <1>6, <1>7, <1>8 DEF AttributesUpto
<1> QED
  BY <1>1, <1>9 DEF AttributesSo

LEMMA AttributeFailsVerdict ==
  ASSUME OwnershipInv, NamesSo, AttributesSo, AttributeFails
  PROVE  Verdict(query) = "runtime_error"
<1> DEFINE n == resolved + 1
           a == attributes[n]
<1>1. /\ stage = "attributes" /\ Stars = {} /\ resolved < Len(attributes) /\ Unresolvable(a)
  BY DEF AttributeFails
<1>2. /\ AttributesUpto /\ n \in DOMAIN attributes /\ a = query.attributes[n]
      /\ ~NamesOne(query, a)
  BY <1>1, NextAttribute
<1>3. StarsIn(query) = {}
  BY <1>1, <1>2, StarsAre
<1>4. n \in DOMAIN query.attributes
  BY <1>2 DEF AttributesUpto
<1> HIDE DEF n, a
<1>5. ~WellFormed(query)
  BY <1>2, <1>3, <1>4 DEF WellFormed
<1>6. ~FirstStarIsQualified(query)
  BY <1>3 DEF FirstStarIsQualified
<1>7. Known(query.relations)
  BY <1>1, FilledNow DEF Late
<1> QED
  BY <1>5, <1>6, <1>7 DEF Verdict

LEMMA AttributesResolvedAttributes ==
  ASSUME OwnershipInv, NamesSo, AttributesSo, AttributesResolved
  PROVE  AttributesSo'
<1>1. /\ stage = "attributes" /\ stage' = "leaves" /\ Stars = {}
      /\ resolved = Len(attributes) /\ query' = query
  BY DEF AttributesResolved
<1>2. CASE AttributesUpto
  <2>1. StarsIn(query) = {}
    BY <1>1, <1>2, StarsAre
  <2>2. ~FirstStarIsQualified(query)
    BY <2>1 DEF FirstStarIsQualified
  <2>3. \A i \in DOMAIN attributes : i <= resolved
    <3>1. attributes \in Seq(AttributeNames)
      BY DEF OwnershipInv, ListsOK
    <3> QED
      BY <1>1, <3>1
  <2>4. AttributesGood
    BY <1>2, <2>2, <2>3 DEF AttributesGood, AttributesUpto
  <2> QED
    BY <1>1, <2>4 DEF AttributesSo, AttributesGood
<1>3. CASE StarExpanded
  BY <1>1, <1>3 DEF AttributesSo, AttributesGood, StarExpanded
<1> QED
  BY <1>1, <1>2, <1>3 DEF AttributesSo

LEMMA AttributesStay ==
  ASSUME AttributesSo, query' = query, stage' # "relations", stage' # "attributes",
         stage' \in {"leaves", "folding", "splitting"} =>
           stage \in {"leaves", "folding", "splitting"}
  PROVE  AttributesSo'
  BY DEF AttributesSo, AttributesGood

-----------------------------------------------------------------------------
(* Resolving leaves *)

\* The query is one of those assumed.
LEMMA QueryIs ==
  ASSUME query \in Queries
  PROVE  query.preds \in Seq(Predicates) /\ IsCondition(query.preds, query.root)
         /\ query.root \in Nat
<1>1. query \in SelectQueries /\ IsCondition(query.preds, query.root)
  BY QueriesAssumption
<1>2. query.preds \in Seq(Predicates) /\ query.root \in Nat
  BY <1>1 DEF SelectQueries
<1> QED
  BY <1>1, <1>2

LEMMA AttributesResolvedLeaves ==
  ASSUME OwnershipInv, query \in Queries, LeavesSo, AttributesResolved
  PROVE  LeavesSo'
<1> DEFINE q == query.preds
<1>1. /\ stage = "attributes" /\ stage' = "leaves" /\ resolved' = 0 /\ query' = query
      /\ preds = q /\ condition = query.root
  BY DEF AttributesResolved, LeavesSo
<1>2. q \in Seq(Predicates) /\ IsCondition(q, condition) /\ condition \in Nat
  BY <1>1, QueryIs
<1>3. SUFFICES LeavesUpto(preds', LeavesOf(preds', condition'), resolved', query')
  BY <1>1 DEF LeavesSo
<1>4. CASE condition # NoPredicate
  <2>1. preds' = q /\ condition' = condition
    BY <1>1, <1>4 DEF AttributesResolved
  <2> DEFINE s == LeavesOf(q, condition)
             R == 1 .. condition
  <2>2. condition \in Nat \ {0}
    BY <1>2, <1>4 DEF NoPredicate
  <2>3. /\ Formed(q, condition) /\ Unshared(q, condition)
        /\ DOMAIN q = R /\ SubPredicates(q, condition) = R
    BY <1>2, <2>2, ConditionFormed
  <2>4. ListsOnce(s, R) /\ ListsLeaves(q, s, R)
    BY <2>2, <2>3, LeavesOnce, LeavesAre
  <2> HIDE DEF s
  <2>5. s \in Seq(R) /\ DOMAIN s = 1 .. Len(s)
    BY <2>4 DEF ListsOnce
  <2> HIDE DEF R, q
  <2>6. \A k \in DOMAIN s : s[k] \in DOMAIN q /\ k > 0 /\ ~(k <= 0)
    BY <2>3, <2>5
  <2>7. \A n \in DOMAIN q : q[n].kind = "Leaf" => \E k \in DOMAIN s : s[k] = n
    BY <2>3, <2>4 DEF ListsLeaves
  <2>8. \A j, k \in DOMAIN s : s[j] = s[k] => j = k
    BY <2>4 DEF ListsOnce
  <2>9. LeavesUpto(preds', s, resolved', query')
    BY <1>1, <2>1, <2>6, <2>7, <2>8 DEF LeavesUpto, q
  <2> QED
    BY <2>1, <2>9 DEF s
<1>5. CASE condition = NoPredicate
  <2>1. Len(q) = 0 /\ DOMAIN q = {}
    <3>1. Len(q) = 0
      BY <1>2, <1>5 DEF IsCondition, NoPredicate
    <3> QED
      BY <1>2, <3>1
  <2>2. preds' = Append(q, PredicateRaw(TRUE)) /\ condition' = Len(preds')
    BY <1>1, <1>5 DEF AttributesResolved
  <2>3. WithRaw(q, preds')
    BY <1>1, <1>2, <2>2, RawAdded
  <2>4. /\ DOMAIN preds' = {1} /\ preds'[1].kind = "Raw" /\ DOMAIN preds'[1].child = {}
        /\ condition' = 1
    <3>1. /\ Len(preds') = 0 + 1 /\ DOMAIN preds' = 1 .. 0 + 1
          /\ preds'[0 + 1].kind = "Raw" /\ preds'[0 + 1].child = <<>>
      BY <2>1, <2>3 DEF WithRaw
    <3>2. 0 + 1 = 1 /\ 1 .. 1 = {1} /\ DOMAIN <<>> = {}
      OBVIOUS
    <3> QED
      BY <2>2, <3>1, <3>2
  <2> DEFINE g == preds'
  <2>5. g[1].kind = "Raw" /\ DOMAIN g[1].child = {}
    BY <2>4
  <2> HIDE DEF g
  <2>6. Formed(g, 1)
    <3>1. \A m \in 1 .. 1 : m = 1
      OBVIOUS
    <3> QED
      BY <2>5, <3>1 DEF Formed
  <2>7. LeavesOf(g, 1) = LeavesIn(g, 1)[1] /\ LeavesIn(g, 1)[1] = LeavesAt(g, 1, LeavesIn(g, 1))
    <3>1. 1 \in Nat /\ 1 \in 1 .. 1
      OBVIOUS
    <3> QED
      BY <2>6, <3>1, LeavesUnfold
  <2>8. LeavesOf(g, 1) = <<>>
    BY <2>5, <2>7 DEF LeavesAt
  <2>9. LeavesOf(preds', condition') = <<>>
    BY <2>4, <2>8 DEF g
  <2>10. DOMAIN <<>> = {}
    OBVIOUS
  <2> HIDE DEF q
  <2>11. LeavesUpto(preds', <<>>, resolved', query')
    BY <1>1, <2>1, <2>4, <2>10 DEF LeavesUpto, q
  <2> QED
    BY <2>9, <2>11
<1> QED
  BY <1>4, <1>5

\* The next leaf is as it was written, and no other of the list is it.
LEMMA NextLeaf ==
  ASSUME OwnershipInv, NamesSo, LeavesSo, LeavesAreLeft
  PROVE  LET s == LeavesOf(preds, condition)
             n == ThisLeaf
         IN  /\ LeavesUpto(preds, s, resolved, query) /\ resolved \in Nat
             /\ resolved + 1 \in DOMAIN s /\ n = s[resolved + 1]
             /\ \A k \in DOMAIN s : k \in Nat /\ (k # resolved + 1 => s[k] # n)
             /\ n \in DOMAIN query.preds /\ preds[n] = query.preds[n]
             /\ LeafResolves(preds[n]) <=> WellTyped(query, query.preds[n])
<1> DEFINE s == LeavesOf(preds, condition)
           n == ThisLeaf
           S == SubPredicates(preds, condition)
<1>1. /\ stage = "leaves" /\ resolved < Len(s) /\ resolved \in Nat /\ n = s[resolved + 1]
      /\ LeavesUpto(preds, s, resolved, query)
  BY DEF LeavesAreLeft, OwnershipInv, ListsOK, ThisLeaf, LeavesSo
<1>2. s \in Seq(S)
  <2>1. Formed(preds, condition) /\ condition \in Nat \ {0}
    BY <1>1, FormedNow
  <2>2. ListsLeaves(preds, s, S)
    BY <2>1, LeavesAre
  <2> QED
    BY <2>2 DEF ListsLeaves
<1> HIDE DEF s, S
<1>3. resolved + 1 \in DOMAIN s /\ resolved + 1 > resolved /\ \A k \in DOMAIN s : k \in Nat
  BY <1>1, <1>2
<1>4. \A k \in DOMAIN s : k # resolved + 1 => s[k] # n
  BY <1>1, <1>3 DEF LeavesUpto
<1>5. n \in DOMAIN query.preds /\ preds[n] = query.preds[n]
  BY <1>1, <1>3 DEF LeavesUpto
<1>6. preds[n].operand \in Seq(Operands) /\ Len(preds[n].operand) = 2
  BY LeafIsNext
<1>7. Filled
  BY <1>1, FilledNow DEF Late
<1> HIDE DEF n
<1>8. LeafResolves(preds[n]) <=> WellTyped(query, preds[n])
  BY <1>6, <1>7, LeafChecked
<1> QED
  BY <1>1, <1>3, <1>4, <1>5, <1>8 DEF s, n

LEMMA LeafFailsVerdict ==
  ASSUME OwnershipInv, NamesSo, AttributesSo, LeavesSo, LeafFails
  PROVE  Verdict(query) = "runtime_error"
<1>1. LeavesAreLeft /\ ~LeafResolves(preds[ThisLeaf]) /\ stage = "leaves"
  BY DEF LeafFails, LeavesAreLeft
<1>2. /\ ThisLeaf \in DOMAIN query.preds /\ preds[ThisLeaf] = query.preds[ThisLeaf]
      /\ ~WellTyped(query, query.preds[ThisLeaf]) /\ preds[ThisLeaf].kind = "Leaf"
  BY <1>1, NextLeaf, LeafIsNext
<1>3. ~WellFormed(query)
  BY <1>2 DEF WellFormed
<1>4. ~FirstStarIsQualified(query) /\ Known(query.relations)
  BY <1>1, FilledNow DEF Late, AttributesSo, AttributesGood
<1> QED
  BY <1>3, <1>4 DEF Verdict

\* The leaves stay where they are.
LEMMA LeavesStay ==
  ASSUME OwnershipInv, ResolveLeaf
  PROVE  LeavesOf(preds', condition') = LeavesOf(preds, condition)
<1> DEFINE s == LeavesOf(preds, condition)
<1>1. stage = "leaves" /\ condition' = condition
  BY DEF ResolveLeaf, LeavesAreLeft
<1>2. /\ DOMAIN preds' = DOMAIN preds
      /\ \A m \in DOMAIN preds :
           preds'[m].kind = preds[m].kind /\ preds'[m].child = preds[m].child
  BY LeafRewritten
<1>3. LeavesOf(preds', condition') = s
  <2>1. Formed(preds, condition) /\ condition \in Nat \ {0} /\ condition \in DOMAIN preds
    BY <1>1, FormedNow
  <2>2. \A m \in 1 .. condition : m \in DOMAIN preds
    <3>1. preds \in Seq(Predicates)
      BY DEF OwnershipInv, PredsOK
    <3>2. DOMAIN preds = 1 .. Len(preds)
      BY <3>1
    <3> QED
      BY <2>1, <3>2
  <2>3. \A m \in 1 .. condition :
          preds'[m].kind = preds[m].kind /\ preds'[m].child = preds[m].child
    BY <1>2, <2>2
  <2> DEFINE g == preds'
  <2>4. \A m \in 1 .. condition : g[m].kind = preds[m].kind /\ g[m].child = preds[m].child
    BY <2>3
  <2> HIDE DEF g
  <2>5. LeavesOf(g, condition) = s
    BY <2>1, <2>4, SameLeaves
  <2> QED
    BY <1>1, <2>5 DEF g
<1> QED
  BY <1>3

LEMMA ResolveLeafLeaves ==
  ASSUME OwnershipInv, NamesSo, LeavesSo, ResolveLeaf
  PROVE  LeavesSo'
<1> DEFINE s == LeavesOf(preds, condition)
           n == ThisLeaf
           o == preds[n].operand
           l == resolve_operand(o[1])
           r == resolve_operand(o[2])
           q == query.preds
<1>1. /\ stage' = stage /\ stage = "leaves" /\ condition' = condition /\ query' = query
      /\ resolved' = resolved + 1 /\ LeavesAreLeft /\ LeafResolves(preds[n])
  BY DEF ResolveLeaf, LeavesAreLeft
<1>2. /\ DOMAIN preds' = DOMAIN preds
      /\ \A m \in DOMAIN preds :
           /\ preds'[m].kind = preds[m].kind /\ preds'[m].child = preds[m].child
           /\ m # n => preds'[m] = preds[m]
      /\ preds'[n].operand = <<set_value(l, r), set_value(r, l)>>
  BY LeafRewritten
<1>3. LeavesOf(preds', condition') = s
  BY LeavesStay
<1>4. /\ LeavesUpto(preds, s, resolved, query) /\ resolved \in Nat
      /\ resolved + 1 \in DOMAIN s /\ n = s[resolved + 1]
      /\ \A k \in DOMAIN s : k \in Nat /\ (k # resolved + 1 => s[k] # n)
      /\ n \in DOMAIN q /\ WellTyped(query, q[n])
  BY <1>1, NextLeaf
<1>5. TypesFit(preds'[n])
  <2> SUFFICES ASSUME check_simple(preds'[n])
               PROVE  preds'[n].operand[1].val.type = preds'[n].operand[2].val.type
    BY DEF TypesFit
  <2>1. is_valid_compare(l, r)
    BY <1>1 DEF LeafResolves
  <2> DEFINE x == set_value(l, r)
             y == set_value(r, l)
  <2>2. preds'[n].operand = <<x, y>>
    BY <1>2
  <2> HIDE DEF x, y
  <2>3. /\ DOMAIN <<x, y>> = {1, 2} /\ <<x, y>>[1] = x /\ <<x, y>>[2] = y
    OBVIOUS
  <2>4. ~IsAttr(x) /\ ~IsAttr(y)
    BY <2>2, <2>3 DEF check_simple
  <2> HIDE DEF l, r
  <2>5. x.val.type = y.val.type
    BY <2>1, <2>4, RewrittenFits DEF x, y
  <2> QED
    BY <2>2, <2>3, <2>5
<1>6. n \in DOMAIN preds /\ preds[n].kind = "Leaf"
  BY <1>1, LeafIsNext
<1> HIDE DEF s, n, o, l, r, q
<1>7. \A m \in DOMAIN preds' : preds'[m].kind = "Leaf" => \E k \in DOMAIN s : s[k] = m
  BY <1>2, <1>4 DEF LeavesUpto
<1>8. \A m \in DOMAIN q : q[m].kind = "Leaf" => m \in DOMAIN preds' /\ preds'[m].kind = "Leaf"
  BY <1>2, <1>4 DEF LeavesUpto, q
<1>9. ASSUME NEW k \in DOMAIN s
      PROVE  /\ s[k] \in DOMAIN q
             /\ k <= resolved + 1 => WellTyped(query, q[s[k]]) /\ TypesFit(preds'[s[k]])
             /\ k > resolved + 1 => preds'[s[k]] = q[s[k]]
  <2>1. /\ s[k] \in DOMAIN q /\ k \in Nat
        /\ k <= resolved => WellTyped(query, q[s[k]]) /\ TypesFit(preds[s[k]])
        /\ k > resolved => preds[s[k]] = q[s[k]]
    BY <1>4 DEF LeavesUpto, q
  <2>2. CASE k = resolved + 1
    <3>1. ~(k > resolved + 1)
      BY <1>4, <2>2
    <3> QED
      BY <1>4, <1>5, <2>1, <2>2, <3>1
  <2>3. CASE k # resolved + 1
    <3>1. s[k] # n
      BY <1>4, <2>3
    <3>2. preds'[s[k]] = preds[s[k]]
      <4>1. s[k] \in DOMAIN preds
        <5>1. s \in Seq(SubPredicates(preds, condition))
          <6>1. Formed(preds, condition) /\ condition \in Nat \ {0}
            BY <1>1, FormedNow
          <6> QED
            BY <6>1, LeavesAre DEF ListsLeaves, s
        <5>2. /\ SubPredicates(preds, condition) \subseteq 1 .. condition
              /\ condition \in DOMAIN preds /\ condition \in Nat
          <6>1. Formed(preds, condition) /\ condition \in Nat \ {0} /\ condition \in DOMAIN preds
            BY <1>1, FormedNow
          <6> QED
            BY <6>1, LeavesAre, BelowIs
        <5>3. preds \in Seq(Predicates)
          BY DEF OwnershipInv, PredsOK
        <5>4. DOMAIN preds = 1 .. Len(preds) /\ Len(preds) \in Nat
          BY <5>3
        <5>5. s[k] \in SubPredicates(preds, condition)
          BY <5>1
        <5> QED
          BY <5>2, <5>4, <5>5
      <4> QED
        BY <1>2, <3>1, <4>1
    <3>3. k <= resolved + 1 => k <= resolved
      BY <1>4, <2>1, <2>3
    <3>4. k > resolved + 1 => k > resolved
      BY <1>4, <2>1
    <3> QED
      BY <2>1, <3>2, <3>3, <3>4
  <2> QED
    BY <2>2, <2>3
<1>10. \A j, k \in DOMAIN s : s[j] = s[k] => j = k
  BY <1>4 DEF LeavesUpto
<1> DEFINE m == resolved + 1
<1> HIDE DEF m
<1>11. LeavesUpto(preds', s, m, query)
  BY <1>7, <1>8, <1>9, <1>10 DEF LeavesUpto, q, m
<1>12. LeavesUpto(preds', LeavesOf(preds', condition'), resolved', query')
  BY <1>1, <1>3, <1>11 DEF m
<1> QED
  BY <1>1, <1>12 DEF LeavesSo

LEMMA LeavesResolvedLeaves ==
  ASSUME OwnershipInv, LeavesSo, LeavesResolved
  PROVE  LeavesSo'
<1> DEFINE s == LeavesOf(preds, condition)
<1>1. /\ stage' = "folding" /\ stage = "leaves" /\ resolved = Len(s) /\ query' = query
      /\ preds' = preds
  BY DEF LeavesResolved
<1>2. LeavesUpto(preds, s, resolved, query)
  BY <1>1 DEF LeavesSo
<1>3. s \in Seq(SubPredicates(preds, condition))
  <2>1. Formed(preds, condition) /\ condition \in Nat \ {0}
    BY <1>1, FormedNow
  <2> QED
    BY <2>1, LeavesAre DEF ListsLeaves
<1> HIDE DEF s
<1>4. \A k \in DOMAIN s : k <= resolved
  BY <1>1, <1>3
<1>5. \A k \in DOMAIN s : WellTyped(query, query.preds[s[k]]) /\ TypesFit(preds[s[k]])
  BY <1>2, <1>4 DEF LeavesUpto
<1>6. \A n \in DOMAIN preds : preds[n].kind = "Leaf" => \E k \in DOMAIN s : s[k] = n
  BY <1>2 DEF LeavesUpto
<1>7. \A n \in DOMAIN query.preds : query.preds[n].kind = "Leaf" => \E k \in DOMAIN s : s[k] = n
  BY <1>2, <1>6 DEF LeavesUpto
<1> QED
  BY <1>1, <1>5, <1>6, <1>7 DEF LeavesSo

-----------------------------------------------------------------------------
(* Folding and splitting: a leaf that is left is as it was resolved. *)

KeepsLeaves(p, g) ==
  \A n \in DOMAIN g : g[n].kind = "Leaf" =>
    n \in DOMAIN p /\ p[n].kind = "Leaf" /\ g[n].operand = p[n].operand

LEMMA DestroyedKeep ==
  ASSUME NEW p \in Seq(Predicates), NEW D
  PROVE  KeepsLeaves(p, DestroyPredicates(p, D))
<1> DEFINE g == DestroyPredicates(p, D)
<1>1. /\ DOMAIN g = DOMAIN p /\ \A n \in DOMAIN p : n \notin D => g[n] = p[n]
      /\ \A n \in DOMAIN p : n \in D => g[n].kind = "Destroyed"
  BY DestroyedAre
<1> HIDE DEF g
<1>2. KeepsLeaves(p, g)
  BY <1>1 DEF KeepsLeaves
<1> QED
  BY <1>2 DEF g

LEMMA RefillKeeps ==
  ASSUME OwnershipInv, stage = "folding", NEW c, Refills(c)
  PROVE  KeepsLeaves(preds, preds')
<1> DEFINE t == This.node
           r == [preds[t] EXCEPT !.child = c]
<1>1. preds \in Seq(Predicates) /\ t \in DOMAIN preds /\ preds[t] \in Predicates
  BY RunningHas
<1>2. preds' = [preds EXCEPT ![t] = r] /\ preds[t].kind \in {"And", "Or", "Not"}
  BY DEF Refills
<1>3. r.kind = preds[t].kind
  BY <1>1 DEF Predicates
<1> HIDE DEF t, r
<1>4. /\ DOMAIN preds' = DOMAIN preds /\ preds'[t] = r
      /\ \A n \in DOMAIN preds : n # t => preds'[n] = preds[n]
  BY <1>1, <1>2
<1> QED
  BY <1>2, <1>3, <1>4 DEF KeepsLeaves

LEMMA CallKeeps ==
  ASSUME OwnershipInv, stage = "folding", NEW f, NEW k, Calls(f, k), FoldChild(f, k)
  PROVE  KeepsLeaves(preds, preds')
<1>1. /\ DOMAIN preds' = DOMAIN preds
      /\ \A n \in DOMAIN preds : n # This.node => preds'[n] = preds[n]
      /\ preds'[This.node].kind = preds[This.node].kind
  BY ChildMoved
<1>2. preds[This.node].kind \in {"And", "Or", "Not"}
  BY DEF Calls
<1> QED
  BY <1>1, <1>2 DEF KeepsLeaves

LEMMA SimpleLeafKeeps ==
  ASSUME OwnershipInv, LeavesSo, FoldSimpleLeaf
  PROVE  /\ stage = "folding" /\ FoldReturn(Len(preds) + 1)
         /\ KeepsLeaves(preds, preds')
<1> DEFINE t == This.node
           leaf == preds[t]
           x == leaf.operand[1].val
           y == leaf.operand[2].val
           value == evaluate_values(leaf.op, x, y)
           d == DestroyPredicates(preds, {t})
<1>1. stage = "folding" /\ leaf.kind = "Leaf" /\ check_simple(leaf)
  BY DEF FoldSimpleLeaf, Folding
<1>2. t \in DOMAIN preds /\ preds \in Seq(Predicates)
  BY <1>1, RunningHas
<1>3. x.type = y.type
  BY <1>1, <1>2 DEF LeavesSo, TypesFit
<1>4. value # "throws"
  BY <1>3 DEF evaluate_values, Truth
<1>5. FoldReturn(Len(preds) + 1) /\ preds' = Append(d, PredicateRaw(value = "true"))
  BY <1>4 DEF FoldSimpleLeaf
<1> DEFINE v == value = "true"
<1>6. v \in BOOLEAN
  OBVIOUS
<1> HIDE DEF t, leaf, x, y, value
<1>7. d \in Seq(Predicates) /\ KeepsLeaves(preds, d)
  BY <1>2, DestroyedAre, DestroyedKeep
<1> HIDE DEF d
<1>8. WithRaw(d, preds')
  <2>1. preds' = Append(d, PredicateRaw(v))
    BY <1>5
  <2> HIDE DEF v
  <2> QED
    BY <1>6, <1>7, <2>1, RawAdded
<1>9. KeepsLeaves(preds, preds')
  <2>1. /\ DOMAIN preds' = 1 .. Len(d) + 1 /\ preds'[Len(d) + 1].kind = "Raw"
        /\ \A m \in DOMAIN d : preds'[m] = d[m]
    BY <1>8 DEF WithRaw
  <2>2. DOMAIN d = 1 .. Len(d) /\ Len(d) \in Nat
    BY <1>7
  <2>3. \A m \in DOMAIN preds' : m = Len(d) + 1 \/ m \in DOMAIN d
    BY <2>1, <2>2
  <2> QED
    BY <1>7, <2>1, <2>3 DEF KeepsLeaves
<1> QED
  BY <1>1, <1>5, <1>9

LEMMA NotConstantKeeps ==
  ASSUME OwnershipInv, FoldNotConstant
  PROVE  KeepsLeaves(preds, preds')
<1> DEFINE g == [preds EXCEPT ![folded].value = ~@]
           r == [preds[folded] EXCEPT !.value = ~@]
<1>1. /\ stage = "folding" /\ This.at = "first" /\ preds[folded].kind = "Raw"
      /\ preds' = DestroyPredicates(g, {This.node})
  BY DEF FoldNotConstant, Folding
<1>2. preds \in Seq(Predicates) /\ folded \in DOMAIN preds
  BY <1>1, RunningHas
<1>3. OneNode(g, preds, folded, r) /\ r.kind = "Raw"
  BY <1>1, <1>2, ValueFlipped
<1> HIDE DEF g, r
<1>4. KeepsLeaves(preds, g) /\ g \in Seq(Predicates)
  BY <1>3 DEF KeepsLeaves, OneNode
<1>5. KeepsLeaves(g, preds')
  BY <1>1, <1>4, DestroyedKeep
<1> QED
  BY <1>4, <1>5 DEF KeepsLeaves

Computing == {"folding", "splitting"}

\* A step of the fold or of the split.
LEMMA FoldKeeps ==
  ASSUME OwnershipInv, LeavesSo, stage \in Computing, PreprocessNext
  PROVE  /\ KeepsLeaves(preds, preds') /\ query' = query /\ stage' \in Computing \cup {"done"}
         /\ relations' = relations /\ items' = items /\ UNCHANGED schemaVars
<1>1. ~(UnknownRelation \/ NextRelation \/ AppendItem \/ RelationsResolved)
  BY DEF UnknownRelation, NextRelation, AppendItem, RelationsResolved, Computing
<1>2. ~(QualifiedStar \/ ExpandStar \/ ResolveAttribute \/ AttributeFails \/ AttributesResolved)
  BY DEF QualifiedStar, ExpandStar, ResolveAttribute, AttributeFails,
         AttributesResolved, Computing
<1>3. ~(ResolveLeaf \/ LeafFails \/ LeavesResolved)
  BY DEF ResolveLeaf, LeafFails, LeavesResolved, LeavesAreLeft, Computing
<1>4. preds \in Seq(Predicates) /\ KeepsLeaves(preds, preds)
  BY DEF OwnershipInv, PredsOK, KeepsLeaves
<1>5. ASSUME NEW n, FoldReturn(n), stage = "folding"
      PROVE  Untouched /\ stage' \in Computing
  BY <1>5 DEF FoldReturn, Computing
<1>6. ASSUME NEW f, NEW k, FoldChild(f, k)
      PROVE  Untouched /\ stage' \in Computing
  BY <1>6 DEF FoldChild
<1>7. ASSUME Untouched
      PROVE  query' = query /\ relations' = relations /\ items' = items /\ UNCHANGED schemaVars
  BY <1>7 DEF Untouched
<1>8. CASE FoldNothing
  <2>1. stage = "folding" /\ FoldReturn(This.node) /\ preds' = preds
    BY <1>8 DEF FoldNothing, Folding
  <2> QED
    BY <1>4, <1>5, <1>7, <2>1
<1>9. CASE FoldSimpleLeaf
  BY <1>5, <1>7, <1>9, SimpleLeafKeeps
<1>10. CASE FoldFirst
  <2>1. PICK f : stage = "folding" /\ FoldChild(f, 1) /\ Calls(f, 1)
    BY <1>10, FoldFirstCalls
  <2> QED
    BY <1>6, <1>7, <2>1, CallKeeps
<1>11. CASE FoldSecond
  <2>1. PICK f : stage = "folding" /\ FoldChild(f, 2) /\ Calls(f, 2)
    BY <1>11, FoldSecondCalls
  <2> QED
    BY <1>6, <1>7, <2>1, CallKeeps
<1>12. CASE FoldConstant
  <2>1. PICK D : preds' = DestroyPredicates(preds, D)
    BY <1>12 DEF FoldConstant
  <2>2. PICK n : FoldReturn(n)
    BY <1>12 DEF FoldConstant
  <2>3. stage = "folding"
    BY <1>12 DEF FoldConstant, Folding
  <2>4. KeepsLeaves(preds, preds')
    BY <1>4, <2>1, DestroyedKeep
  <2> QED
    BY <1>5, <1>7, <2>2, <2>3, <2>4
<1>13. CASE FoldBinary
  BY <1>5, <1>7, <1>13, FoldBinaryRefills, RefillKeeps
<1>14. CASE FoldNot
  BY <1>5, <1>7, <1>14, FoldNotRefills, RefillKeeps
<1>15. CASE FoldNotConstant
  <2>1. stage = "folding" /\ FoldReturn(folded)
    BY <1>15 DEF FoldNotConstant, Folding
  <2> QED
    BY <1>5, <1>7, <1>15, <2>1, NotConstantKeeps
<1>16. CASE SplitAnd
  <2>1. stage' = stage /\ Untouched /\ preds' = DestroyPredicates(preds, {Head(pending)})
    BY <1>16 DEF SplitAnd
  <2>2. KeepsLeaves(preds, preds')
    BY <1>4, <2>1, DestroyedKeep
  <2> QED
    BY <1>7, <2>1, <2>2
<1>17. CASE SplitOther
  BY <1>4, <1>17 DEF SplitOther, queryVars
<1>18. CASE StatementBuilt
  BY <1>4, <1>7, <1>18 DEF StatementBuilt
<1> QED
  BY <1>1, <1>2, <1>3, <1>8, <1>9, <1>10, <1>11, <1>12, <1>13, <1>14, <1>15, <1>16,
     <1>17, <1>18 DEF PreprocessNext

-----------------------------------------------------------------------------
(* The verdict *)

LEMMA ComputingVerdict ==
  ASSUME NamesSo, AttributesSo, LeavesSo, stage \in Computing
  PROVE  Verdict(query) = "done"
<1>1. Known(query.relations)
  BY DEF NamesSo, Computing
<1>2. AttributesGood
  BY DEF AttributesSo, Computing
<1>3. \A n \in DOMAIN query.preds :
        query.preds[n].kind = "Leaf" => WellTyped(query, query.preds[n])
  BY DEF LeavesSo, Computing
<1>4. WellFormed(query) /\ ~FirstStarIsQualified(query)
  BY <1>2, <1>3 DEF WellFormed, AttributesGood
<1> QED
  BY <1>1, <1>4 DEF Verdict

LEMMA VerdictFails ==
  ASSUME VerdictInv, NEW error \in Ends, Fail(error), error = Verdict(query)
  PROVE  VerdictInv'
<1>1. /\ stage' = error /\ query' = query /\ relations' = relations /\ items' = items
      /\ UNCHANGED schemaVars
  BY DEF Fail
<1>2. error \notin Late /\ error # "relations"
  BY DEF Ends, Late
<1>3. NamesSo'
  BY <1>1, <1>2, NamesStay DEF VerdictInv
<1>4. AttributesSo' /\ LeavesSo'
  BY <1>1, <1>2 DEF AttributesSo, LeavesSo, Late
<1> QED
  BY <1>1, <1>3, <1>4 DEF VerdictInv

LEMMA VerdictStarts == PreprocessInit => VerdictInv
<1> SUFFICES ASSUME PreprocessInit PROVE VerdictInv
  OBVIOUS
<1>1. /\ query \in Queries /\ stage = "relations" /\ relations = query.relations
      /\ items = <<>> /\ schema_ = <<>> /\ rel_map_ = EmptyMap /\ attr_map_ = EmptyMap
      /\ mapped = 0 /\ attributes = query.attributes /\ preds = query.preds
      /\ condition = query.root /\ resolved = 0
  BY DEF PreprocessInit
<1>2. query.relations \in Seq(STRING)
  BY <1>1, QueriesAssumption DEF SelectQueries
<1>3. MapsIndexTheArray
  BY <1>1 DEF MapsIndexTheArray, Indexes, Indexed, EmptyMap
<1>4. ResolvedUpto(0)
  <2> DEFINE r == query.relations
  <2>1. Len(r) \in Nat
    BY <1>2
  <2>2. ItemsIn(r)[0] = <<>>
    BY <2>1, ItemsUnfold
  <2>3. <<>> \o <<>> = <<>>
    OBVIOUS
  <2>4. \A i \in DOMAIN r : 0 + i = i
    BY <1>2
  <2> HIDE DEF r
  <2>5. relations = r /\ \A i \in 1 .. 0 : r[i] \in DOMAIN Catalog
    BY <1>1 DEF r
  <2>6. 0 \in 0 .. Len(r) /\ Len(r) = Len(r) - 0
    BY <2>1
  <2> QED
    BY <1>1, <2>2, <2>3, <2>4, <2>5, <2>6 DEF ResolvedUpto, r
<1>5. Len(<<>>) = 0 /\ DOMAIN <<>> = {} /\ 0 \in Nat
  OBVIOUS
<1>6. NamesSo
  BY <1>1, <1>3, <1>4, <1>5 DEF NamesSo
<1>7. AttributesSo /\ LeavesSo
  BY <1>1 DEF AttributesSo, LeavesSo
<1> QED
  BY <1>1, <1>6, <1>7 DEF VerdictInv, Ends

LEMMA VerdictStep ==
  ASSUME OwnershipInv, VerdictInv, [PreprocessNext]_preprocessVars
  PROVE  VerdictInv'
<1>0. query \in Queries /\ NamesSo /\ AttributesSo /\ LeavesSo
  BY DEF VerdictInv
<1>1. CASE UNCHANGED preprocessVars
  <2>1. /\ query' = query /\ stage' = stage /\ relations' = relations /\ items' = items
        /\ UNCHANGED schemaVars /\ attributes' = attributes /\ preds' = preds
        /\ condition' = condition /\ resolved' = resolved
    BY <1>1 DEF preprocessVars, queryVars
  <2>2. NamesSo'
    BY <1>0, <2>1, NamesStay
  <2>3. AttributesSo'
    <3>1. Stars' = Stars
      BY <2>1 DEF Stars
    <3> QED
      BY <1>0, <2>1, <3>1 DEF AttributesSo, AttributesUpto, StarExpanded, AttributesGood
  <2>4. LeavesSo'
    BY <1>0, <2>1 DEF LeavesSo
  <2> QED
    BY <2>1, <2>2, <2>3, <2>4 DEF VerdictInv
<1>2. CASE UnknownRelation \/ QualifiedStar \/ AttributeFails \/ LeafFails
  <2>1. \E error \in Ends : Fail(error) /\ error = Verdict(query)
    <3>1. CASE UnknownRelation
      BY <1>0, <3>1, UnknownRelationVerdict DEF UnknownRelation, Ends
    <3>2. CASE QualifiedStar
      BY <1>0, <3>2, QualifiedStarVerdict DEF QualifiedStar, Ends
    <3>3. CASE AttributeFails
      BY <1>0, <3>3, AttributeFailsVerdict DEF AttributeFails, Ends
    <3>4. CASE LeafFails
      BY <1>0, <3>4, LeafFailsVerdict DEF LeafFails, Ends
    <3> QED
      BY <1>2, <3>1, <3>2, <3>3, <3>4
  <2> QED
    BY <2>1, VerdictFails
<1>3. CASE NextRelation \/ AppendItem \/ RelationsResolved
  <2>1. NamesSo'
    BY <1>0, <1>3, NextRelationNames, AppendItemNames, RelationsResolvedNames
  <2>2. /\ query' = query /\ stage = "relations" /\ stage' \in {"relations", "attributes"}
        /\ attributes' = attributes /\ preds' = preds /\ condition' = condition
        /\ resolved' = resolved
    BY <1>3 DEF NextRelation, AppendItem, RelationsResolved, queryVars
  <2>3. attributes = query.attributes /\ resolved = 0
    BY <1>0, <2>2 DEF AttributesSo
  <2>4. AttributesSo'
    <3>1. \A i \in DOMAIN attributes : ~(i <= 0)
      <4>1. attributes \in Seq(AttributeNames)
        BY DEF OwnershipInv, ListsOK
      <4> QED
        BY <4>1
    <3>2. AttributesUpto'
      BY <2>2, <2>3, <3>1 DEF AttributesUpto
    <3> QED
      BY <2>2, <2>3, <3>2 DEF AttributesSo
  <2>5. LeavesSo'
    BY <1>0, <2>2 DEF LeavesSo
  <2> QED
    BY <1>0, <2>1, <2>2, <2>4, <2>5 DEF VerdictInv, Ends
<1>4. CASE ExpandStar \/ ResolveAttribute
  <2>1. /\ query' = query /\ stage = "attributes" /\ stage' = stage
        /\ relations' = relations /\ items' = items /\ UNCHANGED schemaVars
        /\ preds' = preds /\ condition' = condition
    BY <1>4 DEF ExpandStar, ResolveAttribute
  <2>2. NamesSo'
    BY <1>0, <2>1, NamesStay
  <2>3. AttributesSo'
    BY <1>0, <1>4, ExpandStarAttributes, ResolveAttributeAttributes
  <2>4. LeavesSo'
    BY <1>0, <2>1 DEF LeavesSo
  <2> QED
    BY <1>0, <2>1, <2>2, <2>3, <2>4 DEF VerdictInv, Ends
<1>5. CASE AttributesResolved
  <2>1. /\ query' = query /\ stage = "attributes" /\ stage' = "leaves"
        /\ relations' = relations /\ items' = items /\ UNCHANGED schemaVars
    BY <1>5 DEF AttributesResolved
  <2>2. NamesSo'
    BY <1>0, <2>1, NamesStay DEF Late
  <2>3. AttributesSo' /\ LeavesSo'
    BY <1>0, <1>5, AttributesResolvedAttributes, AttributesResolvedLeaves
  <2> QED
    BY <1>0, <2>1, <2>2, <2>3 DEF VerdictInv, Ends
<1>6. CASE ResolveLeaf \/ LeavesResolved
  <2>1. /\ query' = query /\ stage = "leaves" /\ stage' \in {"leaves", "folding"}
        /\ relations' = relations /\ items' = items /\ UNCHANGED schemaVars
    BY <1>6 DEF ResolveLeaf, LeavesResolved, LeavesAreLeft
  <2>2. NamesSo'
    BY <1>0, <2>1, NamesStay DEF Late
  <2>3. AttributesSo'
    BY <1>0, <2>1, AttributesStay
  <2>4. LeavesSo'
    BY <1>0, <1>6, ResolveLeafLeaves, LeavesResolvedLeaves
  <2> QED
    BY <1>0, <2>1, <2>2, <2>3, <2>4 DEF VerdictInv, Ends
<1>7. CASE PreprocessNext /\ stage \in Computing
  <2>1. /\ KeepsLeaves(preds, preds') /\ query' = query /\ stage' \in Computing \cup {"done"}
        /\ relations' = relations /\ items' = items /\ UNCHANGED schemaVars
    BY <1>0, <1>7, FoldKeeps
  <2>2. NamesSo'
    BY <1>0, <1>7, <2>1, NamesStay DEF Late, Computing
  <2>3. AttributesSo'
    BY <1>0, <1>7, <2>1, AttributesStay DEF Computing
  <2>4. LeavesSo'
    <3>1. \A n \in DOMAIN preds : preds[n].kind = "Leaf" => TypesFit(preds[n])
      BY <1>0, <1>7 DEF LeavesSo, Computing
    <3>2. ASSUME NEW n \in DOMAIN preds', preds'[n].kind = "Leaf" PROVE TypesFit(preds'[n])
      <4>1. TypesFit(preds[n]) /\ preds'[n].operand = preds[n].operand
        BY <2>1, <3>1, <3>2 DEF KeepsLeaves
      <4> QED
        BY <4>1 DEF TypesFit, check_simple
    <3> QED
      BY <1>0, <1>7, <2>1, <3>2 DEF LeavesSo, Computing
  <2>5. Verdict(query) = "done"
    BY <1>0, <1>7, ComputingVerdict
  <2> QED
    BY <1>0, <2>1, <2>2, <2>3, <2>4, <2>5 DEF VerdictInv, Ends, Computing
<1>8. CASE PreprocessNext /\ stage \notin Computing
  <2>1. ~(FoldNothing \/ FoldSimpleLeaf \/ FoldFirst \/ FoldSecond)
    BY <1>8 DEF FoldNothing, FoldSimpleLeaf, FoldFirst, FoldSecond, Folding, Computing
  <2>2. ~(FoldConstant \/ FoldBinary \/ FoldNotConstant \/ FoldNot)
    BY <1>8 DEF FoldConstant, FoldBinary, FoldNotConstant, FoldNot, Folding, Computing
  <2>3. ~(SplitAnd \/ SplitOther \/ StatementBuilt)
    BY <1>8 DEF SplitAnd, SplitOther, StatementBuilt, Computing
  <2> QED
    BY <1>2, <1>3, <1>4, <1>5, <1>6, <1>8, <2>1, <2>2, <2>3 DEF PreprocessNext
<1> QED
  BY <1>1, <1>7, <1>8

(***************************************************************************)
(* preprocess_select refuses a query iff it is ill-formed, and with the    *)
(* exception of the code for what is wrong: an unknown relation, a         *)
(* qualified star in front, a name of no or of several columns, a          *)
(* comparison of two types.  No other failure is left for the fold.        *)
(***************************************************************************)
THEOREM PreprocessRefuses == PreprocessSpec => []RefusesExactly
<1>1. VerdictInv => RefusesExactly
  BY DEF VerdictInv, RefusesExactly
<1> QED
  BY <1>1, VerdictStarts, VerdictStep, OwnershipInvariance, PTL DEF PreprocessSpec


-----------------------------------------------------------------------------
(***************************************************************************)
(* Meaning: for every row there is a set of nodes, those that hold of it,  *)
(* in which leaves and constants are by what they say and whole nodes by   *)
(* their children.  A node that has lost its children is in it by what the *)
(* activation has in its hands, what it is waiting for, and what is still  *)
(* below the node; and the condition, wherever it is, is in it iff the     *)
(* query means the row.                                                    *)
(***************************************************************************)
\* What evaluate makes of a leaf.
LeafValue(leaf, row) ==
  IF \A i \in {1, 2} : Resolves(leaf.operand[i], row)
  THEN evaluate_values(leaf.op, resolve_value(leaf.operand[1], row),
                       resolve_value(leaf.operand[2], row))
  ELSE "throws"

LeafMeans(q, leaf, row) ==
  Satisfies(leaf.op, Denotes(q, leaf.operand[1], leaf.operand[2], row),
            Denotes(q, leaf.operand[2], leaf.operand[1], row))

\* A rewritten leaf says of every row what the leaf of the query means.
SaysSo(leaf, written) ==
  \A row \in Rows : LeafValue(leaf, row) = Truth(LeafMeans(query, written, row))

\* The connective of two nodes, x and y; NOT has only x.
Joins(T, kind, x, y) ==
  CASE kind = "Not" -> x \notin T
    [] kind = "And" -> x \in T /\ y \in T
    [] OTHER        -> x \in T \/ y \in T

NodeMeans(p, T, n, row) ==
  /\ p[n].kind = "Leaf" => LeafValue(p[n], row) = Truth(n \in T)
  /\ p[n].kind = "Raw" => (n \in T <=> p[n].value)
  /\ p[n].kind \in {"And", "Or", "Not"} /\ IsWhole(p, n) =>
       (n \in T <=> Joins(T, p[n].kind, p[n].child[1], p[n].child[2]))

\* What activation i gets or has got from the one it called.
HandedTo(i) == IF i = Len(activations) THEN folded ELSE activations[i + 1].node

ActivationMeans(T, i) ==
  LET a == activations[i]
      t == preds[a.node]
  IN  /\ a.at = "first" => (a.node \in T <=> Joins(T, t.kind, HandedTo(i), t.child[2]))
      /\ a.at = "second" => (a.node \in T <=> Joins(T, t.kind, a.lch, HandedTo(i)))

StatementMeans(T) ==
  /\ \A i \in DOMAIN pending : pending[i] \in T
  /\ \A k \in DOMAIN conditions : conditions[k] \in T

MeantBy(T, row) ==
  /\ \A n \in DOMAIN preds : NodeMeans(preds, T, n, row)
  /\ \A i \in DOMAIN activations : ActivationMeans(T, i)
  /\ stage = "folding" => (activations[1].node \in T <=> Means(query, row))
  /\ stage \in {"splitting", "done"} =>
       activations = <<>> /\ (StatementMeans(T) <=> Means(query, row))
  /\ stage = "done" => pending = <<>>

\* The leaves that are resolved say what they mean; the tree is as it was written.
Rewritten ==
  /\ query.root = NoPredicate => /\ DOMAIN preds = {condition}
                                 /\ preds[condition].kind = "Raw" /\ preds[condition].value
  /\ query.root # NoPredicate => condition = query.root /\ DOMAIN preds = DOMAIN query.preds
  /\ \A n \in DOMAIN query.preds :
       /\ n \in DOMAIN preds
       /\ preds[n].kind = query.preds[n].kind /\ preds[n].child = query.preds[n].child
  /\ \A k \in 1 .. resolved :
       LET n == LeavesOf(preds, condition)[k]
       IN  SaysSo(preds[n], query.preds[n])

RowMeant(row) == \E T \in SUBSET DOMAIN preds : MeantBy(T, row)

MeaningInv ==
  /\ stage = "leaves" => Rewritten
  /\ stage \in {"folding", "splitting", "done"} => \A row \in Rows : RowMeant(row)

LEMMA RowsAre ==
  ASSUME NEW row \in Rows
  PROVE  \A c \in ColumnsOf(query) :
           c \in DOMAIN row /\ row[c].type = TypeOf(query, c) /\ row[c].data \in Int
<1> DEFINE V == UNION {[type : {t}, data : Cells[t]] : t \in DOMAIN Cells}
<1>1. row \in [ColumnsOf(query) -> V] /\ \A c \in ColumnsOf(query) : row[c].type = TypeOf(query, c)
  BY DEF Rows
<1>2. ASSUME NEW v \in V PROVE v.data \in Int
  <2>1. PICK t \in DOMAIN Cells : v \in [type : {t}, data : Cells[t]]
    BY <1>2
  <2>2. v.data \in Cells[t]
    BY <2>1
  <2> QED
    BY <2>1, <2>2, CellsAssumption
<1> HIDE DEF V
<1> QED
  BY <1>1, <1>2

(* An operand of a leaf that passed the checks reads what it denotes. *)
LEMMA OperandReads ==
  ASSUME Filled, NEW o \in Operands, NEW u \in Operands,
         IsAttr(o) => NamesOne(query, o.attr), IsAttr(u) => NamesOne(query, u.attr),
         TypeBeside(query, o, u) = TypeBeside(query, u, o), NEW row \in Rows
  PROVE  LET w == set_value(resolve_operand(o), resolve_operand(u))
         IN  /\ Resolves(w, row)
             /\ resolve_value(w, row).data = Denotes(query, o, u, row)
             /\ resolve_value(w, row).data \in Int
             /\ resolve_value(w, row).type = TypeBeside(query, o, u)
<1> DEFINE x == resolve_operand(o)
           y == resolve_operand(u)
           w == set_value(x, y)
<1>1. /\ IsAttr(x) <=> IsAttr(o)
      /\ ~IsAttr(o) => x = o
      /\ IsAttr(y) <=> IsAttr(u)
      /\ IsAttr(u) => resolve_operand_type(y) = TypeOf(query, TheColumn(query, u.attr))
      /\ ~IsAttr(u) => y = u
  BY OperandResolves
<1>2. CASE IsAttr(o)
  <2> DEFINE c == TheColumn(query, o.attr)
  <2>1. o.attr \in AttributeNames
    BY <1>2 DEF Operands, IsAttr
  <2>2. c \in ColumnsOf(query) /\ resolve_attribute_item(o.attr) = c
    BY <1>2, <2>1, NameResolves
  <2>3. x = [attr |-> c]
    BY <1>2, <2>2 DEF resolve_operand
  <2>4. Denotes(query, o, u, row) = row[c].data /\ TypeBeside(query, o, u) = TypeOf(query, c)
    BY <1>2 DEF Denotes, TypeBeside, IsText
  <2> HIDE DEF c
  <2>5. IsAttr(x) /\ x.attr = c
    BY <2>3 DEF IsAttr
  <2>6. w = x
    BY <2>5 DEF set_value, MeetsDate
  <2>7. Resolves(w, row) /\ resolve_value(w, row) = row[c]
    <3> HIDE DEF w, x
    <3> QED
      BY <2>2, <2>5, <2>6, RowsAre DEF Resolves, resolve_value
  <2> HIDE DEF w
  <2> QED
    BY <2>2, <2>4, <2>7, RowsAre DEF w
<1>3. CASE ~IsAttr(o)
  <2>1. x = o /\ o.val.data \in Int
    BY <1>1, <1>3 DEF Operands, IsAttr, TypedValues
  <2>2. MeetsDate(x, y) <=> IsText(o) /\ IsDateColumn(query, u)
    <3> HIDE DEF x, y
    <3> QED
      BY <1>1, <1>3, <2>1 DEF MeetsDate, IsText, IsDateColumn
  <2>3. CASE IsText(o) /\ IsDateColumn(query, u)
    <3>1. IsAttr(u) /\ TypeBeside(query, u, o) = "date"
      BY <2>3 DEF TypeBeside, IsDateColumn, IsText
    <3>2. TypeBeside(query, o, u) = IF o.val.data \in DOMAIN DateOf THEN "date" ELSE "none"
      BY <1>3, <2>3 DEF TypeBeside
    <3>3. o.val.data \in DOMAIN DateOf
      BY <3>1, <3>2
    <3> DEFINE d == DateOf[o.val.data]
    <3>4. d \in Int
      BY <3>3, DateOfAssumption
    <3>5. Denotes(query, o, u, row) = d /\ TypeBeside(query, o, u) = "date"
      BY <1>3, <2>3, <3>1 DEF Denotes
    <3>6. w = OperandVal(Value("date", d))
      <4> HIDE DEF x, y
      <4> QED
        BY <2>1, <2>2, <2>3 DEF set_value
    <3> HIDE DEF w, d
    <3>7. ~IsAttr(w) /\ w.val.data = d /\ w.val.type = "date"
      BY <3>6 DEF OperandVal, Value, IsAttr
    <3> QED
      BY <3>4, <3>5, <3>7 DEF Resolves, resolve_value, w
  <2>4. CASE ~(IsText(o) /\ IsDateColumn(query, u))
    <3>1. w = o
      <4> HIDE DEF x, y
      <4> QED
        BY <2>1, <2>2, <2>4 DEF set_value
    <3>2. Denotes(query, o, u, row) = o.val.data /\ TypeBeside(query, o, u) = o.val.type
      BY <1>3, <2>4 DEF Denotes, TypeBeside
    <3> HIDE DEF w
    <3> QED
      BY <1>3, <2>1, <3>1, <3>2 DEF Resolves, resolve_value, w
  <2> QED
    BY <2>3, <2>4
<1> QED
  BY <1>2, <1>3

LEMMA ComparesSo ==
  ASSUME NEW op \in CompareOps, NEW v, NEW w, v.data \in Int, w.data \in Int, v.type = w.type
  PROVE  evaluate_values(op, v, w) = Truth(Satisfies(op, v.data, w.data))
<1> DEFINE x == v.data
           y == w.data
<1>1. Compare(op, v, w) <=> Satisfies(op, x, y)
  <2>1. CASE op = "="
    BY <2>1 DEF Compare, Satisfies, Less
  <2>2. CASE op = "!="
    BY <2>2 DEF Compare, Satisfies, Less
  <2>3. CASE op = "<"
    BY <2>3 DEF Compare, Satisfies, Less
  <2>4. CASE op = "<="
    BY <2>4 DEF Compare, Satisfies, Less
  <2>5. CASE op = ">"
    BY <2>5 DEF Compare, Satisfies, Less
  <2>6. CASE op = ">="
    BY <2>6 DEF Compare, Satisfies, Less
  <2> QED
    BY <2>1, <2>2, <2>3, <2>4, <2>5, <2>6 DEF CompareOps
<1>2. evaluate_values(op, v, w) = IF Compare(op, v, w) THEN "true" ELSE "false"
  BY DEF evaluate_values, Truth
<1> QED
  BY <1>1, <1>2 DEF Truth

LEMMA LeafSays ==
  ASSUME Filled, NEW leaf \in Predicates, Len(leaf.operand) = 2, WellTyped(query, leaf),
         NEW g, g.op = leaf.op,
         LET l == resolve_operand(leaf.operand[1])
             r == resolve_operand(leaf.operand[2])
         IN  g.operand = <<set_value(l, r), set_value(r, l)>>
  PROVE  SaysSo(g, leaf)
<1> DEFINE o == leaf.operand[1]
           u == leaf.operand[2]
           x == set_value(resolve_operand(o), resolve_operand(u))
           y == set_value(resolve_operand(u), resolve_operand(o))
<1>1. leaf.op \in CompareOps /\ leaf.operand \in Seq(Operands)
  BY DEF Predicates
<1>2. o \in Operands /\ u \in Operands
  BY <1>1
<1>3. /\ IsAttr(o) => NamesOne(query, o.attr)
      /\ IsAttr(u) => NamesOne(query, u.attr)
      /\ TypeBeside(query, o, u) = TypeBeside(query, u, o)
  BY DEF WellTyped
<1>4. g.operand = <<x, y>>
  OBVIOUS
<1> HIDE DEF x, y
<1>5. g.operand[1] = x /\ g.operand[2] = y
  BY <1>4
<1> SUFFICES ASSUME NEW row \in Rows
             PROVE  LeafValue(g, row) = Truth(LeafMeans(query, leaf, row))
  BY DEF SaysSo
<1> DEFINE a == resolve_value(x, row)
           b == resolve_value(y, row)
<1> HIDE DEF o, u
<1>6. /\ Resolves(x, row) /\ a.data = Denotes(query, o, u, row) /\ a.data \in Int
      /\ a.type = TypeBeside(query, o, u)
  BY <1>2, <1>3, OperandReads DEF x
<1>7. /\ Resolves(y, row) /\ b.data = Denotes(query, u, o, row) /\ b.data \in Int
      /\ b.type = TypeBeside(query, u, o)
  BY <1>2, <1>3, OperandReads DEF y
<1>8. LeafValue(g, row) = evaluate_values(leaf.op, a, b)
  BY <1>5, <1>6, <1>7 DEF LeafValue
<1> HIDE DEF a, b
<1>9. evaluate_values(leaf.op, a, b) = Truth(Satisfies(leaf.op, a.data, b.data))
  BY <1>1, <1>3, <1>6, <1>7, ComparesSo
<1> QED
  BY <1>6, <1>7, <1>8, <1>9 DEF LeafMeans, o, u


LEMMA AttributesResolvedRewritten ==
  ASSUME OwnershipInv, query \in Queries, LeavesSo, AttributesResolved
  PROVE  Rewritten'
<1> DEFINE q == query.preds
<1>1. /\ stage = "attributes" /\ resolved' = 0 /\ query' = query
      /\ preds = q /\ condition = query.root
  BY DEF AttributesResolved, LeavesSo
<1>2. q \in Seq(Predicates) /\ IsCondition(q, condition) /\ condition \in Nat
  BY <1>1, QueryIs
<1>3. \A k \in 1 .. resolved' : FALSE
  BY <1>1
<1>4. CASE condition # NoPredicate
  <2>1. preds' = q /\ condition' = condition
    BY <1>1, <1>4 DEF AttributesResolved
  <2> QED
    BY <1>1, <1>3, <1>4, <2>1 DEF Rewritten
<1>5. CASE condition = NoPredicate
  <2>1. Len(q) = 0 /\ DOMAIN q = {}
    <3>1. Len(q) = 0
      BY <1>2, <1>5 DEF IsCondition, NoPredicate
    <3> QED
      BY <1>2, <3>1
  <2> DEFINE r == PredicateRaw(TRUE)
  <2>2. preds' = Append(q, r) /\ condition' = Len(preds')
    BY <1>1, <1>5 DEF AttributesResolved
  <2>3. r.kind = "Raw" /\ r.value
    BY DEF PredicateRaw
  <2> HIDE DEF r
  <2>4. q = <<>>
    BY <1>2, <2>1
  <2>5. DOMAIN preds' = {1} /\ preds'[1] = r /\ condition' = 1
    BY <2>2, <2>4
  <2> HIDE DEF q
  <2> QED
    BY <1>1, <1>3, <1>5, <2>1, <2>3, <2>5 DEF Rewritten, q
<1> QED
  BY <1>4, <1>5

LEMMA ResolveLeafRewritten ==
  ASSUME OwnershipInv, query \in Queries, NamesSo, LeavesSo, Rewritten, ResolveLeaf
  PROVE  Rewritten'
<1> DEFINE s == LeavesOf(preds, condition)
           n == ThisLeaf
           l == resolve_operand(preds[n].operand[1])
           r == resolve_operand(preds[n].operand[2])
           q == query.preds
<1>1. /\ stage = "leaves" /\ condition' = condition /\ query' = query
      /\ resolved' = resolved + 1 /\ LeavesAreLeft /\ LeafResolves(preds[n])
      /\ preds' = [preds EXCEPT ![n].operand = <<set_value(l, r), set_value(r, l)>>]
  BY DEF ResolveLeaf, LeavesAreLeft
<1>2. /\ DOMAIN preds' = DOMAIN preds
      /\ \A m \in DOMAIN preds :
           /\ preds'[m].kind = preds[m].kind /\ preds'[m].child = preds[m].child
           /\ m # n => preds'[m] = preds[m]
      /\ preds'[n].operand = <<set_value(l, r), set_value(r, l)>>
      /\ LeavesOf(preds', condition') = s
  BY LeafRewritten, LeavesStay
<1>3. /\ LeavesUpto(preds, s, resolved, query) /\ resolved \in Nat
      /\ resolved + 1 \in DOMAIN s /\ n = s[resolved + 1]
      /\ \A k \in DOMAIN s : k # resolved + 1 => s[k] # n
      /\ n \in DOMAIN q /\ preds[n] = q[n] /\ WellTyped(query, q[n])
  BY <1>1, NextLeaf
<1>4. /\ Filled /\ q \in Seq(Predicates) /\ n \in DOMAIN preds
      /\ preds[n].kind = "Leaf" /\ Len(preds[n].operand) = 2
  BY <1>1, FilledNow, QueryIs, LeafIsNext DEF Late
<1>5. preds'[n].op = preds[n].op
  <2>1. preds[n] \in Predicates
    BY <1>3, <1>4
  <2> QED
    BY <1>1, <1>4, <2>1 DEF Predicates
<1>6. DOMAIN s = 1 .. Len(s) /\ Len(s) \in Nat
  <2>1. Formed(preds, condition) /\ condition \in Nat \ {0}
    BY <1>1, FormedNow
  <2>2. s \in Seq(SubPredicates(preds, condition))
    BY <2>1, LeavesAre DEF ListsLeaves
  <2> QED
    BY <2>2
<1>7. Rows' = Rows
  BY <1>1 DEF Rows
<1>8. SaysSo(preds'[n], q[n])
  <2> DEFINE g == preds'[n]
             e == q[n]
  <2>1. e \in Predicates /\ Len(e.operand) = 2 /\ WellTyped(query, e) /\ g.op = e.op
    BY <1>3, <1>4, <1>5
  <2>2. LET x == resolve_operand(e.operand[1])
            y == resolve_operand(e.operand[2])
        IN  g.operand = <<set_value(x, y), set_value(y, x)>>
    BY <1>2, <1>3
  <2> HIDE DEF g, e
  <2>3. SaysSo(g, e)
    BY <1>4, <2>1, <2>2, LeafSays
  <2> QED
    BY <2>3 DEF g, e
<1> HIDE DEF s, n, l, r
<1>9. ASSUME NEW k \in 1 .. resolved + 1
      PROVE  SaysSo(preds'[s[k]], q[s[k]])
  <2>1. CASE k = resolved + 1
    BY <1>3, <1>8, <2>1
  <2>2. CASE k # resolved + 1
    <3>1. k \in 1 .. resolved /\ k \in DOMAIN s
      BY <1>3, <1>6, <2>2
    <3>2. s[k] # n /\ s[k] \in DOMAIN q
      BY <1>3, <2>2, <3>1 DEF LeavesUpto, q
    <3>3. s[k] \in DOMAIN preds
      BY <3>2 DEF Rewritten, q
    <3>4. preds'[s[k]] = preds[s[k]]
      BY <1>2, <3>2, <3>3
    <3> QED
      BY <3>1, <3>4 DEF Rewritten, s, q
  <2> QED
    BY <2>1, <2>2
<1>10. /\ preds'[condition].kind = preds[condition].kind
       /\ preds'[condition] = preds[condition] \/ preds[condition].kind = "Leaf"
  <2>1. condition \in DOMAIN preds
    BY <1>1, FormedNow
  <2> QED
    BY <1>2, <1>4, <2>1
<1>11. ASSUME NEW k \in 1 .. resolved'
       PROVE  \A row \in Rows' : LeafValue(preds'[s[k]], row)
                                = Truth(LeafMeans(query', query'.preds[s[k]], row))
  BY <1>1, <1>7, <1>9 DEF SaysSo, q
<1>12. LeavesOf(preds', condition') = s
  BY <1>2
<1>13. \A m \in DOMAIN query'.preds :
         /\ m \in DOMAIN preds'
         /\ preds'[m].kind = query'.preds[m].kind /\ preds'[m].child = query'.preds[m].child
  BY <1>1, <1>2 DEF Rewritten
<1>14. /\ query'.root = NoPredicate => /\ DOMAIN preds' = {condition'}
                                      /\ preds'[condition'].kind = "Raw"
                                      /\ preds'[condition'].value
       /\ query'.root # NoPredicate =>
            condition' = query'.root /\ DOMAIN preds' = DOMAIN query'.preds
  BY <1>1, <1>2, <1>10 DEF Rewritten
<1> QED
  BY <1>11, <1>12, <1>13, <1>14 DEF Rewritten, SaysSo


\* The recursion of Means.
MeansAt(q, row, m, f) ==
  LET node == q.preds[m]
  IN  CASE node.kind = "Leaf" -> LeafMeans(q, node, row)
        [] node.kind = "Not"  -> ~f[node.child[1]]
        [] node.kind = "And"  -> f[node.child[1]] /\ f[node.child[2]]
        [] OTHER              -> f[node.child[1]] \/ f[node.child[2]]

MeansBy(q, row, S, f) == f = [m \in S |-> MeansAt(q, row, m, f)]

MeansIn(q, row) == CHOOSE f : MeansBy(q, row, DOMAIN q.preds, f)

\* The connectives of a condition, and that they look below them only.
QueryFormed(q, n) ==
  /\ DOMAIN q.preds = 1 .. n /\ Formed(q.preds, n)
  /\ \A m \in 1 .. n : q.preds[m].kind \in {"Leaf", "And", "Or", "Not"}

LEMMA MeansAtBelow ==
  ASSUME NEW q, NEW row, NEW n \in Nat, QueryFormed(q, n), NEW m \in 1 .. n, NEW f, NEW g,
         \A x \in 1 .. m - 1 : f[x] = g[x]
  PROVE  MeansAt(q, row, m, f) = MeansAt(q, row, m, g)
<1> DEFINE p == q.preds
           node == p[m]
<1>1. /\ node.kind \in {"Leaf", "And", "Or", "Not"}
      /\ node.kind = "Not" => node.child[1] \in 1 .. m - 1
      /\ node.kind \in {"And", "Or"} =>
           node.child[1] \in 1 .. m - 1 /\ node.child[2] \in 1 .. m - 1
  BY DEF Formed, QueryFormed
<1> HIDE DEF p
<1>2. CASE node.kind = "Leaf"
  BY <1>2 DEF MeansAt, p
<1>3. CASE node.kind = "Not"
  <2>1. f[node.child[1]] = g[node.child[1]]
    BY <1>1, <1>3
  <2> QED
    BY <1>3, <2>1 DEF MeansAt, p
<1>4. CASE node.kind \in {"And", "Or"}
  <2>1. f[node.child[1]] = g[node.child[1]] /\ f[node.child[2]] = g[node.child[2]]
    BY <1>1, <1>4
  <2> QED
    BY <1>4, <2>1 DEF MeansAt, p
<1> QED
  BY <1>1, <1>2, <1>3, <1>4

LEMMA MeansExist ==
  ASSUME NEW q, NEW row, NEW n \in Nat, QueryFormed(q, n)
  PROVE  \E f : MeansBy(q, row, 1 .. n, f)
<1> DEFINE T == {k \in 0 .. n : \E f : f = [m \in 1 .. k |-> MeansAt(q, row, m, f)]}
<1>1. 0 \in T
  <2> DEFINE f == [m \in 1 .. 0 |-> {}]
  <2>1. f = [m \in 1 .. 0 |-> MeansAt(q, row, m, f)]
    OBVIOUS
  <2> HIDE DEF f
  <2>2. \E h : h = [m \in 1 .. 0 |-> MeansAt(q, row, m, h)]
    BY <2>1
  <2>3. 0 \in 0 .. n
    OBVIOUS
  <2> QED
    BY <2>2, <2>3
<1>2. ASSUME NEW k \in 0 .. n - 1, k \in T PROVE k + 1 \in T
  <2>1. PICK f : f = [m \in 1 .. k |-> MeansAt(q, row, m, f)]
    BY <1>2
  <2> DEFINE g == [m \in 1 .. k + 1 |-> IF m = k + 1 THEN MeansAt(q, row, k + 1, f) ELSE f[m]]
  <2>2. \A m \in 1 .. k : f[m] = g[m]
    OBVIOUS
  <2>3. ASSUME NEW m \in 1 .. k + 1 PROVE g[m] = MeansAt(q, row, m, g)
    <3>1. g[m] = MeansAt(q, row, m, f)
      <4>1. CASE m = k + 1
        BY <4>1
      <4>2. CASE m # k + 1
        <5>1. m \in 1 .. k /\ g[m] = f[m]
          BY <4>2
        <5> HIDE DEF g
        <5> QED
          BY <2>1, <5>1
      <4> QED
        BY <4>1, <4>2
    <3>2. MeansAt(q, row, m, f) = MeansAt(q, row, m, g)
      <4>1. m \in 1 .. n /\ \A x \in 1 .. m - 1 : x \in 1 .. k
        OBVIOUS
      <4> HIDE DEF g
      <4>2. \A x \in 1 .. m - 1 : f[x] = g[x]
        BY <2>2, <4>1
      <4> QED
        BY <4>1, <4>2, MeansAtBelow
    <3> HIDE DEF g
    <3> QED
      BY <3>1, <3>2
  <2>4. g = [m \in 1 .. k + 1 |-> g[m]]
    OBVIOUS
  <2> HIDE DEF g
  <2>5. g = [m \in 1 .. k + 1 |-> MeansAt(q, row, m, g)]
    BY <2>3, <2>4
  <2>6. \E h : h = [m \in 1 .. k + 1 |-> MeansAt(q, row, m, h)]
    BY <2>5
  <2>7. k + 1 \in 0 .. n
    OBVIOUS
  <2> QED
    BY <2>6, <2>7
<1> HIDE DEF T
<1>3. 0 .. n \subseteq T
  BY <1>1, <1>2, IntervalInductionSet
<1> QED
  BY <1>3 DEF T, MeansBy

LEMMA MeansUnfold ==
  ASSUME NEW q, NEW row, NEW n \in Nat, QueryFormed(q, n)
  PROVE  /\ Means(q, row) <=> (q.root # NoPredicate => MeansIn(q, row)[q.root])
         /\ \A m \in 1 .. n : MeansIn(q, row)[m] = MeansAt(q, row, m, MeansIn(q, row))
<1>1. MeansIn(q, row) = [m \in DOMAIN q.preds |-> MeansAt(q, row, m, MeansIn(q, row))]
  <2>1. DOMAIN q.preds = 1 .. n
    BY DEF QueryFormed
  <2>2. MeansBy(q, row, DOMAIN q.preds, MeansIn(q, row))
    BY <2>1, MeansExist DEF MeansIn
  <2> QED
    BY <2>2 DEF MeansBy
<1>2. Means(q, row) <=> (q.root # NoPredicate => MeansIn(q, row)[q.root])
  BY DEF Means, MeansIn, MeansBy, MeansAt, LeafMeans
<1>3. DOMAIN q.preds = 1 .. n
  BY DEF QueryFormed
<1> QED
  BY <1>1, <1>2, <1>3


\* The children of a node, as many as its kind has.
LEMMA ChildrenOf ==
  ASSUME NEW p \in Seq(Predicates), NEW n \in DOMAIN p, NodeOK(p, n)
  PROVE  /\ p[n].kind \in {"Leaf", "Raw", "Destroyed"} => DOMAIN p[n].child = {}
         /\ p[n].kind = "Not" => DOMAIN p[n].child = {1}
         /\ p[n].kind \in {"And", "Or"} => DOMAIN p[n].child = {1, 2}
         /\ p[n].kind \in {"Leaf", "Raw", "Destroyed", "Not", "And", "Or"}
<1>1. p[n] \in Predicates
  OBVIOUS
<1>2. p[n].child \in Seq(Nat) /\ p[n].kind \in {"Leaf", "Raw", "Destroyed", "Not", "And", "Or"}
  BY <1>1 DEF Predicates
<1>3. \A k \in Nat : Len(p[n].child) = k => DOMAIN p[n].child = 1 .. k
  BY <1>2
<1>4. 1 .. 0 = {} /\ 1 .. 1 = {1} /\ 1 .. 2 = {1, 2} /\ 0 \in Nat /\ 1 \in Nat /\ 2 \in Nat
  OBVIOUS
<1> QED
  BY <1>2, <1>3, <1>4 DEF NodeOK

\* What a node means does not depend on the nodes that are not its children.
LEMMA NodeMeansKept ==
  ASSUME NEW p \in Seq(Predicates), NEW n \in DOMAIN p, NodeOK(p, n), NEW row, NEW T, NEW U,
         NodeMeans(p, T, n, row), NEW g, g[n] = p[n], n \in T <=> n \in U,
         \A k \in DOMAIN p[n].child :
           p[n].child[k] # NoPredicate => (p[n].child[k] \in T <=> p[n].child[k] \in U)
  PROVE  NodeMeans(g, U, n, row)
<1> DEFINE node == p[n]
<1>1. /\ node.kind = "Leaf" => LeafValue(node, row) = Truth(n \in T)
      /\ node.kind = "Raw" => (n \in T <=> node.value)
      /\ node.kind \in {"And", "Or", "Not"} /\ IsWhole(p, n) =>
           (n \in T <=> Joins(T, node.kind, node.child[1], node.child[2]))
  BY DEF NodeMeans
<1>2. /\ node.kind = "Not" => DOMAIN node.child = {1}
      /\ node.kind \in {"And", "Or"} => DOMAIN node.child = {1, 2}
  BY ChildrenOf
<1>3. IsWhole(g, n) <=> IsWhole(p, n)
  BY DEF IsWhole
<1>4. Truth(n \in U) = Truth(n \in T)
  BY DEF Truth
<1>5. ASSUME node.kind \in {"And", "Or", "Not"}, IsWhole(p, n)
      PROVE  Joins(T, node.kind, node.child[1], node.child[2])
             <=> Joins(U, node.kind, node.child[1], node.child[2])
  <2>1. CASE node.kind = "Not"
    <3>1. node.child[1] \in T <=> node.child[1] \in U
      BY <1>2, <1>5, <2>1 DEF IsWhole
    <3> HIDE DEF node
    <3> QED
      BY <2>1, <3>1 DEF Joins
  <2>2. CASE node.kind \in {"And", "Or"}
    <3>1. /\ node.child[1] \in T <=> node.child[1] \in U
          /\ node.child[2] \in T <=> node.child[2] \in U
      BY <1>2, <1>5, <2>2 DEF IsWhole
    <3> HIDE DEF node
    <3> QED
      BY <2>2, <3>1 DEF Joins
  <2> QED
    BY <1>5, <2>1, <2>2
<1>6. g[n] = node
  OBVIOUS
<1> HIDE DEF node
<1> QED
  BY <1>1, <1>3, <1>4, <1>5, <1>6 DEF NodeMeans

WorkedOnLive == \A i \in DOMAIN activations : activations[i].node \in LiveNodes

LEMMA NodeMeansApart ==
  ASSUME OwnershipInv, stage = "folding", NEW row, NEW T, NEW U,
         \A x \in DOMAIN preds : x # folded => (x \in U <=> x \in T),
         NEW m \in DOMAIN preds, m # folded, NodeMeans(preds, T, m, row),
         NEW g, g[m] = preds[m]
  PROVE  NodeMeans(g, U, m, row)
<1>1. /\ preds \in Seq(Predicates) /\ \A x \in DOMAIN preds : x # NoPredicate
      /\ DOMAIN preds = 1 .. Len(preds) /\ Len(preds) \in Nat
      /\ NodeOK(preds, m) /\ m \in Nat /\ activations # <<>>
      /\ PredicatesOwned /\ ActivationsOK
  BY RunningHas DEF OwnershipInv
<1>2. ASSUME NEW k \in DOMAIN preds[m].child, preds[m].child[k] # NoPredicate
      PROVE  preds[m].child[k] \in DOMAIN preds \ {folded}
  <2> DEFINE x == preds[m].child[k]
  <2>1. k \in Nat /\ x = ChildAt(preds, m, k) /\ x \in 1 .. m - 1
    <3>1. preds[m].child \in Seq(Nat)
      BY <1>1, NodeTyped
    <3> QED
      BY <1>1, <1>2, <3>1 DEF ChildAt, NodeOK
  <2> HIDE DEF x
  <2>2. x # folded
    <3> SUFFICES ASSUME x = folded PROVE FALSE
      OBVIOUS
    <3>1. folded # NoPredicate
      BY <1>2 DEF x
    <3> QED
      BY <1>1, <2>1, <3>1, LocalsApart
  <2>3. x \in DOMAIN preds
    BY <1>1, <2>1
  <2> QED
    BY <2>2, <2>3 DEF x
<1> QED
  BY <1>1, <1>2, NodeMeansKept

LEMMA WorkedOnIsLive == OwnershipInv /\ stage = "folding" => WorkedOnLive
<1> SUFFICES ASSUME OwnershipInv, stage = "folding", NEW i \in DOMAIN activations
             PROVE  activations[i].node \in LiveNodes
  BY DEF WorkedOnLive
<1>1. /\ This.node \in LiveNodes /\ activations # <<>> /\ ActivationsOK
      /\ \A n \in DOMAIN preds : n # NoPredicate
  BY RunningHas DEF OwnershipInv
<1>2. /\ DOMAIN activations = 1 .. Len(activations) /\ Len(activations) \in Nat \ {0}
      /\ This = activations[Len(activations)]
  BY <1>1, LastActivation
<1>3. CASE i = Len(activations)
  BY <1>1, <1>2, <1>3
<1>4. CASE i \in 1 .. Len(activations) - 1
  <2>1. activations[i].node \in DOMAIN preds
    BY <1>1 DEF ActivationsOK, ActivationsIn, ActivationIn
  <2> QED
    BY <1>1, <1>4, <2>1, LowerApart
<1> QED
  BY <1>2, <1>3, <1>4

LEMMA WorkedOnStaysLive == OwnershipInv' /\ (stage = "folding")' => WorkedOnLive'
<1>1. OwnershipInv /\ stage = "folding" => WorkedOnLive
  BY WorkedOnIsLive
<1> QED
  BY <1>1, PTL


\* A node is destroyed, is the one returned from, or hangs as it did.
KeptOrLost ==
  \A m \in DOMAIN preds :
    /\ m \in DOMAIN preds'
    /\ \/ m = This.node \/ preds'[m].kind = "Destroyed"
       \/ preds'[m].kind = preds[m].kind /\ preds'[m].child = preds[m].child

(* Only the returned pointer, and what it means, is handed on. *)
LEMMA ReturnMeans ==
  ASSUME OwnershipInv, OwnershipInv', stage = "folding", NEW row,
         NEW T \in SUBSET DOMAIN preds, MeantBy(T, row), NEW n, FoldReturn(n), KeptOrLost,
         NEW U, \A m \in DOMAIN preds' : NodeMeans(preds', U, m, row),
         \A x \in DOMAIN preds : x # folded => (x \in U <=> x \in T),
         n \in U <=> This.node \in T
  PROVE  MeantBy(U, row)'
<1> DEFINE a == activations
           b == activations'
           N == Len(activations)
<1>1. /\ a # <<>> /\ ActivationsOK /\ preds \in Seq(Predicates)
      /\ \A m \in DOMAIN preds : NodeOK(preds, m) /\ m # NoPredicate
  BY RunningHas DEF OwnershipInv
<1>2. N \in Nat \ {0} /\ DOMAIN a = 1 .. N /\ a \in Seq(ActivationTypes) /\ This = a[N]
  BY <1>1, LastActivation DEF ActivationsOK, ActivationsIn
<1>3. /\ b = SubSeq(a, 1, N - 1) /\ query' = query /\ conditions' = conditions
      /\ N = 1 => stage' = "splitting" /\ pending' = <<n>>
      /\ N # 1 => stage' = "folding" /\ folded' = n
      /\ conditions = <<>>
  BY DEF FoldReturn, Untouched, OwnershipInv, StageOK
<1>4. Popped(a, b)
  BY <1>1, <1>2, <1>3, PoppedAre
<1>5. Means(query, row)' <=> Means(query, row)
  BY <1>3
<1>6. /\ \A i \in DOMAIN a : ActivationMeans(T, i)
      /\ a[1].node \in T <=> Means(query, row)
  BY DEF MeantBy
<1>7. ASSUME NEW i \in 1 .. N - 1
      PROVE  /\ a[i].node \in DOMAIN preds /\ a[i].node # folded
             /\ preds'[a[i].node].kind = preds[a[i].node].kind
             /\ preds'[a[i].node].child = preds[a[i].node].child
             /\ b[i] = a[i] /\ i \in DOMAIN a /\ i \in DOMAIN b
  <2>1. b[i] = a[i] /\ i \in DOMAIN a /\ i \in DOMAIN b
    BY <1>4 DEF Popped
  <2>2. a[i].node \in DOMAIN preds
    BY <1>1, <2>1 DEF ActivationsOK, ActivationsIn, ActivationIn
  <2>3. a[i].node \notin {This.node, folded}
    BY <1>1, <2>2, LowerApart
  <2>4. stage' = "folding"
    BY <1>2, <1>3
  <2>5. a[i].node \in LiveNodes'
    BY <2>1, <2>4, WorkedOnStaysLive DEF WorkedOnLive
  <2> QED
    BY <2>1, <2>2, <2>3, <2>5 DEF KeptOrLost, LiveNodes
<1>8. ASSUME NEW i \in DOMAIN b
      PROVE  ActivationMeans(U, i)'
  <2> DEFINE t == preds[a[i].node]
             x == HandedTo(i)
             y == HandedTo(i)'
  <2>1. i \in 1 .. N - 1 /\ Len(b) = N - 1
    BY <1>4 DEF Popped
  <2>2. /\ a[i].node \in DOMAIN preds /\ a[i].node # folded /\ b[i] = a[i] /\ i \in DOMAIN a
        /\ preds'[a[i].node].kind = t.kind /\ preds'[a[i].node].child = t.child
    BY <1>7, <2>1
  <2>3. y \in U <=> x \in T
    <3>1. CASE i = N - 1
      <4>1. N # 1 /\ i # N /\ i + 1 = N /\ i = Len(b)
        <5> HIDE DEF N
        <5> QED
          BY <1>2, <2>1, <3>1
      <4>2. y = n /\ x = This.node
        BY <1>2, <1>3, <4>1 DEF HandedTo
      <4> QED
        BY <4>2
    <3>2. CASE i # N - 1
      <4>1. i + 1 \in 1 .. N - 1 /\ i # N
        BY <1>2, <2>1, <3>2
      <4>2. y = a[i + 1].node /\ x = a[i + 1].node
        BY <1>7, <2>1, <3>2, <4>1 DEF HandedTo
      <4> HIDE DEF x, y
      <4> QED
        BY <1>7, <4>1, <4>2
    <3> QED
      BY <3>1, <3>2
  <2>4. a[i].node \in U <=> a[i].node \in T
    BY <2>2
  <2>5. ActivationMeans(T, i) /\ ActivationIn(preds, a[i])
    BY <1>1, <1>6, <2>2 DEF ActivationsOK, ActivationsIn
  <2>6. /\ t.kind = "Not" => DOMAIN t.child = {1}
        /\ t.kind \in {"And", "Or"} => DOMAIN t.child = {1, 2}
    BY <1>1, <2>2, ChildrenOf
  <2>7. a[i].at = "first" => (a[i].node \in U <=> Joins(U, t.kind, y, t.child[2]))
    <3> SUFFICES ASSUME a[i].at = "first"
                 PROVE  a[i].node \in U <=> Joins(U, t.kind, y, t.child[2])
      OBVIOUS
    <3>1. a[i].node \in T <=> Joins(T, t.kind, x, t.child[2])
      BY <2>5 DEF ActivationMeans
    <3>2. t.kind \in {"And", "Or", "Not"}
      BY <2>5 DEF ActivationIn
    <3>3. t.kind \in {"And", "Or"} => (t.child[2] \in U <=> t.child[2] \in T)
      <4> SUFFICES ASSUME t.kind \in {"And", "Or"} PROVE t.child[2] \in U <=> t.child[2] \in T
        OBVIOUS
      <4>1. 2 \in DOMAIN t.child /\ t.child[2] # NoPredicate
        BY <2>5, <2>6 DEF ActivationIn
      <4>2. t.child[2] \in DOMAIN preds
        <5>1. t.child[2] \in 1 .. a[i].node - 1
          BY <1>1, <2>2, <4>1 DEF NodeOK
        <5> HIDE DEF t
        <5> QED
          BY <1>1, <2>2, <5>1
      <4>3. t.child[2] # folded
        <5>1. ChildAt(preds, a[i].node, 2) = t.child[2]
          BY <2>2, <4>1 DEF ChildAt
        <5>2. a[i].node \in Nat /\ 2 \in Nat
          BY <1>1, <2>2
        <5> HIDE DEF t
        <5> QED
          BY <1>1, <4>1, <5>1, <5>2, LocalsApart DEF OwnershipInv
      <4> QED
        BY <4>2, <4>3
    <3> HIDE DEF x, y, t
    <3> QED
      BY <2>3, <2>4, <3>1, <3>2, <3>3 DEF Joins
  <2>8. a[i].at = "second" => (a[i].node \in U <=> Joins(U, t.kind, a[i].lch, y))
    <3> SUFFICES ASSUME a[i].at = "second"
                 PROVE  a[i].node \in U <=> Joins(U, t.kind, a[i].lch, y)
      OBVIOUS
    <3>1. a[i].node \in T <=> Joins(T, t.kind, a[i].lch, x)
      BY <2>5 DEF ActivationMeans
    <3>2. t.kind \in {"And", "Or"} /\ a[i].lch # NoPredicate
      BY <2>5 DEF ActivationIn
    <3>3. a[i].lch \in DOMAIN preds /\ a[i].lch # folded
      BY <2>1, <3>2, LowerApart
    <3> HIDE DEF x, y, t
    <3> QED
      BY <2>3, <2>4, <3>1, <3>2, <3>3 DEF Joins
  <2> HIDE DEF x, y
  <2> QED
    BY <2>2, <2>7, <2>8 DEF ActivationMeans, x, y
<1>9. (stage = "folding")' => (activations'[1].node \in U <=> Means(query, row)')
  <2> SUFFICES ASSUME stage' = "folding"
               PROVE  activations'[1].node \in U <=> Means(query, row)
    BY <1>5
  <2>1. 1 \in 1 .. N - 1
    BY <1>2, <1>3
  <2> QED
    BY <1>6, <1>7, <2>1
<1>10. (stage \in {"splitting", "done"})' =>
         b = <<>> /\ (StatementMeans(U)' <=> Means(query, row)')
  <2> SUFFICES ASSUME stage' \in {"splitting", "done"}
               PROVE  b = <<>> /\ (StatementMeans(U)' <=> Means(query, row))
    BY <1>5
  <2>1. N = 1 /\ pending' = <<n>> /\ b = <<>>
    BY <1>3, <1>4 DEF Popped
  <2>2. DOMAIN pending' = {1} /\ pending'[1] = n /\ DOMAIN conditions' = {}
    BY <1>3, <2>1
  <2>3. StatementMeans(U)' <=> n \in U
    BY <2>2 DEF StatementMeans
  <2> QED
    BY <1>2, <1>6, <2>1, <2>3
<1>11. stage' # "done"
  BY <1>3
<1> QED
  BY <1>8, <1>9, <1>10, <1>11 DEF MeantBy


(* Some nodes are destroyed, and what is returned means what the node meant. *)
LEMMA ReturnSame ==
  ASSUME OwnershipInv, OwnershipInv', stage = "folding", NEW row,
         NEW T \in SUBSET DOMAIN preds, MeantBy(T, row), NEW n, FoldReturn(n),
         DOMAIN preds' = DOMAIN preds,
         \A m \in DOMAIN preds : preds'[m] = preds[m] \/ preds'[m].kind = "Destroyed",
         n \in T <=> This.node \in T
  PROVE  RowMeant(row)'
<1>1. preds \in Seq(Predicates) /\ \A m \in DOMAIN preds : NodeOK(preds, m)
  BY RunningHas
<1>2. KeptOrLost
  BY DEF KeptOrLost
<1>3. ASSUME NEW m \in DOMAIN preds' PROVE NodeMeans(preds', T, m, row)
  <2>1. CASE preds'[m] = preds[m]
    <3>1. NodeMeans(preds, T, m, row)
      BY DEF MeantBy
    <3> QED
      BY <1>1, <2>1, <3>1, NodeMeansKept
  <2>2. CASE preds'[m].kind = "Destroyed"
    BY <2>2 DEF NodeMeans
  <2> QED
    BY <2>1, <2>2
<1>4. MeantBy(T, row)'
  BY <1>2, <1>3, ReturnMeans
<1> QED
  BY <1>4 DEF RowMeant

LEMMA NothingMeans ==
  ASSUME OwnershipInv, OwnershipInv', NEW row, RowMeant(row), FoldNothing
  PROVE  RowMeant(row)'
<1>1. PICK T \in SUBSET DOMAIN preds : MeantBy(T, row)
  BY DEF RowMeant
<1>2. stage = "folding" /\ FoldReturn(This.node) /\ preds' = preds
  BY DEF FoldNothing, Folding
<1> QED
  BY <1>1, <1>2, ReturnSame

LEMMA SimpleLeafMeans ==
  ASSUME OwnershipInv, OwnershipInv', NEW row, RowMeant(row), FoldSimpleLeaf
  PROVE  RowMeant(row)'
<1> DEFINE t == This.node
           n == Len(preds) + 1
           leaf == preds[t]
           value == evaluate_values(leaf.op, leaf.operand[1].val, leaf.operand[2].val)
           d == DestroyPredicates(preds, {t})
           r == PredicateRaw(value = "true")
<1>1. PICK T \in SUBSET DOMAIN preds : MeantBy(T, row)
  BY DEF RowMeant
<1>2. /\ stage = "folding" /\ This.at = "enter" /\ leaf.kind = "Leaf" /\ check_simple(leaf)
      /\ value # "throws" => preds' = Append(d, r) /\ FoldReturn(n)
  BY DEF FoldSimpleLeaf, Folding
<1>3. /\ t \in DOMAIN preds /\ preds \in Seq(Predicates) /\ n \in Nat /\ n \notin DOMAIN preds
      /\ \A m \in DOMAIN preds : NodeOK(preds, m)
      /\ folded \in {NoPredicate} \cup DOMAIN preds /\ n # NoPredicate
  BY <1>2, RunningHas DEF OwnershipInv, StageOK, LiveNodes, NoPredicate
<1>4. value = Truth(t \in T)
  <2>1. LeafValue(leaf, row) = Truth(t \in T)
    BY <1>1, <1>2, <1>3 DEF MeantBy, NodeMeans
  <2>2. DOMAIN leaf.operand = {1, 2}
    <3>1. leaf \in Predicates /\ Len(leaf.operand) = 2
      BY <1>2, <1>3 DEF NodeOK
    <3>2. leaf.operand \in Seq(Operands)
      BY <3>1 DEF Predicates
    <3> QED
      BY <3>1, <3>2
  <2>3. ~IsAttr(leaf.operand[1]) /\ ~IsAttr(leaf.operand[2])
    BY <1>2, <2>2 DEF check_simple
  <2> HIDE DEF leaf
  <2>4. LeafValue(leaf, row) = value
    BY <2>3 DEF LeafValue, Resolves, resolve_value
  <2> QED
    BY <2>1, <2>4
<1> HIDE DEF value
<1>5. preds' = Append(d, r) /\ FoldReturn(n)
  BY <1>2, <1>4 DEF Truth
<1>6. r.kind = "Raw" /\ r.child = <<>> /\ (r.value <=> t \in T)
  BY <1>4 DEF PredicateRaw, Truth
<1>7. /\ Len(d) = Len(preds) /\ DOMAIN d = DOMAIN preds /\ d \in Seq(Predicates)
      /\ \A m \in DOMAIN preds : m # t => d[m] = preds[m]
      /\ d[t].kind = "Destroyed"
  BY <1>3, DestroyedAre
<1> HIDE DEF d, r, t, leaf
<1>8. /\ DOMAIN preds' = DOMAIN preds \cup {n} /\ preds'[n] = r
      /\ \A m \in DOMAIN preds : preds'[m] = d[m]
  BY <1>3, <1>5, <1>7
<1>9. PICK U \in SUBSET DOMAIN preds' :
         (n \in U <=> t \in T) /\ \A x \in DOMAIN preds : x \in U <=> x \in T
  <2> DEFINE V == IF t \in T THEN T \cup {n} ELSE T
  <2>1. V \subseteq DOMAIN preds' /\ (n \in V <=> t \in T)
        /\ \A x \in DOMAIN preds : x \in V <=> x \in T
    BY <1>3, <1>8
  <2> QED
    BY <2>1
<1> HIDE DEF n
<1>10. folded = NoPredicate /\ \A m \in DOMAIN preds : m # NoPredicate
  BY <1>2, RunningHas
<1>11. ASSUME NEW m \in DOMAIN preds' PROVE NodeMeans(preds', U, m, row)
  <2>1. CASE m = n
    BY <1>6, <1>8, <1>9, <2>1 DEF NodeMeans
  <2>2. CASE m = t
    BY <1>3, <1>7, <1>8, <2>2 DEF NodeMeans
  <2>3. CASE m \in DOMAIN preds \ {t}
    <3>1. preds'[m] = preds[m] /\ NodeMeans(preds, T, m, row) /\ NodeOK(preds, m)
      BY <1>1, <1>3, <1>7, <1>8, <2>3 DEF MeantBy
    <3> QED
      BY <1>2, <1>9, <1>10, <2>3, <3>1, NodeMeansApart
  <2> QED
    BY <1>8, <2>1, <2>2, <2>3
<1>12. KeptOrLost
  BY <1>7, <1>8 DEF KeptOrLost, t
<1>13. MeantBy(U, row)'
  BY <1>1, <1>2, <1>5, <1>9, <1>11, <1>12, ReturnMeans DEF t
<1> QED
  BY <1>9, <1>13 DEF RowMeant


LEMMA ConstantMeans ==
  ASSUME OwnershipInv, OwnershipInv', NEW row, RowMeant(row), FoldConstant
  PROVE  RowMeant(row)'
<1> DEFINE t == This.node
           kind == preds[t].kind
           raw == IF preds[This.lch].kind = "Raw" THEN This.lch ELSE folded
           other == IF preds[This.lch].kind = "Raw" THEN folded ELSE This.lch
           kept == Keep(raw, other, kind)
<1>1. PICK T \in SUBSET DOMAIN preds : MeantBy(T, row)
  BY DEF RowMeant
<1>2. /\ stage = "folding" /\ This.at = "second" /\ FoldReturn(kept) /\ kind \in {"And", "Or"}
      /\ \E D : preds' = DestroyPredicates(preds, D)
      /\ "Raw" \in {preds[This.lch].kind, preds[folded].kind}
  BY DEF FoldConstant, Folding
<1>3. /\ preds \in Seq(Predicates) /\ folded \in DOMAIN preds /\ This.lch \in DOMAIN preds
      /\ activations # <<>> /\ ActivationsOK
  BY <1>2, RunningHas DEF LiveNodes, OwnershipInv
<1>4. /\ DOMAIN preds' = DOMAIN preds
      /\ \A m \in DOMAIN preds : preds'[m] = preds[m] \/ preds'[m].kind = "Destroyed"
  BY <1>2, <1>3, DestroyedAre
<1>5. t \in T <=> Joins(T, kind, This.lch, folded)
  <2>1. Len(activations) \in DOMAIN activations /\ This = activations[Len(activations)]
    BY <1>3, LastActivation
  <2>2. ActivationMeans(T, Len(activations))
    BY <1>1, <2>1 DEF MeantBy
  <2> QED
    BY <1>2, <2>1, <2>2 DEF ActivationMeans, HandedTo
<1>6. /\ {raw, other} = {This.lch, folded} /\ raw \in DOMAIN preds /\ preds[raw].kind = "Raw"
  BY <1>2, <1>3
<1>7. raw \in T <=> preds[raw].value
  <2> HIDE DEF raw
  <2> QED
    BY <1>1, <1>6 DEF MeantBy, NodeMeans
<1> HIDE DEF raw, other
<1>8. Joins(T, kind, This.lch, folded) <=> Joins(T, kind, raw, other)
  BY <1>2, <1>6 DEF Joins
<1> HIDE DEF kind
<1>9. preds[raw].value \in BOOLEAN
  <2>1. preds[raw] \in Predicates
    BY <1>3, <1>6
  <2> QED
    BY <2>1 DEF Predicates
<1>10. kept = IF preds[raw].value = (kind = "Or") THEN raw ELSE other
  BY DEF Keep, Absorbs
<1> HIDE DEF kept
<1>11. kept \in T <=> t \in T
  <2>1. CASE kind = "And"
    BY <1>5, <1>7, <1>8, <1>9, <1>10, <2>1 DEF Joins
  <2>2. CASE kind = "Or"
    BY <1>5, <1>7, <1>8, <1>9, <1>10, <2>2 DEF Joins
  <2> QED
    BY <1>2, <2>1, <2>2
<1> QED
  BY <1>1, <1>2, <1>4, <1>11, ReturnSame

LEMMA NotConstantMeans ==
  ASSUME OwnershipInv, OwnershipInv', NEW row, RowMeant(row), FoldNotConstant
  PROVE  RowMeant(row)'
<1> DEFINE t == This.node
           p == [preds EXCEPT ![folded].value = ~@]
           r == [preds[folded] EXCEPT !.value = ~@]
<1>1. PICK T \in SUBSET DOMAIN preds : MeantBy(T, row)
  BY DEF RowMeant
<1>2. /\ stage = "folding" /\ This.at = "first" /\ FoldReturn(folded)
      /\ preds' = DestroyPredicates(p, {t})
      /\ preds[t].kind = "Not" /\ preds[folded].kind = "Raw"
  BY DEF FoldNotConstant, Folding
<1>3. /\ preds \in Seq(Predicates) /\ folded \in DOMAIN preds /\ folded # t
      /\ \A m \in DOMAIN preds : NodeOK(preds, m)
      /\ activations # <<>> /\ ActivationsOK /\ t \in DOMAIN preds
  BY <1>2, RunningHas DEF LiveNodes, OwnershipInv
<1>4. /\ OneNode(p, preds, folded, r) /\ r.kind = "Raw" /\ r.child = preds[folded].child
      /\ r.value = ~preds[folded].value
  <2>1. preds[folded] \in Predicates
    BY <1>3
  <2>2. r.value = ~preds[folded].value
    BY <2>1 DEF Predicates
  <2> QED
    BY <1>2, <1>3, <2>2, ValueFlipped
<1> HIDE DEF p, r
<1>5. /\ DOMAIN preds' = DOMAIN preds /\ preds'[t].kind = "Destroyed" /\ preds'[folded] = r
      /\ \A m \in DOMAIN preds : m \notin {t, folded} => preds'[m] = preds[m]
  <2>1. p \in Seq(Predicates) /\ DOMAIN p = DOMAIN preds
    BY <1>4 DEF OneNode
  <2> QED
    BY <1>2, <1>3, <1>4, <2>1, DestroyedAre DEF OneNode
<1>6. t \in T <=> folded \notin T
  <2>1. Len(activations) \in DOMAIN activations /\ This = activations[Len(activations)]
    BY <1>3, LastActivation
  <2>2. ActivationMeans(T, Len(activations))
    BY <1>1, <2>1 DEF MeantBy
  <2> QED
    BY <1>2, <2>1, <2>2 DEF ActivationMeans, HandedTo, Joins
<1>7. folded \in T <=> preds[folded].value
  BY <1>1, <1>2, <1>3 DEF MeantBy, NodeMeans
<1>8. PICK U \in SUBSET DOMAIN preds' :
         (folded \in U <=> folded \notin T)
         /\ \A x \in DOMAIN preds : x # folded => (x \in U <=> x \in T)
  <2> DEFINE V == IF folded \in T THEN T \ {folded} ELSE T \cup {folded}
  <2>1. V \subseteq DOMAIN preds' /\ (folded \in V <=> folded \notin T)
        /\ \A x \in DOMAIN preds : x # folded => (x \in V <=> x \in T)
    BY <1>3, <1>5
  <2> QED
    BY <2>1
<1> HIDE DEF t
<1>9. ASSUME NEW m \in DOMAIN preds' PROVE NodeMeans(preds', U, m, row)
  <2>1. CASE m = folded
    BY <1>4, <1>5, <1>7, <1>8, <2>1 DEF NodeMeans
  <2>2. CASE m = t
    BY <1>5, <2>2 DEF NodeMeans
  <2>3. CASE m \notin {folded, t}
    <3>1. preds'[m] = preds[m] /\ NodeMeans(preds, T, m, row) /\ m \in DOMAIN preds
      BY <1>1, <1>5, <2>3 DEF MeantBy
    <3> QED
      BY <1>2, <1>8, <2>3, <3>1, NodeMeansApart
  <2> QED
    BY <2>1, <2>2, <2>3
<1>10. KeptOrLost
  BY <1>2, <1>4, <1>5 DEF KeptOrLost, t
<1>11. MeantBy(U, row)'
  BY <1>1, <1>2, <1>6, <1>8, <1>9, <1>10, ReturnMeans DEF t
<1> QED
  BY <1>11 DEF RowMeant


\* Nothing is written but the children of node n.
ChildrenOnly(g, p, n, c) ==
  /\ DOMAIN g = DOMAIN p /\ \A m \in DOMAIN p : m # n => g[m] = p[m]
  /\ g[n].kind = p[n].kind /\ g[n].child = c

LEMMA ChildrenOnlyWritten ==
  ASSUME NEW p \in Seq(Predicates), NEW n \in DOMAIN p, NEW c \in Seq(Nat)
  PROVE  ChildrenOnly([p EXCEPT ![n].child = c], p, n, c)
<1> DEFINE r == [p[n] EXCEPT !.child = c]
<1>1. p[n] \in Predicates
  OBVIOUS
<1>2. r \in Predicates /\ r.kind = p[n].kind /\ r.child = c
  BY <1>1, NodeWritten
<1>3. [p EXCEPT ![n].child = c] = [p EXCEPT ![n] = r]
  OBVIOUS
<1> HIDE DEF r
<1> QED
  BY <1>2, <1>3, OneWritten DEF OneNode, ChildrenOnly

LEMMA RefillMeans ==
  ASSUME OwnershipInv, OwnershipInv', stage = "folding", NEW row, FoldReturn(This.node),
         NEW c, c \in Seq(Nat), preds' = [preds EXCEPT ![This.node].child = c],
         preds[This.node].kind \in {"And", "Or", "Not"},
         NEW T \in SUBSET DOMAIN preds, MeantBy(T, row),
         This.node \in T <=> Joins(T, preds[This.node].kind, c[1], c[2])
  PROVE  RowMeant(row)'
<1> DEFINE t == This.node
<1>1. /\ preds \in Seq(Predicates) /\ t \in DOMAIN preds
      /\ \A m \in DOMAIN preds : NodeOK(preds, m)
  BY RunningHas
<1>2. ChildrenOnly(preds', preds, t, c)
  BY <1>1, ChildrenOnlyWritten
<1>3. ASSUME NEW m \in DOMAIN preds' PROVE NodeMeans(preds', T, m, row)
  <2>1. CASE m = t
    BY <1>2, <2>1 DEF NodeMeans, ChildrenOnly
  <2>2. CASE m # t
    <3>1. preds'[m] = preds[m] /\ NodeMeans(preds, T, m, row) /\ m \in DOMAIN preds
      BY <1>2, <2>2 DEF MeantBy, ChildrenOnly
    <3> QED
      BY <1>1, <3>1, NodeMeansKept
  <2> QED
    BY <2>1, <2>2
<1>4. KeptOrLost
  BY <1>2 DEF KeptOrLost, ChildrenOnly
<1>5. MeantBy(T, row)'
  BY <1>3, <1>4, ReturnMeans
<1>6. T \in SUBSET DOMAIN preds'
  BY <1>2 DEF ChildrenOnly
<1> QED
  BY <1>5, <1>6 DEF RowMeant

LEMMA BinaryMeans ==
  ASSUME OwnershipInv, OwnershipInv', NEW row, RowMeant(row), FoldBinary
  PROVE  RowMeant(row)'
<1> DEFINE c == <<This.lch, folded>>
<1>1. PICK T \in SUBSET DOMAIN preds : MeantBy(T, row)
  BY DEF RowMeant
<1>2. /\ stage = "folding" /\ This.at = "second" /\ FoldReturn(This.node)
      /\ preds' = [preds EXCEPT ![This.node].child = c]
      /\ preds[This.node].kind \in {"And", "Or"}
  BY DEF FoldBinary, Folding
<1>3. /\ activations # <<>> /\ ActivationsOK /\ This.lch \in Nat /\ folded \in Nat
  BY <1>2, RunningHas DEF LiveNodes, OwnershipInv
<1>4. This.node \in T <=> Joins(T, preds[This.node].kind, This.lch, folded)
  <2>1. Len(activations) \in DOMAIN activations /\ This = activations[Len(activations)]
    BY <1>3, LastActivation
  <2>2. ActivationMeans(T, Len(activations))
    BY <1>1, <2>1 DEF MeantBy
  <2> QED
    BY <1>2, <2>1, <2>2 DEF ActivationMeans, HandedTo
<1>5. c \in Seq(Nat) /\ c[1] = This.lch /\ c[2] = folded
  BY <1>3
<1> HIDE DEF c
<1> QED
  BY <1>1, <1>2, <1>4, <1>5, RefillMeans

LEMMA NotMeans ==
  ASSUME OwnershipInv, OwnershipInv', NEW row, RowMeant(row), FoldNot
  PROVE  RowMeant(row)'
<1> DEFINE c == <<folded>>
<1>1. PICK T \in SUBSET DOMAIN preds : MeantBy(T, row)
  BY DEF RowMeant
<1>2. /\ stage = "folding" /\ This.at = "first" /\ FoldReturn(This.node)
      /\ preds' = [preds EXCEPT ![This.node].child = c]
      /\ preds[This.node].kind = "Not"
  BY DEF FoldNot, Folding
<1>3. /\ activations # <<>> /\ ActivationsOK /\ folded \in Nat
  BY <1>2, RunningHas DEF LiveNodes, OwnershipInv
<1>4. This.node \in T <=> folded \notin T
  <2>1. Len(activations) \in DOMAIN activations /\ This = activations[Len(activations)]
    BY <1>3, LastActivation
  <2>2. ActivationMeans(T, Len(activations))
    BY <1>1, <2>1 DEF MeantBy
  <2> QED
    BY <1>2, <2>1, <2>2 DEF ActivationMeans, HandedTo, Joins
<1>5. c \in Seq(Nat) /\ c[1] = folded
  BY <1>3
<1> HIDE DEF c
<1>6. This.node \in T <=> Joins(T, preds[This.node].kind, c[1], c[2])
  BY <1>2, <1>4, <1>5 DEF Joins
<1> QED
  BY <1>1, <1>2, <1>5, <1>6, RefillMeans

(* A call takes a child out of the node, and waits for it. *)
LEMMA CallMeans ==
  ASSUME OwnershipInv, stage = "folding", NEW row, NEW f, NEW k, Calls(f, k), FoldChild(f, k),
         NEW T \in SUBSET DOMAIN preds, MeantBy(T, row),
         LET t == preds[This.node]
         IN  /\ f.at = "first" =>
                  (This.node \in T <=> Joins(T, t.kind, t.child[k], preds'[This.node].child[2]))
             /\ f.at = "second" => (This.node \in T <=> Joins(T, t.kind, f.lch, t.child[k]))
  PROVE  RowMeant(row)'
<1> DEFINE t == This.node
           c == preds[t].child[k]
           a == activations
           b == activations'
           N == Len(activations)
<1>1. /\ DOMAIN preds' = DOMAIN preds
      /\ \A m \in DOMAIN preds : m # t => preds'[m] = preds[m]
      /\ preds'[t].kind = preds[t].kind
      /\ DOMAIN preds'[t].child = DOMAIN preds[t].child
      /\ \A j \in DOMAIN preds[t].child :
           preds'[t].child[j] = IF j = k THEN NoPredicate ELSE preds[t].child[j]
      /\ c \in DOMAIN preds
  BY ChildMoved
<1>2. /\ f \in ActivationTypes /\ f.node = t /\ preds[t].kind \in {"And", "Or", "Not"}
      /\ k \in DOMAIN preds[t].child
  BY DEF Calls
<1>3. /\ a \in Seq(ActivationTypes) /\ a # <<>> /\ preds \in Seq(Predicates)
      /\ DOMAIN preds \subseteq Nat /\ t \in DOMAIN preds
      /\ \A m \in DOMAIN preds : NodeOK(preds, m) /\ m # NoPredicate
      /\ \A i \in DOMAIN a : a[i].node \in DOMAIN preds
      /\ N \in Nat \ {0} /\ DOMAIN a = 1 .. N /\ This = a[N]
  BY RunningHas, LastActivation DEF OwnershipInv, ActivationsOK, ActivationsIn, ActivationIn
<1>4. /\ b = Append([a EXCEPT ![N] = f], Activation(c))
      /\ folded' = NoPredicate /\ stage' = stage /\ query' = query
  BY DEF FoldChild, Untouched
<1> HIDE DEF c, t
<1>5. Pushed(a, b, f, c)
  <2>1. c \in Nat
    BY <1>1, <1>3
  <2> QED
    BY <1>2, <1>3, <1>4, <2>1, PushedAre
<1>6. ASSUME NEW m \in DOMAIN preds' PROVE NodeMeans(preds', T, m, row)
  <2>1. CASE m = t
    <3>1. ~IsWhole(preds', m)
      BY <1>1, <1>2, <2>1 DEF IsWhole
    <3> QED
      BY <1>1, <1>2, <2>1, <3>1 DEF NodeMeans
  <2>2. CASE m # t
    <3>1. preds'[m] = preds[m] /\ NodeMeans(preds, T, m, row) /\ m \in DOMAIN preds
      BY <1>1, <2>2 DEF MeantBy
    <3> QED
      BY <1>3, <3>1, NodeMeansKept
  <2> QED
    BY <2>1, <2>2
<1>7. /\ DOMAIN b = 1 .. N + 1 /\ Len(b) = N + 1 /\ b[N] = f /\ b[N + 1].at = "enter"
      /\ b[N + 1].node = c /\ \A i \in 1 .. N - 1 : b[i] = a[i]
  BY <1>5 DEF Pushed, Activation
<1>8. ASSUME NEW i \in DOMAIN b PROVE ActivationMeans(T, i)'
  <2>1. CASE i = N + 1
    BY <1>7, <2>1 DEF ActivationMeans
  <2>2. CASE i = N
    <3>1. HandedTo(i)' = c
      <4>1. N # N + 1
        <5> HIDE DEF N
        <5> QED
          BY <1>3
      <4> QED
        BY <1>7, <2>2, <4>1 DEF HandedTo
    <3> QED
      BY <1>1, <1>2, <1>7, <2>2, <3>1 DEF ActivationMeans, c, t
  <2>3. CASE i \in 1 .. N - 1
    <3>1. HandedTo(i)' = HandedTo(i)
      <4>1. i # N /\ i # N + 1 /\ i + 1 \in 1 .. N
        BY <1>3, <2>3
      <4>2. b[i + 1].node = a[i + 1].node
        <5>1. CASE i + 1 = N
          BY <1>2, <1>3, <1>7, <5>1 DEF t
        <5>2. CASE i + 1 # N
          <6>1. i + 1 \in 1 .. N - 1
            <7> HIDE DEF N
            <7> QED
              BY <1>3, <2>3, <5>2
          <6> QED
            BY <1>7, <6>1
        <5> QED
          BY <5>1, <5>2
      <4> QED
        BY <1>7, <4>1, <4>2 DEF HandedTo
    <3>2. ActivationMeans(T, i) /\ a[i].node \in DOMAIN preds
      BY <1>3, <2>3 DEF MeantBy
    <3>3. a[i].node # t
      BY <1>3, <2>3, <3>2, LowerApart DEF t
    <3>4. b[i] = a[i] /\ preds'[a[i].node] = preds[a[i].node]
      BY <1>1, <1>7, <2>3, <3>2, <3>3
    <3> QED
      BY <3>1, <3>2, <3>4 DEF ActivationMeans
  <2> QED
    BY <1>7, <2>1, <2>2, <2>3
<1>9. b[1].node = a[1].node
  <2>1. CASE N = 1
    BY <1>2, <1>3, <1>7, <2>1 DEF t
  <2>2. CASE N # 1
    BY <1>3, <1>7, <2>2
  <2> QED
    BY <2>1, <2>2
<1>10. b[1].node \in T <=> Means(query, row)'
  BY <1>4, <1>9 DEF MeantBy
<1>11. MeantBy(T, row)'
  BY <1>4, <1>6, <1>8, <1>10 DEF MeantBy
<1> QED
  BY <1>1, <1>11 DEF RowMeant


LEMMA FirstMeans ==
  ASSUME OwnershipInv, NEW row, RowMeant(row), FoldFirst
  PROVE  RowMeant(row)'
<1> DEFINE f == [This EXCEPT !.at = "first"]
           t == This.node
           kind == preds[t].kind
<1>1. PICK T \in SUBSET DOMAIN preds : MeantBy(T, row)
  BY DEF RowMeant
<1>2. stage = "folding" /\ This.at = "enter" /\ FoldChild(f, 1) /\ Calls(f, 1)
  BY FoldFirstCalls DEF FoldFirst, Folding
<1>3. f.at = "first"
  <2>1. This \in ActivationTypes
    BY <1>2, RunningHas, LastActivation DEF OwnershipInv
  <2> QED
    BY <2>1 DEF ActivationTypes
<1>4. /\ kind \in {"And", "Or", "Not"} /\ t \in DOMAIN preds /\ preds \in Seq(Predicates)
      /\ NodeOK(preds, t) /\ IsWhole(preds, t)
  BY <1>2, RunningHas DEF Calls
<1>5. t \in T <=> Joins(T, kind, preds[t].child[1], preds[t].child[2])
  BY <1>1, <1>4 DEF MeantBy, NodeMeans
<1>6. /\ DOMAIN preds'[t].child = DOMAIN preds[t].child
      /\ \A j \in DOMAIN preds[t].child :
           preds'[t].child[j] = IF j = 1 THEN NoPredicate ELSE preds[t].child[j]
  BY <1>2, ChildMoved
<1>7. /\ kind = "Not" => DOMAIN preds[t].child = {1}
      /\ kind \in {"And", "Or"} => DOMAIN preds[t].child = {1, 2}
  BY <1>4, ChildrenOf
<1>8. kind \in {"And", "Or"} => preds'[t].child[2] = preds[t].child[2]
  BY <1>6, <1>7
<1> HIDE DEF f, t, kind
<1>9. t \in T <=> Joins(T, kind, preds[t].child[1], preds'[t].child[2])
  BY <1>4, <1>5, <1>8 DEF Joins
<1> QED
  BY <1>1, <1>2, <1>3, <1>9, CallMeans DEF t, kind

LEMMA SecondMeans ==
  ASSUME OwnershipInv, NEW row, RowMeant(row), FoldSecond
  PROVE  RowMeant(row)'
<1> DEFINE f == [This EXCEPT !.at = "second", !.lch = folded]
           t == This.node
           kind == preds[t].kind
<1>1. PICK T \in SUBSET DOMAIN preds : MeantBy(T, row)
  BY DEF RowMeant
<1>2. stage = "folding" /\ This.at = "first" /\ FoldChild(f, 2) /\ Calls(f, 2)
  BY FoldSecondCalls DEF FoldSecond, Folding
<1>3. ActivationsOK /\ activations # <<>>
  BY <1>2, RunningHas DEF OwnershipInv
<1>4. f.at = "second" /\ f.lch = folded
  <2>1. This \in ActivationTypes
    BY <1>3, LastActivation
  <2> QED
    BY <2>1 DEF ActivationTypes
<1>5. t \in T <=> Joins(T, kind, folded, preds[t].child[2])
  <2>1. Len(activations) \in DOMAIN activations /\ This = activations[Len(activations)]
    BY <1>3, LastActivation
  <2>2. ActivationMeans(T, Len(activations))
    BY <1>1, <2>1 DEF MeantBy
  <2> QED
    BY <1>2, <2>1, <2>2 DEF ActivationMeans, HandedTo
<1> HIDE DEF f
<1> QED
  BY <1>1, <1>2, <1>4, <1>5, CallMeans

(* An AND that is split holds iff both of its children do. *)
LEMMA SplitAndMeans ==
  ASSUME OwnershipInv, NEW row, RowMeant(row), SplitAnd
  PROVE  RowMeant(row)'
<1> DEFINE h == Head(pending)
           N == Len(pending) - 1
           c == preds[h].child
<1>1. PICK T \in SUBSET DOMAIN preds : MeantBy(T, row)
  BY DEF RowMeant
<1>2. /\ stage = "splitting" /\ stage' = stage /\ activations' = activations /\ query' = query
      /\ conditions' = conditions /\ preds[h].kind = "And"
  BY DEF SplitAnd, foldVars, Untouched
<1>3. /\ pending \in Seq(DOMAIN preds) /\ activations = <<>> /\ preds \in Seq(Predicates)
      /\ h \in DOMAIN preds /\ h = pending[1] /\ N \in Nat /\ Len(pending) = N + 1
      /\ DOMAIN c = {1, 2} /\ c[1] # NoPredicate /\ c[2] # NoPredicate
      /\ pending' \in Seq(DOMAIN preds) /\ Len(pending') = N + 2
      /\ pending'[1] = c[1] /\ pending'[2] = c[2]
      /\ \A i \in 1 .. N : pending'[i + 2] = pending[i + 1]
      /\ DOMAIN preds' = DOMAIN preds
      /\ \A m \in DOMAIN preds : m # h => preds'[m] = preds[m]
      /\ preds'[h].kind = "Destroyed"
  BY SplitInTwo
<1>4. \A m \in DOMAIN preds : NodeOK(preds, m)
  BY DEF OwnershipInv, PredsOK
<1>5. h \in T <=> c[1] \in T /\ c[2] \in T
  <2>1. IsWhole(preds, h)
    BY <1>3 DEF IsWhole
  <2>2. NodeMeans(preds, T, h, row)
    BY <1>1, <1>3 DEF MeantBy
  <2> QED
    BY <1>2, <2>1, <2>2 DEF NodeMeans, Joins
<1> HIDE DEF h, N, c
<1>6. (\A i \in DOMAIN pending' : pending'[i] \in T)
      <=> (\A i \in DOMAIN pending : pending[i] \in T)
  <2>1. DOMAIN pending = 1 .. N + 1 /\ DOMAIN pending' = 1 .. N + 2
    BY <1>3
  <2>2. \A i \in 1 .. N + 1 : i = 1 \/ (i - 1 \in 1 .. N /\ (i - 1) + 1 = i)
    BY <1>3
  <2>3. \A i \in 1 .. N + 2 : i = 1 \/ i = 2 \/ (i - 2 \in 1 .. N /\ (i - 2) + 2 = i)
    BY <1>3
  <2>4. \A i \in 1 .. N : i + 1 \in 1 .. N + 1 /\ i + 2 \in 1 .. N + 2
    BY <1>3
  <2>5. 1 \in 1 .. N + 1 /\ 1 \in 1 .. N + 2 /\ 2 \in 1 .. N + 2
    BY <1>3
  <2>6. ASSUME \A i \in DOMAIN pending : pending[i] \in T, NEW i \in DOMAIN pending'
        PROVE  pending'[i] \in T
    <3>1. c[1] \in T /\ c[2] \in T
      BY <1>3, <1>5, <2>1, <2>5, <2>6
    <3>2. CASE i - 2 \in 1 .. N /\ (i - 2) + 2 = i
      <4>1. pending'[(i - 2) + 2] = pending[(i - 2) + 1] /\ (i - 2) + 1 \in DOMAIN pending
        BY <1>3, <2>1, <2>4, <3>2
      <4> QED
        BY <2>6, <3>2, <4>1
    <3> QED
      BY <1>3, <2>1, <2>3, <2>6, <3>1, <3>2
  <2>7. ASSUME \A i \in DOMAIN pending' : pending'[i] \in T, NEW i \in DOMAIN pending
        PROVE  pending[i] \in T
    <3>1. h \in T
      BY <1>3, <1>5, <2>1, <2>5, <2>7
    <3>2. CASE i - 1 \in 1 .. N /\ (i - 1) + 1 = i
      <4>1. pending'[(i - 1) + 2] = pending[(i - 1) + 1] /\ (i - 1) + 2 \in DOMAIN pending'
        BY <1>3, <2>1, <2>4, <3>2
      <4> QED
        BY <2>7, <3>2, <4>1
    <3> QED
      BY <1>3, <2>1, <2>2, <2>7, <3>1, <3>2
  <2> QED
    BY <2>6, <2>7
<1>7. StatementMeans(T)' <=> StatementMeans(T)
  BY <1>2, <1>6 DEF StatementMeans
<1>8. ASSUME NEW m \in DOMAIN preds' PROVE NodeMeans(preds', T, m, row)
  <2>1. CASE m = h
    BY <1>3, <2>1 DEF NodeMeans
  <2>2. CASE m # h
    <3>1. preds'[m] = preds[m] /\ NodeMeans(preds, T, m, row) /\ m \in DOMAIN preds
      BY <1>1, <1>3, <2>2 DEF MeantBy
    <3> QED
      BY <1>3, <1>4, <3>1, NodeMeansKept
  <2> QED
    BY <2>1, <2>2
<1>9. DOMAIN activations' = {}
  BY <1>2, <1>3
<1>10. StatementMeans(T) <=> Means(query, row)
  BY <1>1, <1>2 DEF MeantBy
<1>11. MeantBy(T, row)'
  BY <1>2, <1>3, <1>7, <1>8, <1>9, <1>10 DEF MeantBy
<1> QED
  BY <1>3, <1>11 DEF RowMeant

LEMMA SplitOtherMeans ==
  ASSUME OwnershipInv, NEW row, RowMeant(row), SplitOther
  PROVE  RowMeant(row)'
<1> DEFINE h == Head(pending)
           C == Len(conditions) + 1
<1>1. PICK T \in SUBSET DOMAIN preds : MeantBy(T, row)
  BY DEF RowMeant
<1>2. /\ stage = "splitting" /\ stage' = stage /\ activations' = activations /\ preds' = preds
      /\ query' = query /\ pending # <<>>
      /\ pending' = Tail(pending) /\ conditions' = Append(conditions, h)
  BY DEF SplitOther, foldVars, queryVars
<1>3. /\ pending \in Seq(DOMAIN preds) /\ conditions \in Seq(DOMAIN preds)
      /\ preds \in Seq(Predicates) /\ \A m \in DOMAIN preds : NodeOK(preds, m)
  BY DEF OwnershipInv, StageOK, PredsOK
<1>4. /\ h = pending[1] /\ 1 \in DOMAIN pending
      /\ \A i \in DOMAIN pending' : i + 1 \in DOMAIN pending /\ pending'[i] = pending[i + 1]
      /\ \A i \in DOMAIN pending : i = 1 \/ (i - 1 \in DOMAIN pending' /\ (i - 1) + 1 = i)
      /\ DOMAIN conditions' = DOMAIN conditions \cup {C} /\ conditions'[C] = h
      /\ \A i \in DOMAIN conditions : conditions'[i] = conditions[i]
  BY <1>2, <1>3
<1> HIDE DEF h, C
<1>5. StatementMeans(T)' <=> StatementMeans(T)
  <2>1. ASSUME StatementMeans(T) PROVE StatementMeans(T)'
    BY <1>4, <2>1 DEF StatementMeans
  <2>2. ASSUME StatementMeans(T)' PROVE StatementMeans(T)
    <3>1. h \in T /\ \A k \in DOMAIN conditions : conditions[k] \in T
      BY <1>4, <2>2 DEF StatementMeans
    <3>2. \A i \in DOMAIN pending' : pending'[i] \in T
      BY <2>2 DEF StatementMeans
    <3>3. ASSUME NEW i \in DOMAIN pending PROVE pending[i] \in T
      <4>1. CASE i = 1
        BY <1>4, <3>1, <4>1
      <4>2. CASE i - 1 \in DOMAIN pending' /\ (i - 1) + 1 = i
        <5>1. pending'[i - 1] = pending[(i - 1) + 1]
          BY <1>4, <4>2
        <5> QED
          BY <3>2, <4>2, <5>1
      <4> QED
        BY <1>4, <4>1, <4>2
    <3> QED
      BY <3>1, <3>3 DEF StatementMeans
  <2> QED
    BY <2>1, <2>2
<1>6. \A m \in DOMAIN preds' : NodeMeans(preds', T, m, row)
  BY <1>1, <1>2 DEF MeantBy
<1>7. activations = <<>> /\ (StatementMeans(T) <=> Means(query, row))
  BY <1>1, <1>2 DEF MeantBy
<1>8. DOMAIN activations' = {}
  BY <1>2, <1>7
<1>9. MeantBy(T, row)'
  BY <1>2, <1>5, <1>6, <1>7, <1>8 DEF MeantBy
<1> QED
  BY <1>2, <1>9 DEF RowMeant

LEMMA BuiltMeans ==
  ASSUME NEW row, RowMeant(row), StatementBuilt
  PROVE  RowMeant(row)'
<1>1. PICK T \in SUBSET DOMAIN preds : MeantBy(T, row)
  BY DEF RowMeant
<1>2. /\ stage = "splitting" /\ stage' = "done" /\ activations' = activations /\ preds' = preds
      /\ query' = query /\ pending = <<>> /\ pending' = pending /\ conditions' = conditions
  BY DEF StatementBuilt, Untouched, foldVars
<1>3. /\ \A m \in DOMAIN preds : NodeMeans(preds, T, m, row)
      /\ activations = <<>> /\ (StatementMeans(T) <=> Means(query, row))
  BY <1>1, <1>2 DEF MeantBy
<1>4. StatementMeans(T)' <=> StatementMeans(T)
  BY <1>2 DEF StatementMeans
<1>5. DOMAIN activations' = {}
  BY <1>2, <1>3
<1>6. MeantBy(T, row)'
  BY <1>2, <1>3, <1>4, <1>5 DEF MeantBy
<1> QED
  BY <1>2, <1>6 DEF RowMeant


(* A condition that is written as a tree of the query means its nodes. *)
LEMMA QueryTree ==
  ASSUME query \in Queries, query.root # NoPredicate
  PROVE  QueryFormed(query, query.root) /\ query.root \in Nat \ {0}
<1> DEFINE p == query.preds
           n == query.root
<1>1. p \in Seq(Predicates) /\ n \in Nat \ {0} /\ IsCondition(p, n)
  BY QueryIs DEF NoPredicate
<1>2. Formed(p, n) /\ DOMAIN p = 1 .. n
  BY <1>1, ConditionFormed
<1>3. \A m \in DOMAIN p : p[m].kind \in {"Leaf", "And", "Or", "Not"}
  BY <1>1 DEF IsCondition
<1> QED
  BY <1>1, <1>2, <1>3 DEF QueryFormed

(* The nodes of the query that hold of a row, when every leaf is rewritten. *)
LEMMA TreeMeans ==
  ASSUME OwnershipInv, query \in Queries, LeavesSo, Rewritten, stage = "leaves",
         resolved = Len(LeavesOf(preds, condition)), query.root # NoPredicate, NEW row \in Rows
  PROVE  \E T \in SUBSET DOMAIN preds :
           /\ \A m \in DOMAIN preds : NodeMeans(preds, T, m, row)
           /\ condition \in T <=> Means(query, row)
<1> DEFINE q == query.preds
           n == query.root
           means == MeansIn(query, row)
           s == LeavesOf(preds, condition)
<1>1. QueryFormed(query, n) /\ n \in Nat \ {0} /\ DOMAIN q = 1 .. n
  BY QueryTree DEF QueryFormed
<1>2. /\ Means(query, row) <=> means[n]
      /\ \A m \in 1 .. n : means[m] = MeansAt(query, row, m, means)
  BY <1>1, MeansUnfold
<1>3. /\ condition = n /\ DOMAIN preds = 1 .. n
      /\ \A m \in 1 .. n : preds[m].kind = q[m].kind /\ preds[m].child = q[m].child
      /\ \A k \in 1 .. resolved : SaysSo(preds[s[k]], q[s[k]])
  BY <1>1 DEF Rewritten
<1>4. \A m \in DOMAIN preds : preds[m].kind = "Leaf" => \E k \in DOMAIN s : s[k] = m
  BY DEF LeavesSo, LeavesUpto
<1>5. DOMAIN s = 1 .. resolved
  <2>1. Formed(preds, condition) /\ condition \in Nat \ {0}
    BY FormedNow
  <2>2. s \in Seq(SubPredicates(preds, condition))
    BY <2>1, LeavesAre DEF ListsLeaves
  <2> QED
    BY <2>2
<1>6. ASSUME NEW m \in 1 .. n
      PROVE  /\ q[m].kind \in {"Leaf", "And", "Or", "Not"}
             /\ q[m].kind = "Not" => q[m].child[1] \in 1 .. n
             /\ q[m].kind \in {"And", "Or"} => q[m].child[1] \in 1 .. n /\ q[m].child[2] \in 1 .. n
  <2>1. /\ q[m].kind \in {"Leaf", "And", "Or", "Not"}
        /\ q[m].kind = "Not" => q[m].child[1] \in 1 .. m - 1
        /\ q[m].kind \in {"And", "Or"} =>
             q[m].child[1] \in 1 .. m - 1 /\ q[m].child[2] \in 1 .. m - 1
    BY <1>1 DEF QueryFormed, Formed
  <2>2. 1 .. m - 1 \subseteq 1 .. n
    BY <1>1
  <2> QED
    BY <2>1, <2>2
<1> HIDE DEF means, s
<1> DEFINE T == {m \in 1 .. n : means[m]}
<1>7. \A m \in 1 .. n : m \in T <=> means[m]
  OBVIOUS
<1>8. T \in SUBSET DOMAIN preds
  BY <1>3
<1> HIDE DEF T
<1>9. ASSUME NEW m \in 1 .. n PROVE NodeMeans(preds, T, m, row)
  <2> DEFINE node == q[m]
  <2>1. m \in T <=> MeansAt(query, row, m, means)
    BY <1>2, <1>7
  <2>2. preds[m].kind = node.kind /\ preds[m].child = node.child
    BY <1>3
  <2>3. CASE node.kind = "Leaf"
    <3>1. m \in T <=> LeafMeans(query, node, row)
      BY <2>1, <2>3 DEF MeansAt
    <3>2. SaysSo(preds[m], node)
      BY <1>3, <1>4, <1>5, <2>2, <2>3
    <3>3. LeafValue(preds[m], row) = Truth(LeafMeans(query, node, row))
      BY <3>2 DEF SaysSo
    <3>4. LeafValue(preds[m], row) = Truth(m \in T)
      BY <3>1, <3>3 DEF Truth
    <3> HIDE DEF node
    <3> QED
      BY <2>2, <2>3, <3>4 DEF NodeMeans
  <2>4. CASE node.kind = "Not"
    <3>1. m \in T <=> ~means[node.child[1]]
      BY <2>1, <2>4 DEF MeansAt
    <3>2. node.child[1] \in T <=> means[node.child[1]]
      BY <1>6, <1>7, <2>4
    <3> HIDE DEF node
    <3> QED
      BY <2>2, <2>4, <3>1, <3>2 DEF NodeMeans, Joins
  <2>5. CASE node.kind \in {"And", "Or"}
    <3>1. /\ node.kind = "And" => (m \in T <=> means[node.child[1]] /\ means[node.child[2]])
          /\ node.kind = "Or" => (m \in T <=> means[node.child[1]] \/ means[node.child[2]])
      BY <2>1, <2>5 DEF MeansAt
    <3>2. /\ node.child[1] \in T <=> means[node.child[1]]
          /\ node.child[2] \in T <=> means[node.child[2]]
      BY <1>6, <1>7, <2>5
    <3> HIDE DEF node
    <3> QED
      BY <2>2, <2>5, <3>1, <3>2 DEF NodeMeans, Joins
  <2> QED
    BY <1>6, <2>3, <2>4, <2>5
<1>10. condition \in T <=> Means(query, row)
  BY <1>1, <1>2, <1>3, <1>7
<1> QED
  BY <1>3, <1>8, <1>9, <1>10

LEMMA LeavesResolvedMeans ==
  ASSUME OwnershipInv, query \in Queries, LeavesSo, Rewritten, LeavesResolved, NEW row \in Rows
  PROVE  RowMeant(row)'
<1>1. /\ stage = "leaves" /\ resolved = Len(LeavesOf(preds, condition))
      /\ activations' = <<Activation(condition)>> /\ preds' = preds /\ query' = query
      /\ stage' = "folding"
  BY DEF LeavesResolved
<1>2. PICK T \in SUBSET DOMAIN preds :
         /\ \A m \in DOMAIN preds : NodeMeans(preds, T, m, row)
         /\ condition \in T <=> Means(query, row)
  <2>1. CASE query.root # NoPredicate
    BY <1>1, <2>1, TreeMeans
  <2>2. CASE query.root = NoPredicate
    <3>1. /\ DOMAIN preds = {condition}
          /\ preds[condition].kind = "Raw" /\ preds[condition].value
      BY <2>2 DEF Rewritten
    <3>2. NodeMeans(preds, {condition}, condition, row)
      BY <3>1 DEF NodeMeans
    <3>3. Means(query, row)
      BY <2>2 DEF Means
    <3> QED
      BY <3>1, <3>2, <3>3
  <2> QED
    BY <2>1, <2>2
<1>3. /\ DOMAIN activations' = {1} /\ activations'[1].at = "enter"
      /\ activations'[1].node = condition
  BY <1>1 DEF Activation
<1>4. \A i \in DOMAIN activations' : ActivationMeans(T, i)'
  BY <1>3 DEF ActivationMeans
<1>5. MeantBy(T, row)'
  BY <1>1, <1>2, <1>3, <1>4 DEF MeantBy
<1> QED
  BY <1>1, <1>5 DEF RowMeant


LEMMA RowsStay ==
  ASSUME query' = query
  PROVE  Rows' = Rows
  BY DEF Rows

LEMMA MeaningReturns ==
  ASSUME OwnershipInv, OwnershipInv', NEW row, RowMeant(row),
         \/ FoldNothing \/ FoldSimpleLeaf \/ FoldFirst \/ FoldSecond
         \/ FoldConstant \/ FoldBinary \/ FoldNotConstant \/ FoldNot
         \/ SplitAnd \/ SplitOther \/ StatementBuilt
  PROVE  RowMeant(row)'
<1>1. CASE FoldNothing \/ FoldSimpleLeaf
  BY <1>1, NothingMeans, SimpleLeafMeans
<1>2. CASE FoldFirst \/ FoldSecond
  BY <1>2, FirstMeans, SecondMeans
<1>3. CASE FoldConstant \/ FoldNotConstant
  BY <1>3, ConstantMeans, NotConstantMeans
<1>4. CASE FoldBinary \/ FoldNot
  BY <1>4, BinaryMeans, NotMeans
<1>5. CASE SplitAnd \/ SplitOther \/ StatementBuilt
  BY <1>5, SplitAndMeans, SplitOtherMeans, BuiltMeans
<1> QED
  BY <1>1, <1>2, <1>3, <1>4, <1>5

LEMMA MeaningStep ==
  ASSUME OwnershipInv, OwnershipInv', VerdictInv, MeaningInv, [PreprocessNext]_preprocessVars
  PROVE  MeaningInv'
<1>0. query \in Queries /\ NamesSo /\ LeavesSo
  BY DEF VerdictInv
<1>1. CASE UNCHANGED preprocessVars
  <2>1. /\ query' = query /\ preds' = preds /\ activations' = activations /\ folded' = folded
        /\ stage' = stage /\ pending' = pending /\ conditions' = conditions
        /\ condition' = condition /\ resolved' = resolved
    BY <1>1 DEF preprocessVars, queryVars, foldVars, stmtVars
  <2>2. Rows' = Rows
    BY <2>1, RowsStay
  <2>3. \A row : RowMeant(row)' <=> RowMeant(row)
    <3> SUFFICES ASSUME NEW row PROVE RowMeant(row)' <=> RowMeant(row)
      OBVIOUS
    <3>1. ASSUME NEW T PROVE MeantBy(T, row)' <=> MeantBy(T, row)
      BY <2>1 DEF MeantBy, ActivationMeans, HandedTo, StatementMeans
    <3> QED
      BY <2>1, <3>1 DEF RowMeant
  <2>4. Rewritten' <=> Rewritten
    <3>1. \A g, w : SaysSo(g, w)' <=> SaysSo(g, w)
      BY <2>1, <2>2 DEF SaysSo
    <3> QED
      BY <2>1, <2>2 DEF Rewritten, SaysSo
  <2> QED
    BY <2>1, <2>2, <2>3, <2>4 DEF MeaningInv
<1>2. CASE \/ UnknownRelation \/ NextRelation \/ AppendItem \/ RelationsResolved
           \/ QualifiedStar \/ ExpandStar \/ ResolveAttribute \/ AttributeFails \/ LeafFails
  <2>1. stage' \in {"relations", "attributes", "runtime_error", "logic_error"}
    BY <1>2 DEF UnknownRelation, NextRelation, AppendItem, RelationsResolved, QualifiedStar,
                ExpandStar, ResolveAttribute, AttributeFails, LeafFails, Fail
  <2> QED
    BY <2>1 DEF MeaningInv
<1>3. CASE AttributesResolved \/ ResolveLeaf
  <2>1. stage' = "leaves" /\ Rewritten'
    <3>1. CASE AttributesResolved
      BY <1>0, <3>1, AttributesResolvedRewritten DEF AttributesResolved
    <3>2. CASE ResolveLeaf
      BY <1>0, <3>2, ResolveLeafRewritten DEF MeaningInv, ResolveLeaf, LeavesAreLeft
    <3> QED
      BY <1>3, <3>1, <3>2
  <2> QED
    BY <2>1 DEF MeaningInv
<1>4. CASE LeavesResolved
  <2>1. stage = "leaves" /\ stage' = "folding" /\ query' = query
    BY <1>4 DEF LeavesResolved
  <2>2. \A row \in Rows : RowMeant(row)'
    BY <1>0, <1>4, <2>1, LeavesResolvedMeans DEF MeaningInv
  <2> QED
    BY <2>1, <2>2, RowsStay DEF MeaningInv
<1>5. CASE \/ FoldNothing \/ FoldSimpleLeaf \/ FoldFirst \/ FoldSecond
           \/ FoldConstant \/ FoldBinary \/ FoldNotConstant \/ FoldNot
           \/ SplitAnd \/ SplitOther \/ StatementBuilt
  <2>1. stage \in {"folding", "splitting"} /\ query' = query /\ stage' # "leaves"
    <3>1. stage \in {"folding", "splitting"}
      BY <1>5 DEF FoldNothing, FoldSimpleLeaf, FoldFirst, FoldSecond, FoldConstant, FoldBinary,
                  FoldNotConstant, FoldNot, Folding, SplitAnd, SplitOther, StatementBuilt
    <3>2. CASE FoldNothing \/ FoldSimpleLeaf \/ FoldConstant \/ FoldNotConstant
      BY <3>1, <3>2 DEF FoldNothing, FoldSimpleLeaf, FoldConstant, FoldNotConstant, FoldReturn,
                        Untouched, Fail
    <3>3. CASE FoldBinary \/ FoldNot \/ FoldFirst \/ FoldSecond
      BY <3>1, <3>3 DEF FoldBinary, FoldNot, FoldFirst, FoldSecond, FoldReturn, FoldChild, Untouched
    <3>4. CASE SplitAnd \/ SplitOther \/ StatementBuilt
      BY <3>1, <3>4 DEF SplitAnd, SplitOther, StatementBuilt, Untouched
    <3> QED
      BY <1>5, <3>1, <3>2, <3>3, <3>4
  <2>2. \A row \in Rows : RowMeant(row)'
    BY <1>5, <2>1, MeaningReturns DEF MeaningInv
  <2> QED
    BY <2>1, <2>2, RowsStay DEF MeaningInv
<1> QED
  BY <1>1, <1>2, <1>3, <1>4, <1>5 DEF PreprocessNext


\* The recursion of evaluate.
EvaluateAt(p, m, row, f) ==
  LET node == p[m]
      c(k) == f[node.child[k]]
  IN  CASE node.kind = "Leaf" -> LeafValue(node, row)
        [] node.kind = "Raw"  -> Truth(node.value)
        [] node.kind = "Not"  -> IF c(1) = "throws" THEN "throws" ELSE Truth(c(1) = "false")
        [] node.kind = "And"  -> IF c(1) = "true" THEN c(2) ELSE c(1)
        [] node.kind = "Or"   -> IF c(1) = "false" THEN c(2) ELSE c(1)
        [] OTHER              -> "throws"

EvaluateBy(p, row, n, f) == f = [m \in 1 .. n |-> EvaluateAt(p, m, row, f)]

EvaluateIn(p, row, n) == CHOOSE f : EvaluateBy(p, row, n, f)

\* Connectives look below them only.
Linked(p, n) ==
  \A m \in 1 .. n :
    /\ p[m].kind = "Not" => p[m].child[1] \in 1 .. m - 1
    /\ p[m].kind \in {"And", "Or"} =>
         p[m].child[1] \in 1 .. m - 1 /\ p[m].child[2] \in 1 .. m - 1

LEMMA EvaluateAtBelow ==
  ASSUME NEW p, NEW row, NEW n \in Nat, Linked(p, n), NEW m \in 1 .. n, NEW f, NEW g,
         \A x \in 1 .. m - 1 : f[x] = g[x]
  PROVE  EvaluateAt(p, m, row, f) = EvaluateAt(p, m, row, g)
<1> DEFINE node == p[m]
<1>1. /\ node.kind = "Not" => node.child[1] \in 1 .. m - 1
      /\ node.kind \in {"And", "Or"} =>
           node.child[1] \in 1 .. m - 1 /\ node.child[2] \in 1 .. m - 1
  BY DEF Linked
<1>2. CASE node.kind = "Not"
  <2>1. f[node.child[1]] = g[node.child[1]]
    BY <1>1, <1>2
  <2> QED
    BY <1>2, <2>1 DEF EvaluateAt
<1>3. CASE node.kind \in {"And", "Or"}
  <2>1. f[node.child[1]] = g[node.child[1]] /\ f[node.child[2]] = g[node.child[2]]
    BY <1>1, <1>3
  <2> QED
    BY <1>3, <2>1 DEF EvaluateAt
<1>4. CASE node.kind \notin {"Not", "And", "Or"}
  BY <1>4 DEF EvaluateAt
<1> QED
  BY <1>2, <1>3, <1>4

LEMMA EvaluateExist ==
  ASSUME NEW p, NEW row, NEW n \in Nat, Linked(p, n)
  PROVE  \E f : EvaluateBy(p, row, n, f)
<1> DEFINE T == {k \in 0 .. n : \E f : f = [m \in 1 .. k |-> EvaluateAt(p, m, row, f)]}
<1>1. 0 \in T
  <2> DEFINE f == [m \in 1 .. 0 |-> {}]
  <2>1. f = [m \in 1 .. 0 |-> EvaluateAt(p, m, row, f)]
    OBVIOUS
  <2> HIDE DEF f
  <2>2. \E h : h = [m \in 1 .. 0 |-> EvaluateAt(p, m, row, h)]
    BY <2>1
  <2>3. 0 \in 0 .. n
    OBVIOUS
  <2> QED
    BY <2>2, <2>3
<1>2. ASSUME NEW k \in 0 .. n - 1, k \in T PROVE k + 1 \in T
  <2>1. PICK f : f = [m \in 1 .. k |-> EvaluateAt(p, m, row, f)]
    BY <1>2
  <2> DEFINE g == [m \in 1 .. k + 1 |-> IF m = k + 1 THEN EvaluateAt(p, k + 1, row, f) ELSE f[m]]
  <2>2. \A m \in 1 .. k : f[m] = g[m]
    OBVIOUS
  <2>3. ASSUME NEW m \in 1 .. k + 1 PROVE g[m] = EvaluateAt(p, m, row, g)
    <3>1. g[m] = EvaluateAt(p, m, row, f)
      <4>1. CASE m = k + 1
        BY <4>1
      <4>2. CASE m # k + 1
        <5>1. m \in 1 .. k /\ g[m] = f[m]
          BY <4>2
        <5> HIDE DEF g
        <5> QED
          BY <2>1, <5>1
      <4> QED
        BY <4>1, <4>2
    <3>2. EvaluateAt(p, m, row, f) = EvaluateAt(p, m, row, g)
      <4>1. m \in 1 .. n /\ \A x \in 1 .. m - 1 : x \in 1 .. k
        OBVIOUS
      <4> HIDE DEF g
      <4>2. \A x \in 1 .. m - 1 : f[x] = g[x]
        BY <2>2, <4>1
      <4> QED
        BY <4>1, <4>2, EvaluateAtBelow
    <3> HIDE DEF g
    <3> QED
      BY <3>1, <3>2
  <2>4. g = [m \in 1 .. k + 1 |-> g[m]]
    OBVIOUS
  <2> HIDE DEF g
  <2>5. g = [m \in 1 .. k + 1 |-> EvaluateAt(p, m, row, g)]
    BY <2>3, <2>4
  <2>6. \E h : h = [m \in 1 .. k + 1 |-> EvaluateAt(p, m, row, h)]
    BY <2>5
  <2>7. k + 1 \in 0 .. n
    OBVIOUS
  <2> QED
    BY <2>6, <2>7
<1> HIDE DEF T
<1>3. 0 .. n \subseteq T
  BY <1>1, <1>2, IntervalInductionSet
<1> QED
  BY <1>3 DEF T, EvaluateBy

LEMMA EvaluateUnfold ==
  ASSUME NEW p, NEW row, NEW n \in Nat \ {0}, Linked(p, n)
  PROVE  /\ evaluate(p, n, row) = EvaluateIn(p, row, n)[n]
         /\ \A m \in 1 .. n :
              EvaluateIn(p, row, n)[m] = EvaluateAt(p, m, row, EvaluateIn(p, row, n))
<1>1. EvaluateIn(p, row, n) = [m \in 1 .. n |-> EvaluateAt(p, m, row, EvaluateIn(p, row, n))]
  <2>1. EvaluateBy(p, row, n, EvaluateIn(p, row, n))
    BY EvaluateExist DEF EvaluateIn
  <2> QED
    BY <2>1 DEF EvaluateBy
<1>2. evaluate(p, n, row) = EvaluateIn(p, row, n)[n]
  BY DEF evaluate, EvaluateIn, EvaluateBy, EvaluateAt, LeafValue
<1> QED
  BY <1>1, <1>2

\* What is evaluated to true is what holds, and nothing throws.
LEMMA EvaluatesSo ==
  ASSUME OwnershipInv, activations = <<>>, NEW row, NEW T,
         \A m \in DOMAIN preds : NodeMeans(preds, T, m, row),
         NEW n \in LiveNodes
  PROVE  evaluate(preds, n, row) = Truth(n \in T)
<1>1. /\ preds \in Seq(Predicates) /\ DOMAIN preds = 1 .. Len(preds) /\ Len(preds) \in Nat
      /\ \A m \in DOMAIN preds : NodeOK(preds, m) /\ IsWhole(preds, m)
  BY DEF OwnershipInv, PredsOK
<1>2. n \in DOMAIN preds /\ n \in Nat \ {0} /\ \A m \in 1 .. n : m \in DOMAIN preds
  BY <1>1 DEF LiveNodes
<1>3. ASSUME NEW m \in DOMAIN preds
      PROVE  /\ preds[m].kind \in {"Leaf", "Raw", "Destroyed", "Not", "And", "Or"}
             /\ preds[m].kind = "Not" => DOMAIN preds[m].child = {1}
             /\ preds[m].kind \in {"And", "Or"} => DOMAIN preds[m].child = {1, 2}
             /\ \A k \in DOMAIN preds[m].child : preds[m].child[k] \in 1 .. m - 1
  <2>1. NodeOK(preds, m) /\ IsWhole(preds, m)
    BY <1>1
  <2>2. \A k \in DOMAIN preds[m].child : preds[m].child[k] \in 1 .. m - 1
    BY <2>1 DEF NodeOK, IsWhole
  <2> QED
    BY <1>1, <2>1, <2>2, ChildrenOf
<1>4. Linked(preds, n)
  <2>1. \A m \in 1 .. n : m \in DOMAIN preds
    BY <1>2
  <2> QED
    BY <1>3, <2>1 DEF Linked
<1> DEFINE f == EvaluateIn(preds, row, n)
<1>5. /\ evaluate(preds, n, row) = f[n]
      /\ \A m \in 1 .. n : f[m] = EvaluateAt(preds, m, row, f)
  BY <1>2, <1>4, EvaluateUnfold
<1>6. ASSUME NEW m \in LiveNodes, NEW k \in DOMAIN preds[m].child
      PROVE  preds[m].child[k] \in LiveNodes
  <2>1. SubPredicates(preds, m) \subseteq LiveNodes /\ ClosedBelow(preds, SubPredicates(preds, m))
        /\ m \in SubPredicates(preds, m)
    BY BelowLive
  <2>2. preds[m].child[k] \in {NoPredicate} \cup SubPredicates(preds, m)
    BY <2>1 DEF ClosedBelow
  <2>3. preds[m].child[k] # NoPredicate
    BY <1>1 DEF IsWhole, LiveNodes
  <2> QED
    BY <2>1, <2>2, <2>3
<1> HIDE DEF f
<1> DEFINE G == {m \in Nat : m \in 1 .. n /\ m \in LiveNodes => f[m] = Truth(m \in T)}
<1>7. ASSUME NEW m \in Nat, \A x \in 0 .. m - 1 : x \in G PROVE m \in G
  <2> SUFFICES ASSUME m \in 1 .. n, m \in LiveNodes PROVE f[m] = Truth(m \in T)
    OBVIOUS
  <2> DEFINE node == preds[m]
  <2>1. /\ f[m] = EvaluateAt(preds, m, row, f) /\ m \in DOMAIN preds /\ IsWhole(preds, m)
        /\ NodeMeans(preds, T, m, row)
    BY <1>1, <1>2, <1>5
  <2>2. /\ node.kind \in {"Leaf", "Raw", "Not", "And", "Or"}
        /\ node.kind = "Not" => DOMAIN node.child = {1}
        /\ node.kind \in {"And", "Or"} => DOMAIN node.child = {1, 2}
        /\ \A k \in DOMAIN node.child : node.child[k] \in 1 .. m - 1
    BY <1>3, <2>1 DEF LiveNodes
  <2>3. ASSUME NEW k \in DOMAIN node.child
        PROVE  f[node.child[k]] = Truth(node.child[k] \in T)
    <3>1. node.child[k] \in 1 .. m - 1 /\ node.child[k] \in LiveNodes
      BY <1>6, <2>2
    <3> HIDE DEF node
    <3>2. node.child[k] \in 0 .. m - 1 /\ node.child[k] \in 1 .. n
      BY <3>1, <1>2
    <3> QED
      BY <1>7, <3>1, <3>2
  <2>4. CASE node.kind \in {"Leaf", "Raw"}
    <3>1. node.kind = "Leaf" => LeafValue(node, row) = Truth(m \in T)
      BY <2>1 DEF NodeMeans
    <3>2. node.kind = "Raw" => (m \in T <=> node.value)
      BY <2>1 DEF NodeMeans
    <3>3. /\ node.kind = "Leaf" => f[m] = LeafValue(node, row)
          /\ node.kind = "Raw" => f[m] = Truth(node.value)
      BY <2>1 DEF EvaluateAt
    <3> HIDE DEF node
    <3> QED
      BY <2>4, <3>1, <3>2, <3>3 DEF Truth
  <2>5. CASE node.kind = "Not"
    <3>1. m \in T <=> node.child[1] \notin T
      BY <2>1, <2>5 DEF NodeMeans, Joins
    <3>2. f[m] = IF f[node.child[1]] = "throws" THEN "throws"
                 ELSE Truth(f[node.child[1]] = "false")
      BY <2>1, <2>5 DEF EvaluateAt
    <3>3. f[node.child[1]] = Truth(node.child[1] \in T)
      BY <2>2, <2>3, <2>5
    <3> HIDE DEF node
    <3> QED
      BY <3>1, <3>2, <3>3 DEF Truth
  <2>6. CASE node.kind \in {"And", "Or"}
    <3>1. /\ node.kind = "And" => (m \in T <=> node.child[1] \in T /\ node.child[2] \in T)
          /\ node.kind = "Or" => (m \in T <=> node.child[1] \in T \/ node.child[2] \in T)
      BY <2>1, <2>6 DEF NodeMeans, Joins
    <3>2. /\ node.kind = "And" => f[m] = IF f[node.child[1]] = "true" THEN f[node.child[2]]
                                        ELSE f[node.child[1]]
          /\ node.kind = "Or" => f[m] = IF f[node.child[1]] = "false" THEN f[node.child[2]]
                                       ELSE f[node.child[1]]
      BY <2>1, <2>6 DEF EvaluateAt
    <3>3. /\ f[node.child[1]] = Truth(node.child[1] \in T)
          /\ f[node.child[2]] = Truth(node.child[2] \in T)
      BY <2>2, <2>3, <2>6
    <3> HIDE DEF node
    <3> QED
      BY <2>6, <3>1, <3>2, <3>3 DEF Truth
  <2> QED
    BY <2>2, <2>4, <2>5, <2>6
<1>8. n \in G
  <2> HIDE DEF G
  <2>1. Nat \subseteq G
    BY <1>7, StrongInductionSet
  <2> QED
    BY <1>2, <2>1
<1> QED
  BY <1>2, <1>5, <1>8

LEMMA MeaningMeans == ASSUME OwnershipInv, MeaningInv PROVE StatementMeansQuery
<1> SUFFICES ASSUME stage = "done", NEW row \in Rows
             PROVE  /\ \A k \in DOMAIN conditions : evaluate(preds, conditions[k], row) # "throws"
                    /\ (\A k \in DOMAIN conditions : evaluate(preds, conditions[k], row) = "true")
                       <=> Means(query, row)
  BY DEF StatementMeansQuery
<1>1. PICK T \in SUBSET DOMAIN preds : MeantBy(T, row)
  BY DEF MeaningInv, RowMeant
<1>2. /\ \A m \in DOMAIN preds : NodeMeans(preds, T, m, row)
      /\ activations = <<>> /\ pending = <<>>
      /\ StatementMeans(T) <=> Means(query, row)
  BY <1>1 DEF MeantBy
<1>3. ASSUME NEW k \in DOMAIN conditions
      PROVE  evaluate(preds, conditions[k], row) = Truth(conditions[k] \in T)
  BY <1>2, HeldIsLive, EvaluatesSo
<1>4. StatementMeans(T) <=> \A k \in DOMAIN conditions : conditions[k] \in T
  BY <1>2 DEF StatementMeans
<1>5. \A k \in DOMAIN conditions :
        evaluate(preds, conditions[k], row) = "true" <=> conditions[k] \in T
  BY <1>3 DEF Truth
<1> QED
  BY <1>2, <1>3, <1>4, <1>5 DEF Truth

LEMMA MeaningStarts == PreprocessInit => MeaningInv
  BY DEF PreprocessInit, MeaningInv

(***************************************************************************)
(* The statement that the preprocessor builds means what the query says:   *)
(* of every row whose columns have their types, its conditions hold all    *)
(* together iff the query's condition does, and evaluating them throws for *)
(* no type and for no column; whatever the catalog and the query are.      *)
(***************************************************************************)
THEOREM PreprocessMeans == PreprocessSpec => []StatementMeansQuery
<1>1. PreprocessInit => VerdictInv /\ MeaningInv
  BY VerdictStarts, MeaningStarts
<1>2. /\ OwnershipInv /\ OwnershipInv' /\ VerdictInv /\ MeaningInv
      /\ [PreprocessNext]_preprocessVars
      => VerdictInv' /\ MeaningInv'
  BY VerdictStep, MeaningStep
<1>3. OwnershipInv /\ MeaningInv => StatementMeansQuery
  BY MeaningMeans
<1> QED
  BY <1>1, <1>2, <1>3, OwnershipInvariance, PTL DEF PreprocessSpec
=============================================================================
