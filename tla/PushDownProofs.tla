--------------------------- MODULE PushDownProofs ---------------------------
(***************************************************************************)
(* Proofs about what push_down_filter finds in the trie of join directions *)
(* and where it leaves the filters, for plans of any shape: it throws only *)
(* where it must (ThrowsOnlyIfRefused), and no filter is left where it     *)
(* could still be moved down (FiltersArePushedDown).                       *)
(***************************************************************************)
EXTENDS OptimizerProofs

-----------------------------------------------------------------------------
(***************************************************************************)
(* Functions that are defined along a plan.                                *)
(***************************************************************************)
(* No nodes hang one below the other for ever. *)
LEMMA GroundedBelow ==
  ASSUME NEW h \in Seq(HeapNodes), Grounded(h), NEW S \in SUBSET DOMAIN h,
         \A n \in S : \E c \in S : c \in ChildrenOf(h, n)
  PROVE  S = {}
<1> DEFINE Bad(T) == T # {} /\ \A n \in T : \E c \in T : c \in ChildrenOf(h, n)
           Sizes == {Cardinality(T) : T \in {U \in SUBSET DOMAIN h : Bad(U)}}
<1> SUFFICES ASSUME S # {} PROVE FALSE
  OBVIOUS
<1>1. \A T \in SUBSET DOMAIN h : IsFiniteSet(T) /\ Cardinality(T) \in Nat
  <2>1. DOMAIN h = 1 .. Len(h) /\ Len(h) \in Nat
    OBVIOUS
  <2>2. IsFiniteSet(DOMAIN h)
    BY <2>1, FS_Interval
  <2> QED
    BY <2>2, FS_Subset, FS_CardinalityType
<1>2. Sizes \in SUBSET Nat /\ Sizes # {}
  BY <1>1
<1>3. PICK x \in Sizes : \A y \in Sizes : x <= y
  <2> HIDE DEF Sizes
  <2> QED
    BY <1>2, LeastNatural
<1>4. PICK T \in SUBSET DOMAIN h : Bad(T) /\ x = Cardinality(T)
  OBVIOUS
<1>5. PICK n \in T : ~ \E m \in T : n \in ChildrenOf(h, m)
  BY <1>4 DEF Grounded
<1>6. T \ {n} \in SUBSET DOMAIN h /\ Bad(T \ {n})
  <2>1. \A m \in T : \E c \in T \ {n} : c \in ChildrenOf(h, m)
    BY <1>4, <1>5
  <2> QED
    BY <1>5, <2>1
<1>7. Cardinality(T \ {n}) = Cardinality(T) - 1
  BY <1>1, <1>5, FS_RemoveElement
<1>8. Cardinality(T \ {n}) \in Sizes
  BY <1>6
<1>9. x <= Cardinality(T \ {n}) /\ Cardinality(T) \in Nat
  <2> HIDE DEF Sizes
  <2> QED
    BY <1>1, <1>3, <1>8
<1> QED
  BY <1>4, <1>7, <1>9

\* A function on the nodes whose value at a node depends on those at its children.
Local(h, step) ==
  \A n \in DOMAIN h : \A F, G \in DOMAIN step[n] :
    (\A c \in ChildrenOf(h, n) \ {Null} : F[c] = G[c]) => step[n][F] = step[n][G]

Recursion(h, X, step) == step \in [DOMAIN h -> [[DOMAIN h -> X] -> X]] /\ Local(h, step)
Solution(h, X, step, F) == F \in [DOMAIN h -> X] /\ \A n \in DOMAIN h : F[n] = step[n][F]

(* There is a function that the step computes at every node. *)
LEMMA TreeRecursion ==
  ASSUME NEW h \in Seq(HeapNodes), Grounded(h),
         \A n \in DOMAIN h : ChildrenOf(h, n) \subseteq {Null} \cup DOMAIN h,
         NEW X, X # {}, NEW step, Recursion(h, X, step)
  PROVE  \E F : Solution(h, X, step, F)
<1>0. step \in [DOMAIN h -> [[DOMAIN h -> X] -> X]] /\ Local(h, step)
  BY DEF Recursion
<1> SUFFICES \E F \in [DOMAIN h -> X] : \A n \in DOMAIN h : F[n] = step[n][F]
  BY DEF Solution
<1> DEFINE D == DOMAIN h
           Solves(F, T) == Closed(h, T) /\ \A n \in T : F[n] = step[n][F]
           Sizes == {Cardinality(D \ T) : T \in {U \in SUBSET D : \E F \in [D -> X] : Solves(F, U)}}
<1>1. \A T \in SUBSET D : IsFiniteSet(T) /\ Cardinality(T) \in Nat
  <2>1. D = 1 .. Len(h) /\ Len(h) \in Nat
    OBVIOUS
  <2>2. IsFiniteSet(D)
    BY <2>1, FS_Interval
  <2> QED
    BY <2>2, FS_Subset, FS_CardinalityType
<1>2. Sizes \in SUBSET Nat /\ Sizes # {}
  <2>1. PICK e : e \in X
    OBVIOUS
  <2>2. [n \in D |-> e] \in [D -> X] /\ Solves([n \in D |-> e], {})
    BY <2>1 DEF Closed
  <2>3. \E F \in [D -> X] : Solves(F, {})
    BY <2>2
  <2>4. {} \in SUBSET D
    OBVIOUS
  <2>5. Cardinality(D \ {}) \in Sizes
    BY <2>3, <2>4
  <2> QED
    BY <1>1, <2>5
<1>3. PICK x \in Sizes : \A y \in Sizes : x <= y
  <2> HIDE DEF Sizes
  <2> QED
    BY <1>2, LeastNatural
<1>4. PICK T \in SUBSET D : (\E F \in [D -> X] : Solves(F, T)) /\ x = Cardinality(D \ T)
  OBVIOUS
<1>5. PICK F \in [D -> X] : Solves(F, T)
  BY <1>4
<1>6. CASE T = D
  BY <1>5, <1>6
<1>7. CASE T # D
  <2>1. PICK n \in D \ T : \A c \in D \ T : c \notin ChildrenOf(h, n)
    BY <1>7, GroundedBelow
  <2> DEFINE G == [F EXCEPT ![n] = step[n][F]]
  <2>2. step[n][F] \in X /\ G \in [D -> X] /\ \A m \in T : G[m] = F[m]
    BY <1>0, <2>1
  <2>3. G[n] = step[n][F]
    BY <1>0, <2>1
  <2>4. ChildrenOf(h, n) \ {Null} \subseteq T
    BY <2>1
  <2> HIDE DEF G
  <2>5. ASSUME NEW m \in T \cup {n} PROVE G[m] = step[m][G] /\ ChildrenOf(h, m) \ {Null} \subseteq T
    <3>1. ChildrenOf(h, m) \ {Null} \subseteq T
      BY <1>5, <2>4, <2>5 DEF Closed
    <3>2. G[m] = step[m][F]
      BY <1>5, <2>2, <2>3, <2>5
    <3>3. m \in D /\ DOMAIN step[m] = [D -> X]
      BY <1>0, <2>1, <2>5
    <3>4. step[m][F] = step[m][G]
      BY <1>0, <2>2, <3>1, <3>3 DEF Local
    <3> QED
      BY <3>1, <3>2, <3>4
  <2>6. Solves(G, T \cup {n}) /\ T \cup {n} \in SUBSET D
    BY <2>1, <2>5 DEF Closed
  <2>7. Cardinality(D \ (T \cup {n})) \in Sizes
    BY <2>2, <2>6
  <2>8. D \ (T \cup {n}) = (D \ T) \ {n} /\ n \in D \ T
    BY <2>1
  <2>9. Cardinality(D \ (T \cup {n})) = Cardinality(D \ T) - 1
    <3>1. PICK R : R = D \ T
      OBVIOUS
    <3>2. IsFiniteSet(R) /\ n \in R
      BY <1>1, <2>8, <3>1
    <3>3. Cardinality(R \ {n}) = Cardinality(R) - 1
      BY <3>2, FS_RemoveElement
    <3> QED
      BY <2>8, <3>1, <3>3
  <2>10. x <= Cardinality(D \ (T \cup {n})) /\ Cardinality(D \ T) \in Nat
    <3> HIDE DEF Sizes
    <3> QED
      BY <1>1, <1>3, <2>7
  <2> QED
    BY <1>4, <2>9, <2>10
<1> QED
  BY <1>6, <1>7

\* The relations below a node, from those below its children.
Gathered(h, B, n) ==
  IF h[n].kind = "TableScan" THEN {h[n].rel} ELSE UNION {B[c] : c \in ChildrenOf(h, n) \ {Null}}

(* RelationsBelow() at one node. *)
LEMMA RelationsGathered ==
  ASSUME NEW h, Formed(h), Grounded(h)
  PROVE  LET below == RelationsBelow(h)
         IN  \A n \in DOMAIN h : below[n] = Gathered(h, below, n)
<1> DEFINE D == DOMAIN h
           X == SUBSET {h[n].rel : n \in D}
           step == [n \in D |-> [F \in [D -> X] |-> Gathered(h, F, n)]]
<1>1. h \in Seq(HeapNodes) /\ \A n \in D : ChildrenOf(h, n) \subseteq {Null} \cup D
  BY DEF Formed, ChildrenOf
<1>2. ASSUME NEW n \in D, NEW F \in [D -> X] PROVE Gathered(h, F, n) \in X
  <2>1. \A c \in ChildrenOf(h, n) \ {Null} : F[c] \in X
    BY <1>1
  <2> QED
    BY <2>1 DEF Gathered
<1>3. ASSUME NEW n \in D, NEW F, NEW G, \A c \in ChildrenOf(h, n) \ {Null} : F[c] = G[c]
      PROVE  Gathered(h, F, n) = Gathered(h, G, n)
  <2>1. {F[c] : c \in ChildrenOf(h, n) \ {Null}} = {G[c] : c \in ChildrenOf(h, n) \ {Null}}
    BY <1>3
  <2> QED
    BY <2>1 DEF Gathered
<1>4. X # {}
  OBVIOUS
<1> HIDE DEF X
<1>5. \A n \in D : DOMAIN step[n] = [D -> X] /\ \A F \in [D -> X] : step[n][F] = Gathered(h, F, n)
  OBVIOUS
<1>6. step \in [D -> [[D -> X] -> X]]
  BY <1>2
<1> HIDE DEF step
<1>7. Local(h, step)
  BY <1>3, <1>5 DEF Local
<1>8. PICK F \in [D -> X] : \A n \in D : F[n] = step[n][F]
  <2>1. Recursion(h, X, step)
    BY <1>6, <1>7 DEF Recursion
  <2>2. \E F : Solution(h, X, step, F)
    BY <1>1, <1>4, <2>1, TreeRecursion
  <2> QED
    BY <2>2 DEF Solution
<1>9. F = [n \in D |-> Gathered(h, F, n)]
  <2>1. \A n \in D : F[n] = Gathered(h, F, n)
    BY <1>5, <1>8
  <2> QED
    BY <2>1
<1> DEFINE below == RelationsBelow(h)
<1>10. below = [n \in D |-> Gathered(h, below, n)]
  BY <1>9 DEF RelationsBelow, Gathered
<1> HIDE DEF below
<1>11. \A n \in D : below[n] = Gathered(h, below, n)
  BY <1>10
<1> QED
  BY <1>11 DEF below

(* What satisfies the equation of RelationsBelow() on a closed part of a plan is it.  *)
LEMMA RelationsUnique ==
  ASSUME NEW h, Formed(h), Grounded(h), NEW T \in SUBSET DOMAIN h, Closed(h, T),
         NEW B, \A n \in T : B[n] = Gathered(h, B, n), NEW n \in T
  PROVE  RelationsBelow(h)[n] = B[n]
<1> DEFINE S == {m \in T : RelationsBelow(h)[m] # B[m]}
<1>1. PICK R : R = RelationsBelow(h)
  OBVIOUS
<1>2. \A m \in DOMAIN h : R[m] = Gathered(h, R, m)
  BY <1>1, RelationsGathered
<1>3. ASSUME NEW m \in S PROVE \E c \in S : c \in ChildrenOf(h, m)
  <2> SUFFICES ASSUME \A c \in ChildrenOf(h, m) \ {Null} : R[c] = B[c] PROVE FALSE
    BY <1>1, <1>3 DEF Closed
  <2>1. {R[c] : c \in ChildrenOf(h, m) \ {Null}} = {B[c] : c \in ChildrenOf(h, m) \ {Null}}
    OBVIOUS
  <2>2. Gathered(h, R, m) = Gathered(h, B, m)
    BY <2>1 DEF Gathered
  <2> QED
    BY <1>1, <1>2, <1>3, <2>2
<1>4. h \in Seq(HeapNodes) /\ S \in SUBSET DOMAIN h
  BY DEF Formed
<1> HIDE DEF S
<1>5. S = {}
  BY <1>3, <1>4, GroundedBelow
<1> QED
  BY <1>5 DEF S

(* Support() at one node of a plan, and its uniqueness. *)
LEMMA SupportIs ==
  ASSUME HeapOK, Grounded(heap), NEW D \in SUBSET DOMAIN heap, Closed(heap, D),
         \A m \in DOMAIN heap : heap[m].kind = "Filter" => heap[m].child[1] \in DOMAIN heap,
         NEW S, \A m \in D : S[m] = IF heap[m].kind = "Filter" THEN S[heap[m].child[1]] ELSE m,
         NEW n \in D
  PROVE  Support(n) = S[n]
<1> DEFINE N == DOMAIN heap
           At(F, m) == IF heap[m].kind = "Filter" THEN F[heap[m].child[1]] ELSE m
           step == [m \in N |-> [F \in [N -> N] |-> At(F, m)]]
<1>1. heap \in Seq(HeapNodes) /\ \A m \in N : ChildrenOf(heap, m) \subseteq {Null} \cup N
  BY DEF HeapOK, Formed, ChildrenOf
<1>2. \A m \in N : heap[m].kind = "Filter" => heap[m].child[1] \in ChildrenOf(heap, m) \ {Null}
  <2> SUFFICES ASSUME NEW m \in N, heap[m].kind = "Filter"
               PROVE  heap[m].child[1] \in ChildrenOf(heap, m) \ {Null}
    OBVIOUS
  <2>1. Len(heap[m].child) = 1 /\ heap[m].child \in Seq(Nat)
    BY <1>1, NodesTyped DEF HeapOK, Formed, ArityOK
  <2>2. 1 \in DOMAIN heap[m].child
    BY <2>1
  <2>3. Null \notin N
    BY <1>1 DEF Null
  <2> QED
    BY <2>2, <2>3 DEF ChildrenOf
<1>3. \A m \in N : DOMAIN step[m] = [N -> N] /\ \A F \in [N -> N] : step[m][F] = At(F, m)
  OBVIOUS
<1>4. step \in [N -> [[N -> N] -> N]]
  OBVIOUS
<1> HIDE DEF step, At
<1>5. Local(heap, step)
  <2> SUFFICES ASSUME NEW m \in N, NEW F \in [N -> N], NEW G \in [N -> N],
                      \A c \in ChildrenOf(heap, m) \ {Null} : F[c] = G[c]
               PROVE  step[m][F] = step[m][G]
    BY <1>3 DEF Local
  <2>1. At(F, m) = At(G, m)
    BY <1>2 DEF At
  <2> QED
    BY <1>3, <2>1
<1>6. PICK F \in [N -> N] : \A m \in N : F[m] = step[m][F]
  <2>1. N # {} /\ Recursion(heap, N, step)
    BY <1>4, <1>5 DEF Recursion
  <2>2. \E F : Solution(heap, N, step, F)
    BY <1>1, <2>1, TreeRecursion
  <2> QED
    BY <2>2 DEF Solution
<1>7. F = [m \in N |-> At(F, m)]
  <2>1. \A m \in N : F[m] = At(F, m)
    BY <1>3, <1>6
  <2> QED
    BY <2>1
<1>8. PICK below : below = [m \in N |-> At(below, m)] /\ Support(n) = below[n]
  <2> DEFINE below == CHOOSE b : b = [m \in N |-> At(b, m)]
  <2>1. below = [m \in N |-> At(below, m)]
    BY <1>7
  <2>2. Support(n) = below[n]
    BY DEF Support, At
  <2> QED
    BY <2>1, <2>2
<1>9. \A m \in N : below[m] = At(below, m)
  <2> QED
    BY <1>8
<1> DEFINE Off == {m \in D : below[m] # S[m]}
<1>10. ASSUME NEW m \in Off PROVE \E c \in Off : c \in ChildrenOf(heap, m)
  <2>1. heap[m].kind = "Filter" /\ below[heap[m].child[1]] # S[heap[m].child[1]]
    BY <1>9, <1>10 DEF At
  <2> QED
    BY <1>2, <1>10, <2>1 DEF Closed
<1>11. Off \in SUBSET N
  OBVIOUS
<1> HIDE DEF Off
<1>12. Off = {}
  BY <1>1, <1>10, <1>11, GroundedBelow
<1> QED
  BY <1>8, <1>12 DEF Off

-----------------------------------------------------------------------------
(***************************************************************************)
(* Where the filters come to stand.  B[n] are the relations below node n,  *)
(* also while what is below it is away.  D are the nodes that the running  *)
(* pass is done with, and S[n] is what a filter n of D stands on.          *)
(***************************************************************************)
Sides(mp, L, R) ==
  DOMAIN mp = L \cup R /\ \A rel \in L \cup R : mp[rel] = IF rel \in R THEN "Right" ELSE "Left"

\* The last pass, or the one that runs, is push_down_filter.
Pushing == IF frames = <<>> THEN outcome = "push" ELSE Here.pass = "push"

\* No filter of the given plan reads a column it does not find.
Sane == ~Faulty(given.heap)

Reads(n) == {heap[n].cond.cols[i].relation : i \in DOMAIN heap[n].cond.cols}

NodeRels(B, n) ==
  /\ IsWhole(heap[n]) =>
       /\ B[n] = Gathered(heap, B, n)
       /\ (Pushing /\ heap[n].kind = "BinaryJoin") =>
            Sides(join_trie[n], B[heap[n].child[1]], B[heap[n].child[2]])
  /\ \A i \in DOMAIN heap[n].schema : heap[n].schema[i].relation \in B[n]
  /\ (Sane /\ heap[n].kind = "Filter") => Reads(n) \subseteq B[n]

\* What an activation has taken from its node.
Taken(B, f, below) ==
  (IF Waits(f) THEN B[below] ELSE {}) \cup (IF f.cur # Null THEN B[f.cur] ELSE {})

EntryFits(e, rels) ==
  /\ e.relations = RelationsOf(heap[e.filter].cond)
  /\ Sane => Reads(e.filter) \subseteq rels

FrameRels(B, f, below) ==
  /\ (Waits(f) \/ f.cur # Null) => B[f.node] = Gathered(heap, B, f.node) \cup Taken(B, f, below)
  /\ f.at = "left"  =>
       /\ Sides(join_trie[f.node], B[below], B[heap[f.node].child[2]])
       /\ \A k \in DOMAIN f.rgt : EntryFits(f.rgt[k], B[heap[f.node].child[2]])
  /\ f.at = "right" => Sides(join_trie[f.node], B[heap[f.node].child[1]], B[below])
  /\ \A k \in DOMAIN f.arr : EntryFits(f.arr[k], B[f.node])
  /\ \A k \in DOMAIN f.stay : Sane => Reads(f.stay[k]) \subseteq B[f.node]

RelsOK(B) ==
  /\ \A n \in DOMAIN heap : Live(n) => NodeRels(B, n)
  /\ \A i \in DOMAIN frames : FrameRels(B, frames[i], Below(i))

\* A step of a pass that changes node n, which is at its top, or none.
Steady(n) ==
  /\ n = Null \/ OnTop(n)
  /\ OnlyAt(n) /\ join_trie' = join_trie /\ given' = given /\ (Pushing' => Pushing)
  /\ \A m \in DOMAIN heap :
       /\ heap'[m].cond = heap[m].cond
       /\ heap'[m].kind = heap[m].kind
            \/ (heap[m].kind = "MultiJoin" /\ heap'[m].kind = "Destroyed")
  /\ \A i \in DOMAIN frames' : (i \in DOMAIN frames /\ i # Len(frames)) => frames'[i] = frames[i]

(* The nodes that a step does not change, and what they hold. *)
LEMMA OtherNode ==
  ASSUME OptimizerInv, frames # <<>>, NEW n, Steady(n), NEW m \in DOMAIN heap, m # n
  PROVE  /\ heap'[m] = heap[m] /\ (Live(m)' <=> Live(m))
         /\ ChildrenOf(heap', m) = ChildrenOf(heap, m)
         /\ \A c \in ChildrenOf(heap, m) \ {Null} : c \in DOMAIN heap /\ c # n
         /\ \A k \in DOMAIN heap[m].child : heap[m].child[k] # Null =>
              heap[m].child[k] \in DOMAIN heap /\ heap[m].child[k] # n
<1>1. StructureOK /\ OwnersOK /\ Null \notin DOMAIN heap
  BY NodesTyped DEF OptimizerInv, StructureOK, HeapOK, Formed, Null
<1>2. heap'[m] = heap[m]
  BY DEF Steady, OnlyAt
<1>3. ASSUME NEW c \in ChildrenOf(heap, m) \ {Null} PROVE c \in DOMAIN heap /\ c # n
  <2>1. c \in DOMAIN heap
    BY <1>1, <1>3 DEF StructureOK, HeapOK, Formed, ChildrenOf
  <2>2. n # Null => Loose(heap, n)
    BY <1>1, TopLoose DEF Steady
  <2> QED
    BY <1>1, <1>3, <2>1, <2>2 DEF Loose
<1>4. \A k \in DOMAIN heap[m].child : heap[m].child[k] # Null =>
        heap[m].child[k] \in DOMAIN heap /\ heap[m].child[k] # n
  BY <1>3 DEF ChildrenOf
<1> QED
  BY <1>2, <1>3, <1>4 DEF Live, ChildrenOf

LEMMA OtherFrame ==
  ASSUME OptimizerInv, frames # <<>>, NEW n, Steady(n), NEW i \in DOMAIN frames, i # Len(frames)
  PROVE  /\ frames[i].node \in DOMAIN heap /\ frames[i].node # n /\ Live(frames[i].node)
         /\ frames[i].cur # Null => frames[i].cur \in DOMAIN heap /\ frames[i].cur # n
         /\ FrameOK(frames[i], heap)
         /\ \A k \in DOMAIN frames[i].arr : frames[i].arr[k].filter \in DOMAIN heap
         /\ \A k \in DOMAIN frames[i].rgt : frames[i].rgt[k].filter \in DOMAIN heap
         /\ \A k \in DOMAIN frames[i].stay : frames[i].stay[k] \in DOMAIN heap
<1>1. StructureOK /\ OwnersOK /\ Null \notin DOMAIN heap
  BY NodesTyped DEF OptimizerInv, StructureOK, HeapOK, Formed, Null
<1>2. FrameOK(frames[i], heap)
  BY <1>1 DEF StructureOK, FramesOK
<1>3. n # Null => frames[i].node # n /\ frames[i].cur # n
  <2>1. n # Null => LocalAt(frames[i], "node", 0) # n /\ LocalAt(frames[i], "cur", 0) # n
    BY <1>1, Elsewhere DEF Steady, Slots
  <2> QED
    BY <2>1, LocalIs
<1> QED
  BY <1>1, <1>2, <1>3 DEF FrameOK, CarriesOK, IsLoose, Live

(* The relations are the same, except at the node that changes. *)
LEMMA RelsAgain ==
  ASSUME OptimizerInv, frames # <<>>, NEW n, Steady(n), NEW B, RelsOK(B),
         NEW C, \A m \in DOMAIN heap : m # n => C[m] = B[m],
         \A i \in DOMAIN frames : i # Len(frames) => C[Below(i)'] = B[Below(i)],
         \A i \in DOMAIN frames' :
            (i \in DOMAIN frames /\ i # Len(frames)) \/ FrameRels(C, frames[i], Below(i))',
         \A m \in DOMAIN heap' : (m \notin DOMAIN heap \/ m = n) => (Live(m)' => NodeRels(C, m)')
  PROVE  RelsOK(C)'
<1>0. given' = given /\ join_trie' = join_trie /\ (Pushing' => Pushing)
      /\ \A m \in DOMAIN heap : heap'[m].cond = heap[m].cond
  BY DEF Steady
<1>1. Sane' = Sane /\ \A m \in DOMAIN heap : Reads(m)' = Reads(m)
  BY <1>0 DEF Sane, Reads
<1>2. ASSUME NEW m \in DOMAIN heap, m # n
      PROVE  Gathered(heap', C, m) = Gathered(heap, B, m)
  <2>1. \A c \in ChildrenOf(heap, m) \ {Null} : C[c] = B[c]
    BY <1>2, OtherNode
  <2>2. {C[c] : c \in ChildrenOf(heap, m) \ {Null}} = {B[c] : c \in ChildrenOf(heap, m) \ {Null}}
    BY <2>1
  <2>3. heap'[m] = heap[m] /\ ChildrenOf(heap', m) = ChildrenOf(heap, m)
    BY <1>2, OtherNode
  <2> QED
    BY <2>2, <2>3 DEF Gathered
<1>3. ASSUME NEW m \in DOMAIN heap', Live(m)' PROVE NodeRels(C, m)'
  <2>1. CASE m \notin DOMAIN heap \/ m = n
    BY <1>3, <2>1
  <2>2. CASE m \in DOMAIN heap /\ m # n
    <3>1. /\ heap'[m] = heap[m] /\ Live(m) /\ C[m] = B[m]
          /\ \A k \in DOMAIN heap[m].child : heap[m].child[k] # Null =>
               heap[m].child[k] \in DOMAIN heap /\ heap[m].child[k] # n
      BY <1>3, <2>2, OtherNode
    <3>2. NodeRels(B, m)
      BY <2>2, <3>1 DEF RelsOK
    <3>3. \A k \in DOMAIN heap[m].child : heap[m].child[k] # Null =>
            C[heap[m].child[k]] = B[heap[m].child[k]]
      BY <3>1
    <3>4. (IsWhole(heap[m]) /\ heap[m].kind = "BinaryJoin") =>
            C[heap[m].child[1]] = B[heap[m].child[1]] /\ C[heap[m].child[2]] = B[heap[m].child[2]]
      <4>1. heap[m].kind = "BinaryJoin" => DOMAIN heap[m].child = {1, 2}
        BY <2>2, NodesTyped DEF OptimizerInv, StructureOK, HeapOK, Formed, ArityOK
      <4> QED
        BY <3>3, <4>1 DEF IsWhole
    <3>5. Gathered(heap', C, m) = Gathered(heap, B, m)
      BY <1>2, <2>2
    <3> QED
      BY <1>0, <1>1, <2>2, <3>1, <3>2, <3>4, <3>5 DEF NodeRels
  <2> QED
    BY <2>1, <2>2
<1>4. ASSUME NEW i \in DOMAIN frames', i \in DOMAIN frames, i # Len(frames)
      PROVE  FrameRels(C, frames[i], Below(i))'
  <2>1. PICK f : f = frames[i] /\ frames'[i] = f
    BY <1>4 DEF Steady
  <2>2. PICK b, b2 : b = Below(i) /\ b2 = Below(i)'
    OBVIOUS
  <2>3. FrameRels(B, f, b) /\ C[b2] = B[b]
    BY <1>4, <2>1, <2>2 DEF RelsOK
  <2>4. /\ f.node \in DOMAIN heap /\ f.node # n /\ Live(f.node)
        /\ f.cur # Null => f.cur \in DOMAIN heap /\ f.cur # n
        /\ FrameOK(f, heap)
        /\ \A k \in DOMAIN f.arr : f.arr[k].filter \in DOMAIN heap
        /\ \A k \in DOMAIN f.rgt : f.rgt[k].filter \in DOMAIN heap
        /\ \A k \in DOMAIN f.stay : f.stay[k] \in DOMAIN heap
    BY <1>4, <2>1, OtherFrame
  <2>5. /\ heap'[f.node] = heap[f.node] /\ C[f.node] = B[f.node]
        /\ Gathered(heap', C, f.node) = Gathered(heap, B, f.node)
    BY <1>2, <2>4, OtherNode
  <2>6. Taken(C, f, b2) = Taken(B, f, b)
    BY <2>3, <2>4 DEF Taken
  <2>7. /\ f.at = "left"  => C[heap[f.node].child[2]] = B[heap[f.node].child[2]]
        /\ f.at = "right" => C[heap[f.node].child[1]] = B[heap[f.node].child[1]]
    <3>1. \A k \in DOMAIN heap[f.node].child : heap[f.node].child[k] # Null =>
            C[heap[f.node].child[k]] = B[heap[f.node].child[k]]
      BY <2>4, OtherNode
    <3>2. f.at \in {"left", "right"} => heap[f.node].kind = "BinaryJoin"
      <4>1. f \in FrameTypes
        BY <1>4, <2>1 DEF OptimizerInv, StructureOK, FramesOK
      <4>2. f.pass \in {"choose", "push"}
        BY <4>1, FrameTyped
      <4> QED
        BY <2>4, <4>2 DEF FrameOK, ChooseShape, PushShape
    <3>3. f.at \in {"left", "right"} => DOMAIN heap[f.node].child = {1, 2}
      BY <2>4, <3>2, NodesTyped DEF OptimizerInv, StructureOK, HeapOK, Formed, ArityOK
    <3>4. /\ f.at = "left"  => heap[f.node].child[2] # Null
          /\ f.at = "right" => heap[f.node].child[1] # Null
      <4>1. f \in FrameTypes
        BY <1>4, <2>1 DEF OptimizerInv, StructureOK, FramesOK
      <4>2. f.pass \in {"choose", "push"}
        BY <4>1, FrameTyped
      <4> QED
        BY <2>4, <4>2 DEF FrameOK, ChooseShape, PushShape
    <3> QED
      BY <3>1, <3>3, <3>4
  <2>8. \A e, rels : (e.filter \in DOMAIN heap /\ EntryFits(e, rels)) => EntryFits(e, rels)'
    BY <1>0, <1>1 DEF EntryFits
  <2>9. FrameRels(C, f, b2)'
    <3>1. (Waits(f) \/ f.cur # Null) => C[f.node] = Gathered(heap', C, f.node) \cup Taken(C, f, b2)
      BY <2>3, <2>5, <2>6 DEF FrameRels
    <3>2. ASSUME f.at = "left"
          PROVE  /\ Sides(join_trie'[f.node], C[b2], C[heap'[f.node].child[2]])
                 /\ \A k \in DOMAIN f.rgt : EntryFits(f.rgt[k], C[heap[f.node].child[2]])'
      <4>1. C[heap'[f.node].child[2]] = B[heap[f.node].child[2]]
        BY <2>5, <2>7, <3>2
      <4>2. /\ Sides(join_trie[f.node], B[b], B[heap[f.node].child[2]])
            /\ \A k \in DOMAIN f.rgt : EntryFits(f.rgt[k], B[heap[f.node].child[2]])
        BY <2>3, <3>2 DEF FrameRels
      <4>3. Sides(join_trie'[f.node], C[b2], C[heap'[f.node].child[2]])
        BY <1>0, <2>3, <4>1, <4>2
      <4>4. ASSUME NEW k \in DOMAIN f.rgt PROVE EntryFits(f.rgt[k], C[heap[f.node].child[2]])'
        <5>1. PICK R : R = B[heap[f.node].child[2]] /\ R = C[heap'[f.node].child[2]]
          BY <4>1
        <5>2. EntryFits(f.rgt[k], R)
          BY <4>2, <5>1
        <5>3. EntryFits(f.rgt[k], R)'
          BY <1>0, <1>1, <2>4, <5>2 DEF EntryFits
        <5> QED
          BY <5>1, <5>3 DEF EntryFits
      <4> QED
        BY <4>3, <4>4
    <3>3. f.at = "right" => Sides(join_trie'[f.node], C[heap'[f.node].child[1]], C[b2])
      BY <1>0, <2>3, <2>5, <2>7 DEF FrameRels
    <3>4. \A k \in DOMAIN f.arr : EntryFits(f.arr[k], C[f.node])'
      BY <2>3, <2>4, <2>5, <2>8 DEF FrameRels
    <3>5. \A k \in DOMAIN f.stay : Sane' => Reads(f.stay[k])' \subseteq C[f.node]
      BY <1>1, <2>3, <2>4, <2>5 DEF FrameRels
    <3> QED
      BY <3>1, <3>2, <3>3, <3>4, <3>5 DEF FrameRels
  <2> QED
    BY <2>1, <2>2, <2>9
<1> QED
  BY <1>3, <1>4 DEF RelsOK

\* A step writes node n only, and keeps what the conditions are about.
Changes(n) ==
  /\ n = Null \/ OnTop(n)
  /\ OnlyAt(n)
  /\ \A m \in DOMAIN heap :
       /\ heap'[m].cond = heap[m].cond
       /\ heap'[m].kind = heap[m].kind
            \/ (heap[m].kind = "MultiJoin" /\ heap'[m].kind = "Destroyed")

Goes(f) == f \in FrameTypes /\ f.pass = Here.pass /\ Continue(f) /\ outcome' = outcome

GoesDown(f, c, arr) ==
  /\ f \in FrameTypes /\ f.pass = Here.pass /\ c \in DOMAIN heap /\ arr \in Seq(FilterEntries)
  /\ Recurse(f, c, arr) /\ outcome' = outcome

LEMMA SteadyGoes ==
  ASSUME OptimizerInv, frames # <<>>, NEW n, Changes(n), Quiet, NEW f, Goes(f)
  PROVE  /\ Steady(n) /\ DOMAIN frames' = DOMAIN frames /\ Len(frames') = Len(frames)
         /\ frames' # <<>> /\ frames'[Len(frames)] = f
<1>1. frames \in Seq(FrameTypes) /\ Here = frames[Len(frames)]
  BY HereOK DEF OptimizerInv
<1>2. /\ DOMAIN frames' = DOMAIN frames /\ Len(frames') = Len(frames)
      /\ frames'[Len(frames)] = f /\ frames' # <<>>
      /\ \A i \in DOMAIN frames : i # Len(frames) => frames'[i] = frames[i]
  BY <1>1, Continued DEF Goes
<1>3. Here' = f
  BY <1>2 DEF Here
<1>4. Pushing' => Pushing
  BY <1>2, <1>3 DEF Pushing, Goes
<1> QED
  BY <1>2, <1>4 DEF Steady, Changes, Quiet

LEMMA SteadyDown ==
  ASSUME OptimizerInv, frames # <<>>, NEW n, Changes(n), Quiet,
         NEW f, NEW c, NEW arr, GoesDown(f, c, arr)
  PROVE  /\ Steady(n) /\ DOMAIN frames' = DOMAIN frames \cup {Len(frames) + 1}
         /\ Len(frames') = Len(frames) + 1 /\ frames' # <<>>
         /\ frames'[Len(frames)] = f /\ frames'[Len(frames) + 1] = Frame(f.pass, c, arr)
         /\ Fresh(Frame(f.pass, c, arr), f.pass, c, arr)
<1>1. frames \in Seq(FrameTypes) /\ Here = frames[Len(frames)] /\ Len(frames) \in DOMAIN frames
      /\ Here \in FrameTypes /\ heap \in Seq(HeapNodes)
  BY HereOK DEF OptimizerInv
<1>2. c \in Nat /\ f.pass \in {"choose", "push"}
  BY <1>1, FrameTyped, NodesTyped DEF GoesDown
<1>3. /\ DOMAIN frames' = DOMAIN frames \cup {Len(frames) + 1} /\ Len(frames') = Len(frames) + 1
      /\ frames'[Len(frames)] = f /\ frames' # <<>>
      /\ frames'[Len(frames) + 1] = Frame(f.pass, c, arr)
      /\ \A i \in DOMAIN frames : i # Len(frames) => frames'[i] = frames[i]
  BY <1>1, <1>2, Recursed DEF GoesDown
<1>4. Fresh(Frame(f.pass, c, arr), f.pass, c, arr)
  BY <1>2, FreshFrame DEF GoesDown
<1>5. Here' = Frame(f.pass, c, arr)
  BY <1>3 DEF Here
<1>6. Pushing' => Pushing
  BY <1>3, <1>4, <1>5 DEF Pushing, GoesDown, Fresh
<1>7. \A i \in DOMAIN frames' : (i \in DOMAIN frames /\ i # Len(frames)) => frames'[i] = frames[i]
  BY <1>3
<1> QED
  BY <1>3, <1>4, <1>6, <1>7 DEF Steady, Changes, Quiet

LEMMA SteadyBack ==
  ASSUME OptimizerInv, frames # <<>>, NEW n, Changes(n), Quiet, NEW m, GiveBack(m)
  PROVE  /\ Steady(n) /\ DOMAIN frames' = DOMAIN frames \ {Len(frames)}
         /\ Len(frames') = Len(frames) - 1
         /\ Len(frames) # 1 => ret' = m /\ frames' # <<>>
         /\ Len(frames) = 1 => ret' = Null /\ root' = m /\ frames' = <<>> /\ outcome' = Here.pass
<1>1. /\ frames \in Seq(FrameTypes) /\ Here = frames[Len(frames)] /\ Len(frames) \in DOMAIN frames
      /\ Len(frames) \in Nat \ {0} /\ DOMAIN frames = 1 .. Len(frames)
  BY HereOK DEF OptimizerInv
<1>2. /\ DOMAIN frames' = DOMAIN frames \ {Len(frames)} /\ Len(frames') = Len(frames) - 1
      /\ \A i \in DOMAIN frames : i # Len(frames) => frames'[i] = frames[i]
      /\ Len(frames) = 1 => frames' = <<>> /\ root' = m /\ ret' = Null /\ outcome' = Here.pass
      /\ Len(frames) # 1 => frames' # <<>> /\ ret' = m
  BY <1>1, GivenBack
<1>3. Pushing' => Pushing
  <2>1. CASE Len(frames) = 1
    BY <1>2, <2>1 DEF Pushing
  <2>2. CASE Len(frames) # 1
    <3>1. Len(frames) - 1 \in DOMAIN frames /\ Len(frames) - 1 # Len(frames)
      <4>1. \A N \in Nat \ {0} : N # 1 => N - 1 \in 1 .. N /\ N - 1 # N
        OBVIOUS
      <4> QED
        BY <1>1, <2>2, <4>1
    <3>2. Here' = frames[Len(frames) - 1]
      BY <1>2, <3>1 DEF Here
    <3>3. frames[Len(frames) - 1].pass = Here.pass
      BY <1>1, <3>1 DEF OptimizerInv, StructureOK, StackOK
    <3> QED
      BY <1>2, <2>2, <3>2, <3>3 DEF Pushing
  <2> QED
    BY <2>1, <2>2
<1>4. \A i \in DOMAIN frames' : (i \in DOMAIN frames /\ i # Len(frames)) => frames'[i] = frames[i]
  BY <1>2
<1> QED
  BY <1>2, <1>3, <1>4 DEF Steady, Changes, Quiet

(* What an activation below the top waits for. *)
LEMMA BelowStays ==
  ASSUME OptimizerInv, frames # <<>>, NEW n, Steady(n), NEW B, NEW C,
         \A m \in DOMAIN heap : m # n => C[m] = B[m],
         Len(frames') \in Nat, DOMAIN frames' = 1 .. Len(frames'), Len(frames') >= Len(frames) - 1,
         Len(frames') >= Len(frames) => C[frames'[Len(frames)].node] = B[Here.node],
         (Len(frames') < Len(frames) /\ Len(frames) # 1) => C[ret'] = B[Here.node]
  PROVE  \A i \in DOMAIN frames : i # Len(frames) => C[Below(i)'] = B[Below(i)]
<1> SUFFICES ASSUME NEW i \in DOMAIN frames, i # Len(frames) PROVE C[Below(i)'] = B[Below(i)]
  OBVIOUS
<1>1. /\ frames \in Seq(FrameTypes) /\ Here = frames[Len(frames)] /\ Len(frames) \in DOMAIN frames
      /\ Len(frames) \in Nat \ {0} /\ DOMAIN frames = 1 .. Len(frames)
  BY HereOK DEF OptimizerInv
<1>2. i \in Nat \ {0} /\ i < Len(frames) /\ i + 1 \in DOMAIN frames /\ Below(i) = frames[i + 1].node
  BY <1>1 DEF Below
<1>3. CASE i + 1 # Len(frames)
  <2>1. i + 1 < Len(frames) /\ i < Len(frames')
    BY <1>1, <1>2, <1>3
  <2>2. frames'[i + 1] = frames[i + 1]
    <3>1. i + 1 \in DOMAIN frames'
      <4>1. i + 1 \in 1 .. Len(frames')
        BY <1>1, <1>2, <2>1
      <4>2. DOMAIN frames' = 1 .. Len(frames')
        OBVIOUS
      <4> QED
        BY <4>1, <4>2
    <3> QED
      BY <1>2, <1>3, <3>1 DEF Steady
  <2>3. Below(i)' = frames[i + 1].node
    BY <2>1, <2>2 DEF Below
  <2>4. frames[i + 1].node \in DOMAIN heap /\ frames[i + 1].node # n
    BY <1>2, <1>3, OtherFrame
  <2> QED
    BY <1>2, <2>3, <2>4
<1>4. CASE i + 1 = Len(frames)
  <2>1. CASE Len(frames') >= Len(frames)
    BY <1>1, <1>2, <1>4, <2>1 DEF Below
  <2>2. CASE Len(frames') < Len(frames)
    BY <1>1, <1>2, <1>4, <2>2 DEF Below
  <2> QED
    BY <1>1, <2>1, <2>2
<1> QED
  BY <1>3, <1>4

(* The relations after a step, by what the step does to the stack. *)
LEMMA RelsGoes ==
  ASSUME OptimizerInv, frames # <<>>, NEW n, Changes(n), Quiet, NEW f, Goes(f),
         NEW B, RelsOK(B), NEW C, \A m \in DOMAIN heap : m # n => C[m] = B[m],
         C[f.node] = B[Here.node], FrameRels(C, f, ret)',
         \A m \in DOMAIN heap' : (m \notin DOMAIN heap \/ m = n) => (Live(m)' => NodeRels(C, m)')
  PROVE  RelsOK(C)'
<1>1. /\ Here = frames[Len(frames)] /\ Len(frames) \in Nat \ {0} /\ DOMAIN frames = 1 .. Len(frames)
  BY HereOK DEF OptimizerInv
<1>2. /\ Steady(n) /\ DOMAIN frames' = DOMAIN frames /\ Len(frames') = Len(frames)
      /\ frames'[Len(frames)] = f
  BY SteadyGoes
<1>3. \A i \in DOMAIN frames : i # Len(frames) => C[Below(i)'] = B[Below(i)]
  <2>1. Len(frames') \in Nat /\ DOMAIN frames' = 1 .. Len(frames')
        /\ Len(frames') >= Len(frames) - 1 /\ ~(Len(frames') < Len(frames))
    BY <1>1, <1>2
  <2>2. C[frames'[Len(frames)].node] = B[Here.node]
    BY <1>2
  <2> QED
    BY <1>2, <2>1, <2>2, BelowStays
<1>4. FrameRels(C, frames[Len(frames)], Below(Len(frames)))'
  <2>1. PICK N : N = Len(frames)
    OBVIOUS
  <2>2. frames'[N] = f /\ Below(N)' = ret'
    BY <1>1, <1>2, <2>1 DEF Below
  <2>3. FrameRels(C, frames[N], Below(N))'
    BY <2>2
  <2> QED
    BY <1>2, <2>1, <2>3
<1>5. \A i \in DOMAIN frames' :
        (i \in DOMAIN frames /\ i # Len(frames)) \/ FrameRels(C, frames[i], Below(i))'
  BY <1>2, <1>4
<1> QED
  BY <1>2, <1>3, <1>5, RelsAgain

LEMMA RelsDown ==
  ASSUME OptimizerInv, frames # <<>>, NEW n, Changes(n), Quiet,
         NEW f, NEW c, NEW arr, GoesDown(f, c, arr), f.node = Here.node,
         NEW B, RelsOK(B), FrameRels(B, f, c)', \A k \in DOMAIN arr : EntryFits(arr[k], B[c])',
         \A m \in DOMAIN heap' : (m \notin DOMAIN heap \/ m = n) => (Live(m)' => NodeRels(B, m)')
  PROVE  RelsOK(B)'
<1>1. /\ Here = frames[Len(frames)] /\ Len(frames) \in Nat \ {0} /\ DOMAIN frames = 1 .. Len(frames)
  BY HereOK DEF OptimizerInv
<1>2. /\ Steady(n) /\ DOMAIN frames' = DOMAIN frames \cup {Len(frames) + 1}
      /\ Len(frames') = Len(frames) + 1
      /\ frames'[Len(frames)] = f /\ frames'[Len(frames) + 1] = Frame(f.pass, c, arr)
      /\ Fresh(Frame(f.pass, c, arr), f.pass, c, arr)
  BY SteadyDown
<1>3. \A i \in DOMAIN frames : i # Len(frames) => B[Below(i)'] = B[Below(i)]
  <2>1. Len(frames') \in Nat /\ DOMAIN frames' = 1 .. Len(frames')
        /\ Len(frames') >= Len(frames) - 1 /\ ~(Len(frames') < Len(frames))
    <3>1. \A N \in Nat \ {0} : 1 .. N + 1 = (1 .. N) \cup {N + 1} /\ N + 1 \in Nat
                               /\ N + 1 >= N - 1 /\ ~(N + 1 < N)
      OBVIOUS
    <3> QED
      BY <1>1, <1>2, <3>1
  <2>2. B[frames'[Len(frames)].node] = B[Here.node]
    BY <1>2
  <2> QED
    BY <1>2, <2>1, <2>2, BelowStays
<1>4. PICK N, g : N = Len(frames) /\ g = Frame(f.pass, c, arr)
  OBVIOUS
<1>5. g.node = c /\ g.at = "enter" /\ g.cur = Null /\ g.arr = arr /\ g.stay = <<>>
  BY <1>2, <1>4 DEF Fresh
<1>6. FrameRels(B, frames[N], Below(N))'
  <2>1. Below(N)' = c /\ frames'[N] = f
    <3>1. N < Len(frames') /\ frames'[N + 1] = g /\ frames'[N] = f
      <4>1. \A x \in Nat \ {0} : x < x + 1
        OBVIOUS
      <4>2. N < Len(frames')
        BY <1>1, <1>2, <1>4, <4>1
      <4> QED
        BY <1>2, <1>4, <4>2
    <3> QED
      BY <1>5, <3>1 DEF Below
  <2> QED
    BY <2>1
<1>7. FrameRels(B, frames[N + 1], Below(N + 1))'
  <2>1. frames'[N + 1] = g /\ DOMAIN g.stay = {}
    BY <1>2, <1>4, <1>5
  <2>2. \A k \in DOMAIN g.arr : EntryFits(g.arr[k], B[g.node])'
    BY <1>5
  <2>3. PICK b : b = Below(N + 1)'
    OBVIOUS
  <2>4. FrameRels(B, g, b)'
    BY <1>5, <2>1, <2>2 DEF FrameRels, Waits
  <2> QED
    BY <2>1, <2>3, <2>4
<1>8. \A i \in DOMAIN frames' :
        (i \in DOMAIN frames /\ i # Len(frames)) \/ FrameRels(B, frames[i], Below(i))'
  BY <1>2, <1>4, <1>6, <1>7
<1> QED
  BY <1>2, <1>3, <1>8, RelsAgain

LEMMA RelsBack ==
  ASSUME OptimizerInv, frames # <<>>, NEW n, Changes(n), Quiet, NEW m, GiveBack(m),
         NEW B, RelsOK(B), B[m] = B[Here.node],
         \A x \in DOMAIN heap' : (x \notin DOMAIN heap \/ x = n) => (Live(x)' => NodeRels(B, x)')
  PROVE  RelsOK(B)'
<1>1. /\ Here = frames[Len(frames)] /\ Len(frames) \in Nat \ {0} /\ DOMAIN frames = 1 .. Len(frames)
  BY HereOK DEF OptimizerInv
<1>2. /\ Steady(n) /\ DOMAIN frames' = DOMAIN frames \ {Len(frames)}
      /\ Len(frames') = Len(frames) - 1
      /\ Len(frames) # 1 => ret' = m
  BY SteadyBack
<1>3. \A i \in DOMAIN frames : i # Len(frames) => B[Below(i)'] = B[Below(i)]
  <2>1. Len(frames') \in Nat /\ DOMAIN frames' = 1 .. Len(frames')
        /\ Len(frames') >= Len(frames) - 1 /\ ~(Len(frames') >= Len(frames))
    BY <1>1, <1>2
  <2> QED
    BY <1>2, <2>1, BelowStays
<1> QED
  BY <1>2, <1>3, RelsAgain

(* The relations below a node, child by child. *)
LEMMA GatheredIs ==
  ASSUME NEW h, NEW B, NEW n, h[n].kind # "TableScan", NEW rel
  PROVE  rel \in Gathered(h, B, n)
           <=> \E k \in DOMAIN h[n].child : h[n].child[k] # Null /\ rel \in B[h[n].child[k]]
<1> QED
  BY DEF Gathered, ChildrenOf

\* A child is taken, or comes back.
LEMMA GatheredLess ==
  ASSUME NEW h, NEW g, NEW B, NEW n, NEW k \in DOMAIN h[n].child, h[n].child[k] # Null,
         h[n].kind # "TableScan", g[n].kind = h[n].kind,
         DOMAIN g[n].child = DOMAIN h[n].child, g[n].child[k] = Null,
         \A j \in DOMAIN h[n].child : j # k => g[n].child[j] = h[n].child[j]
  PROVE  Gathered(h, B, n) = Gathered(g, B, n) \cup B[h[n].child[k]]
<1>1. \A rel : rel \in Gathered(h, B, n)
           <=> \E j \in DOMAIN h[n].child : h[n].child[j] # Null /\ rel \in B[h[n].child[j]]
  BY GatheredIs
<1>2. \A rel : rel \in Gathered(g, B, n)
           <=> \E j \in DOMAIN g[n].child : g[n].child[j] # Null /\ rel \in B[g[n].child[j]]
  BY GatheredIs
<1> QED
  BY <1>1, <1>2

\* What the top activation has not taken is below its node.
LEMMA TopRels ==
  ASSUME OptimizerInv, frames # <<>>, NEW B, RelsOK(B)
  PROVE  /\ B[Here.node] = Gathered(heap, B, Here.node) \cup Taken(B, Here, ret)
         /\ FrameRels(B, Here, ret) /\ NodeRels(B, Here.node)
<1>1. /\ Here = frames[Len(frames)] /\ Len(frames) \in Nat \ {0} /\ Len(frames) \in DOMAIN frames
      /\ Here \in FrameTypes /\ Here.node \in DOMAIN heap /\ Live(Here.node)
      /\ Here.pass = "choose" => ChooseShape(Here, heap[Here.node])
      /\ Here.pass = "push" => PushShape(Here, heap[Here.node])
      /\ heap \in Seq(HeapNodes) /\ ArityOK(heap[Here.node])
  BY HereOK DEF OptimizerInv
<1>2. FrameRels(B, Here, ret) /\ NodeRels(B, Here.node)
  <2>1. Below(Len(frames)) = ret
    BY <1>1 DEF Below
  <2> QED
    BY <1>1, <2>1 DEF RelsOK
<1>3. CASE Waits(Here) \/ Here.cur # Null
  BY <1>2, <1>3 DEF FrameRels
<1>4. CASE ~Waits(Here) /\ Here.cur = Null
  <2>1. Here.pass \in {"choose", "push"} /\ Here.at \in {"enter", "child", "left", "right", "wrap"}
        /\ Here.done \in Nat
    BY <1>1, FrameTyped
  <2>2. heap[Here.node].child \in Seq(Nat) /\ heap[Here.node].kind \in
          {"TableScan", "Filter", "Projection", "BinaryJoin", "MultiJoin", "Destroyed"}
    BY <1>1, NodesTyped
  <2>3. IsWhole(heap[Here.node])
    <3>1. CASE Here.pass = "push"
      BY <1>1, <1>4, <2>1, <3>1 DEF PushShape, Waits
    <3>2. CASE Here.pass = "choose"
      <4>1. Here.at = "enter"
        BY <1>1, <1>4, <3>2 DEF ChooseShape, Waits
      <4>2. CASE heap[Here.node].kind = "TableScan"
        BY <1>1, <2>2, <4>2 DEF ArityOK, IsWhole
      <4>3. CASE heap[Here.node].kind \in {"Filter", "Projection", "BinaryJoin"}
        BY <1>1, <3>2, <4>1, <4>3 DEF ChooseShape, IsWhole
      <4>4. CASE heap[Here.node].kind = "MultiJoin"
        <5>1. Here.done = 0
          BY <1>1, <1>4, <3>2, <4>4 DEF ChooseShape
        <5>2. \A j \in DOMAIN heap[Here.node].child : ~(j <= 0)
          BY <2>2
        <5> QED
          BY <1>1, <3>2, <4>1, <4>4, <5>1, <5>2 DEF ChooseShape, IsWhole
      <4> QED
        BY <1>1, <2>2, <4>2, <4>3, <4>4 DEF Live
    <3> QED
      BY <2>1, <3>1, <3>2
  <2>4. Taken(B, Here, ret) = {}
    BY <1>4 DEF Taken
  <2> QED
    BY <1>2, <2>3, <2>4 DEF NodeRels
<1> QED
  BY <1>2, <1>3, <1>4

LEMMA ChangesNothing ==
  ASSUME OptimizerInv, heap' = heap
  PROVE  Changes(Null)
<1> QED
  BY DEF Changes, OnlyAt, OptimizerInv, StructureOK, HeapOK, Formed

LEMMA ChangesHere ==
  ASSUME OptimizerInv, frames # <<>>, SameBut(heap', heap, Here.node)
  PROVE  Changes(Here.node) /\ DOMAIN heap' = DOMAIN heap /\ Here.node \in DOMAIN heap
<1>1. heap \in Seq(HeapNodes) /\ Here.node \in DOMAIN heap
  BY HereOK DEF OptimizerInv
<1> QED
  BY <1>1, NodeOnTop DEF Changes, OnlyAt, SameBut

(* ChooseScan, WrapEnd: the node is given back as it is. *)
LEMMA RelsReturned ==
  ASSUME OptimizerInv, frames # <<>>, heap' = heap, Quiet, GiveBack(Here.node), NEW B, RelsOK(B)
  PROVE  RelsOK(B)'
<1>1. Changes(Null) /\ Null \notin DOMAIN heap
  BY ChangesNothing, NodesTyped DEF OptimizerInv, StructureOK, HeapOK, Formed, Null
<1> QED
  BY <1>1, RelsBack

(* PushScan: the filters stay above the scan. *)
LEMMA RelsPushScan ==
  ASSUME OptimizerInv, PushScan, NEW B, RelsOK(B)
  PROVE  RelsOK(B)'
<1> PICK f : f = [Here EXCEPT !.at = "wrap", !.arr = <<>>, !.stay = FiltersOf(Here.arr)]
  OBVIOUS
<1> DEFINE none == <<>>
<1>1. /\ frames # <<>> /\ Here.pass = "push" /\ Here.at = "enter"
      /\ Continue(f) /\ heap' = heap /\ ret' = ret /\ outcome' = outcome /\ Quiet
  BY DEF PushScan, In
<1>2. Here \in FrameTypes /\ Here.node \in DOMAIN heap /\ Here.pass = "push"
      /\ PushShape(Here, heap[Here.node])
  BY <1>1, HereOK DEF OptimizerInv
<1>3. Here.arr \in Seq(FilterEntries) /\ FiltersOf(Here.arr) \in Seq(Nat)
      /\ DOMAIN FiltersOf(Here.arr) = DOMAIN Here.arr
      /\ \A k \in DOMAIN Here.arr : FiltersOf(Here.arr)[k] = Here.arr[k].filter
  BY <1>2, FrameTyped, FiltersAre
<1>4. /\ f \in FrameTypes /\ f.pass = Here.pass /\ f.node = Here.node /\ f.at = "wrap"
      /\ f.cur = Here.cur /\ f.arr = none /\ f.stay = FiltersOf(Here.arr)
  BY <1>2, <1>3, FrameScanned
<1>5. Changes(Null) /\ Null \notin DOMAIN heap
  BY <1>1, ChangesNothing, NodesTyped DEF OptimizerInv, StructureOK, HeapOK, Formed, Null
<1>6. Goes(f)
  BY <1>1, <1>4 DEF Goes
<1>7. FrameRels(B, Here, ret)
  BY <1>1, TopRels
<1>8. FrameRels(B, f, ret)'
  <2>1. f.cur = Null /\ ~Waits(f) /\ DOMAIN f.arr = {}
    BY <1>2, <1>4 DEF PushShape, Waits
  <2>2. Sane' = Sane /\ \A m : Reads(m)' = Reads(m)
    BY <1>1 DEF Sane, Reads, Quiet
  <2>3. ASSUME NEW k \in DOMAIN f.stay, Sane PROVE Reads(f.stay[k]) \subseteq B[f.node]
    <3>1. k \in DOMAIN Here.arr /\ f.stay[k] = Here.arr[k].filter
      BY <1>3, <1>4, <2>3
    <3>2. EntryFits(Here.arr[k], B[Here.node])
      BY <1>7, <3>1 DEF FrameRels
    <3> QED
      BY <1>4, <2>3, <3>1, <3>2 DEF EntryFits
  <2> QED
    BY <1>4, <2>1, <2>2, <2>3 DEF FrameRels
<1> QED
  BY <1>1, <1>4, <1>5, <1>6, <1>8, RelsGoes

\* A node that is open after the step, and was written only in its children.
LEMMA NodeOpened ==
  ASSUME OptimizerInv, frames # <<>>, SameBut(heap', heap, Here.node),
         heap'[Here.node].schema = heap[Here.node].schema, given' = given,
         ~IsWhole(heap'[Here.node]), NEW B, RelsOK(B)
  PROVE  \A m \in DOMAIN heap' : (m \notin DOMAIN heap \/ m = Here.node)
           => (Live(m)' => NodeRels(B, m)')
<1>1. DOMAIN heap' = DOMAIN heap
  BY DEF SameBut
<1>2. NodeRels(B, Here.node)
  BY TopRels
<1>3. PICK n : n = Here.node
  OBVIOUS
<1>4. heap'[n].kind = heap[n].kind /\ heap'[n].cond = heap[n].cond
      /\ heap'[n].schema = heap[n].schema
  BY <1>3 DEF SameBut
<1>5. Sane' = Sane /\ Reads(n)' = Reads(n)
  BY <1>4 DEF Sane, Reads
<1>6. NodeRels(B, n)'
  BY <1>2, <1>3, <1>4, <1>5 DEF NodeRels
<1> QED
  BY <1>1, <1>3, <1>6

(* A child is taken for a call: what the activation carries must still fit. *)
LEMMA RelsTaken ==
  ASSUME OptimizerInv, frames # <<>>, ret = Null, Quiet,
         NEW k \in DOMAIN heap[Here.node].child, heap[Here.node].child[k] # Null,
         heap[Here.node].kind # "TableScan",
         heap' = transfer_child(heap, Here.node, k),
         NEW f, NEW arr, GoesDown(f, heap[Here.node].child[k], arr),
         f.node = Here.node, f.cur = Here.cur, Waits(f), f.arr = <<>>, Handed(f, arr),
         NEW B, RelsOK(B),
         \A j \in DOMAIN arr : EntryFits(arr[j], B[heap[Here.node].child[k]]),
         f.at = "left" =>
           /\ Sides(join_trie[f.node], B[heap[Here.node].child[k]], B[heap[f.node].child[2]])
           /\ k # 2 /\ 2 \in DOMAIN heap[f.node].child
           /\ \A j \in DOMAIN f.rgt : EntryFits(f.rgt[j], B[heap[f.node].child[2]]),
         f.at # "right",
         \A j \in DOMAIN f.stay : Sane => Reads(f.stay[j]) \subseteq B[f.node]
  PROVE  RelsOK(B)'
<1>1. PICK n, c : n = Here.node /\ c = heap[n].child[k]
  OBVIOUS
<1>2. heap \in Seq(HeapNodes) /\ n \in DOMAIN heap
  BY <1>1, HereOK DEF OptimizerInv
<1>3. SameBut(heap', heap, n) /\ heap'[n].schema = heap[n].schema
      /\ \A j \in DOMAIN heap[n].child :
           heap'[n].child[j] = IF j = k THEN Null ELSE heap[n].child[j]
  BY <1>1, <1>2, Transferred
<1>4. DOMAIN heap'[n].child = DOMAIN heap[n].child /\ heap'[n].kind = heap[n].kind
      /\ \A m \in DOMAIN heap : heap'[m].cond = heap[m].cond
  BY <1>3 DEF SameBut
<1>5. Changes(n)
  BY <1>1, <1>3, ChangesHere
<1>6. ~IsWhole(heap'[n])
  BY <1>1, <1>3, <1>4 DEF IsWhole
<1>7. \A m \in DOMAIN heap' : (m \notin DOMAIN heap \/ m = n) => (Live(m)' => NodeRels(B, m)')
  BY <1>1, <1>3, <1>6, NodeOpened DEF Quiet
<1>8. Sane' = Sane /\ join_trie' = join_trie
  BY DEF Sane, Quiet
<1>9. Gathered(heap, B, n) = Gathered(heap', B, n) \cup B[c]
  <2>1. \A j \in DOMAIN heap[n].child : j # k => heap'[n].child[j] = heap[n].child[j]
    BY <1>3
  <2>2. heap'[n].child[k] = Null /\ k \in DOMAIN heap[n].child /\ heap[n].child[k] # Null
        /\ heap[n].kind # "TableScan"
    BY <1>1, <1>3
  <2>3. Gathered(heap, B, n) = Gathered(heap', B, n) \cup B[heap[n].child[k]]
    BY <1>4, <2>1, <2>2, GatheredLess
  <2> QED
    BY <1>1, <2>3
<1>10. B[n] = Gathered(heap, B, n) \cup (IF f.cur # Null THEN B[f.cur] ELSE {})
  <2>1. B[n] = Gathered(heap, B, n) \cup Taken(B, Here, Null)
    BY <1>1, TopRels
  <2>2. ~Waits(Here)
    BY HereOK DEF OptimizerInv
  <2> QED
    BY <2>1, <2>2 DEF Taken
<1>11. B[n] = Gathered(heap', B, n) \cup Taken(B, f, c)
  BY <1>9, <1>10 DEF Taken
<1>12. \A e, rels : (e.filter \in DOMAIN heap /\ EntryFits(e, rels)) => EntryFits(e, rels)'
  BY <1>4, <1>8 DEF EntryFits, Reads
<1>13. /\ \A j \in DOMAIN arr : arr[j].filter \in DOMAIN heap
       /\ \A j \in DOMAIN f.rgt : f.rgt[j].filter \in DOMAIN heap
       /\ \A j \in DOMAIN f.stay : f.stay[j] \in DOMAIN heap
  BY DEF Handed, CarriesOK, IsLoose
<1>14. \A j \in DOMAIN arr : EntryFits(arr[j], B[c])'
  BY <1>1, <1>12, <1>13
<1>15. FrameRels(B, f, c)'
  <2>1. (Waits(f) \/ f.cur # Null) => B[f.node] = Gathered(heap', B, f.node) \cup Taken(B, f, c)
    BY <1>1, <1>11
  <2>2. ASSUME f.at = "left"
        PROVE  /\ Sides(join_trie'[f.node], B[c], B[heap'[f.node].child[2]])
               /\ \A j \in DOMAIN f.rgt : EntryFits(f.rgt[j], B[heap[f.node].child[2]])'
    <3>1. PICK R : R = B[heap[n].child[2]] /\ R = B[heap'[n].child[2]]
      BY <1>1, <1>3, <2>2
    <3>2. Sides(join_trie'[n], B[c], R)
      BY <1>1, <1>8, <2>2, <3>1
    <3>3. \A j \in DOMAIN f.rgt : EntryFits(f.rgt[j], R)'
      BY <1>1, <1>12, <1>13, <2>2, <3>1
    <3> QED
      BY <1>1, <3>1, <3>2, <3>3
  <2>3. DOMAIN f.arr = {}
    OBVIOUS
  <2>4. \A j \in DOMAIN f.stay : Sane' => Reads(f.stay[j])' \subseteq B[f.node]
    BY <1>4, <1>8, <1>13 DEF Reads
  <2> QED
    BY <2>1, <2>2, <2>3, <2>4 DEF FrameRels
<1>16. GoesDown(f, c, arr)
  BY <1>1
<1> QED
  BY <1>1, <1>5, <1>7, <1>14, <1>15, <1>16, RelsDown

-----------------------------------------------------------------------------
(* What the steps of the passes do, read off the actions. *)

\* The top activation calls its pass on its k-th child.
Pulls(k, f, arr) ==
  LET n == Here.node
  IN  /\ frames # <<>> /\ n \in DOMAIN heap /\ k \in DOMAIN heap[n].child /\ heap[n].child[k] # Null
      /\ heap[n].kind # "TableScan" /\ ret = Null
      /\ heap' = transfer_child(heap, n, k) /\ UNCHANGED <<root, ret>> /\ Quiet
      /\ GoesDown(f, heap[n].child[k], arr)
      /\ f.node = n /\ f.cur = Here.cur /\ f.done = Here.done /\ Waits(f) /\ f.arr = <<>>
      /\ Handed(f, arr)

LEMMA ChooseIs ==
  ASSUME OptimizerInv, ChooseChild \/ ChooseJoinChild
  PROVE  /\ Here.pass = "choose" /\ Here.at = "enter"
         /\ heap[Here.node].kind \in {"Filter", "Projection", "BinaryJoin", "MultiJoin"}
         /\ \E f : /\ Pulls(Here.done + 1, f, <<>>) /\ f.at = "child"
                   /\ f.rgt = <<>> /\ f.stay = <<>>
<1>1. PICK f, k, n, none : /\ f = [Here EXCEPT !.at = "child"] /\ k = Here.done + 1 /\ n = Here.node
                           /\ none = <<>>
  OBVIOUS
<1>2. /\ frames # none /\ Here.pass = "choose" /\ Here.at = "enter"
      /\ heap[n].kind \in {"Filter", "Projection", "BinaryJoin", "MultiJoin"}
      /\ heap[n].kind = "MultiJoin" => Here.done < Len(heap[n].child)
      /\ heap' = transfer_child(heap, n, k) /\ Recurse(f, heap[n].child[k], none)
      /\ UNCHANGED <<root, ret, outcome>> /\ Quiet
  BY <1>1 DEF ChooseChild, ChooseJoinChild, In, MoreChildren
<1>3. /\ heap \in Seq(HeapNodes) /\ n \in DOMAIN heap /\ Here \in FrameTypes
      /\ ChooseShape(Here, heap[n]) /\ (Waits(Here) <=> ret # Null)
      /\ \A j \in DOMAIN heap[n].child : heap[n].child[j] \in {Null} \cup DOMAIN heap
  BY <1>1, <1>2, HereOK DEF OptimizerInv
<1>4. /\ f \in FrameTypes /\ f.pass = Here.pass /\ f.node = n /\ f.at = "child"
      /\ f.cur = Here.cur /\ f.done = Here.done
      /\ f.arr = none /\ f.rgt = none /\ f.stay = none
  BY <1>1, <1>3, FrameCalled DEF ChooseShape
<1>5. Here.done \in Nat /\ heap[n].child \in Seq(Nat)
  BY <1>3, FrameTyped, NodesTyped
<1>6. Here.done < Len(heap[n].child)
  BY <1>2, <1>3 DEF ChooseShape
<1>7. k \in DOMAIN heap[n].child /\ ~(k <= Here.done)
  BY <1>1, <1>5, <1>6
<1>8. heap[n].child[k] # Null
  BY <1>2, <1>3, <1>7 DEF ChooseShape
<1>9. ret = Null /\ Waits(f)
  BY <1>2, <1>3, <1>4 DEF Waits
<1>10. DOMAIN none = {} /\ none \in Seq(FilterEntries)
  BY <1>1
<1>11. Handed(f, none)
  BY <1>4, <1>10 DEF Handed, CarriesOK
<1>12. GoesDown(f, heap[n].child[k], none)
  BY <1>2, <1>3, <1>4, <1>7, <1>8, <1>10 DEF GoesDown
<1>13. Pulls(k, f, none)
  BY <1>1, <1>2, <1>3, <1>4, <1>7, <1>8, <1>9, <1>11, <1>12 DEF Pulls
<1> QED
  BY <1>1, <1>2, <1>4, <1>13

LEMMA PushProjectionIs ==
  ASSUME OptimizerInv, PushProjection
  PROVE  /\ Here.pass = "push" /\ Here.at = "enter" /\ heap[Here.node].kind = "Projection"
         /\ IsWhole(heap[Here.node]) /\ Here.cur = Null
         /\ \E f : Pulls(1, f, Here.arr) /\ f.at = "child" /\ f.rgt = <<>> /\ f.stay = <<>>
<1>1. PICK f, n, none : /\ f = [Here EXCEPT !.at = "child", !.arr = <<>>] /\ n = Here.node
                        /\ none = <<>>
  OBVIOUS
<1>2. /\ frames # none /\ Here.pass = "push" /\ Here.at = "enter" /\ heap[n].kind = "Projection"
      /\ heap' = transfer_child(heap, n, 1) /\ Recurse(f, heap[n].child[1], Here.arr)
      /\ UNCHANGED <<root, ret, outcome>> /\ Quiet
  BY <1>1 DEF PushProjection, In
<1>3. /\ heap \in Seq(HeapNodes) /\ n \in DOMAIN heap /\ Here \in FrameTypes /\ FrameOK(Here, heap)
      /\ PushShape(Here, heap[n]) /\ ArityOK(heap[n]) /\ (Waits(Here) <=> ret # Null)
      /\ \A j \in DOMAIN heap[n].child : heap[n].child[j] \in {Null} \cup DOMAIN heap
  BY <1>1, <1>2, HereOK DEF OptimizerInv
<1>4. /\ f \in FrameTypes /\ f.pass = Here.pass /\ f.node = n /\ f.at = "child"
      /\ f.cur = Here.cur /\ f.done = Here.done
      /\ f.arr = none /\ f.rgt = Here.rgt /\ f.stay = Here.stay
  BY <1>1, <1>3, FrameProjected
<1>5. /\ Here.rgt = none /\ Here.stay = none /\ Here.arr \in Seq(FilterEntries)
      /\ IsWhole(heap[n]) /\ Here.cur = Null
  BY <1>1, <1>2, <1>3, FrameTyped DEF PushShape
<1>6. 1 \in DOMAIN heap[n].child /\ heap[n].child[1] # Null
  <2>1. 1 \in DOMAIN heap[n].child
    BY <1>2, <1>3, NodesTyped DEF ArityOK
  <2> QED
    BY <1>5, <2>1 DEF IsWhole
<1>7. ret = Null /\ Waits(f)
  BY <1>2, <1>3, <1>4 DEF Waits
<1>8. Handed(f, Here.arr)
  <2>1. DOMAIN none = {}
    BY <1>1
  <2> QED
    BY <1>3, <1>4, <1>5, <2>1 DEF Handed, CarriesOK, FrameOK
<1>9. GoesDown(f, heap[n].child[1], Here.arr)
  BY <1>2, <1>3, <1>4, <1>5, <1>6 DEF GoesDown
<1>10. Pulls(1, f, Here.arr)
  BY <1>1, <1>2, <1>3, <1>4, <1>6, <1>7, <1>8, <1>9 DEF Pulls
<1> QED
  BY <1>1, <1>2, <1>4, <1>5, <1>10

\* These entries of filter_arr go this way.
Sent(t, dir) ==
  \A k \in DOMAIN t : \E i \in DOMAIN Here.arr :
    t[k] = Here.arr[i] /\ check_direction(Here.arr[i].relations, join_trie[Here.node]) = dir

LEMMA PickedFrom ==
  ASSUME NEW arr \in Seq(FilterEntries), NEW dir, NEW mp, NEW t, Picked(t, arr, dir, mp, Len(arr)),
         NEW x \in DOMAIN t
  PROVE  \E i \in DOMAIN arr : check_direction(arr[i].relations, mp) = dir /\ t[x] = arr[i]
<1>1. PICK i \in 1 .. Len(arr) : check_direction(arr[i].relations, mp) = dir /\ t[x] = arr[i]
  BY DEF Picked
<1>2. i \in DOMAIN arr
  OBVIOUS
<1> QED
  BY <1>1, <1>2

LEMMA PushJoinIs ==
  ASSUME OptimizerInv, PushJoin
  PROVE  /\ Here.pass = "push" /\ Here.at = "enter" /\ heap[Here.node].kind = "BinaryJoin"
         /\ IsWhole(heap[Here.node]) /\ Here.cur = Null /\ DOMAIN heap[Here.node].child = {1, 2}
         /\ \E f, lft :
              /\ Pulls(1, f, lft) /\ f.at = "left" /\ Sent(lft, "Left") /\ Sent(f.rgt, "Right")
              /\ \A k \in DOMAIN f.stay : \E i \in DOMAIN Here.arr :
                   /\ f.stay[k] = Here.arr[i].filter
                   /\ check_direction(Here.arr[i].relations, join_trie[Here.node]) = "Invalid"
<1>1. PICK n, mp, lft, rgt, inv, stay, none :
        /\ n = Here.node /\ mp = join_trie[n] /\ lft = Towards(Here.arr, "Left", mp)
        /\ rgt = Towards(Here.arr, "Right", mp) /\ inv = Towards(Here.arr, "Invalid", mp)
        /\ stay = FiltersOf(inv) /\ none = <<>>
  OBVIOUS
<1>2. PICK f : f = [Here EXCEPT !.at = "left", !.arr = <<>>, !.rgt = rgt, !.stay = stay]
  OBVIOUS
<1>3. /\ frames # none /\ Here.pass = "push" /\ Here.at = "enter" /\ heap[n].kind = "BinaryJoin"
      /\ heap' = transfer_child(heap, n, 1) /\ Recurse(f, heap[n].child[1], lft)
      /\ UNCHANGED <<root, ret, outcome>> /\ Quiet
  BY <1>1, <1>2 DEF PushJoin, In
<1>4. /\ heap \in Seq(HeapNodes) /\ n \in DOMAIN heap /\ Here \in FrameTypes /\ FrameOK(Here, heap)
      /\ PushShape(Here, heap[n]) /\ Len(frames) \in DOMAIN frames /\ frames \in Seq(FrameTypes)
      /\ Here = frames[Len(frames)] /\ ArityOK(heap[n]) /\ (Waits(Here) <=> ret # Null)
      /\ \A j \in DOMAIN heap[n].child : heap[n].child[j] \in {Null} \cup DOMAIN heap
  BY <1>1, <1>3, HereOK DEF OptimizerInv
<1>5. /\ CarriesOK(Here, heap) /\ Here.arr \in Seq(FilterEntries)
      /\ \A i, j \in DOMAIN Here.arr : Here.arr[i].filter = Here.arr[j].filter => i = j
  <2>1. Single(Here)
    BY <1>4, CarriedOnce DEF OptimizerInv
  <2> QED
    BY <1>4, <2>1, DistinctIf, FrameTyped DEF FrameOK, Distinct
<1>6. /\ Picked(lft, Here.arr, "Left", mp, Len(Here.arr))
      /\ Picked(rgt, Here.arr, "Right", mp, Len(Here.arr))
      /\ Picked(inv, Here.arr, "Invalid", mp, Len(Here.arr))
  BY <1>1, <1>5, TowardsPicks
<1>7. /\ lft \in Seq(FilterEntries) /\ rgt \in Seq(FilterEntries) /\ inv \in Seq(FilterEntries)
      /\ stay \in Seq(Nat) /\ DOMAIN stay = DOMAIN inv
      /\ \A k \in DOMAIN inv : stay[k] = inv[k].filter
  <2>1. lft \in Seq(FilterEntries) /\ rgt \in Seq(FilterEntries) /\ inv \in Seq(FilterEntries)
    BY <1>6 DEF Picked
  <2> QED
    BY <1>1, <2>1, FiltersAre
<1>8. /\ f \in FrameTypes /\ f.pass = Here.pass /\ f.node = n /\ f.at = "left"
      /\ f.cur = Here.cur /\ f.done = Here.done /\ f.arr = none /\ f.rgt = rgt /\ f.stay = stay
  <2>1. \A r \in Seq(FilterEntries), s \in Seq(Nat) :
          LET e == [Here EXCEPT !.at = "left", !.arr = <<>>, !.rgt = r, !.stay = s]
          IN  /\ e \in FrameTypes /\ e.pass = Here.pass /\ e.node = Here.node /\ e.at = "left"
              /\ e.cur = Here.cur /\ e.done = Here.done /\ e.arr = <<>> /\ e.rgt = r /\ e.stay = s
    BY <1>4, FrameDealt
  <2>2. LET e == [Here EXCEPT !.at = "left", !.arr = <<>>, !.rgt = rgt, !.stay = stay]
        IN
          /\ e \in FrameTypes /\ e.pass = Here.pass /\ e.node = Here.node /\ e.at = "left"
          /\ e.cur = Here.cur /\ e.done = Here.done /\ e.arr = <<>> /\ e.rgt = rgt /\ e.stay = stay
    BY <1>7, <2>1
  <2> QED
    BY <1>1, <1>2, <2>2
<1>9. DOMAIN Here.arr = 1 .. Len(Here.arr)
  BY <1>5
<1>10. Sent(lft, "Left") /\ Sent(f.rgt, "Right")
  <2>1. /\ \A k \in DOMAIN lft : \E i \in DOMAIN Here.arr :
             check_direction(Here.arr[i].relations, mp) = "Left" /\ lft[k] = Here.arr[i]
        /\ \A k \in DOMAIN rgt : \E i \in DOMAIN Here.arr :
             check_direction(Here.arr[i].relations, mp) = "Right" /\ rgt[k] = Here.arr[i]
    BY <1>5, <1>6, PickedFrom
  <2> QED
    BY <1>1, <1>8, <2>1 DEF Sent
<1>11. \A k \in DOMAIN f.stay : \E i \in DOMAIN Here.arr :
         f.stay[k] = Here.arr[i].filter /\ check_direction(Here.arr[i].relations, mp) = "Invalid"
  <2>1. \A k \in DOMAIN inv : \E i \in DOMAIN Here.arr :
          check_direction(Here.arr[i].relations, mp) = "Invalid" /\ inv[k] = Here.arr[i]
    BY <1>5, <1>6, PickedFrom
  <2> QED
    BY <1>7, <1>8, <2>1
<1>12. Handed(f, lft)
  <2>1. \A i \in DOMAIN Here.arr : IsLoose(heap, Here.arr[i].filter)
    BY <1>5 DEF CarriesOK
  <2>2. DOMAIN none = {}
    BY <1>1
  <2> QED
    BY <1>8, <1>10, <1>11, <2>1, <2>2 DEF Handed, CarriesOK, Sent
<1>13. IsWhole(heap[n]) /\ Here.cur = Null /\ DOMAIN heap[n].child = {1, 2}
  BY <1>3, <1>4, NodesTyped DEF PushShape, ArityOK
<1>14. 1 \in DOMAIN heap[n].child /\ heap[n].child[1] # Null /\ heap[n].child[1] \in DOMAIN heap
  BY <1>4, <1>13 DEF IsWhole
<1>15. ret = Null /\ Waits(f)
  BY <1>3, <1>4, <1>8 DEF Waits
<1>16. GoesDown(f, heap[n].child[1], lft)
  BY <1>3, <1>7, <1>8, <1>14 DEF GoesDown
<1>17. Pulls(1, f, lft)
  BY <1>1, <1>3, <1>4, <1>8, <1>12, <1>14, <1>15, <1>16 DEF Pulls
<1> QED
  BY <1>1, <1>3, <1>8, <1>10, <1>11, <1>13, <1>17

-----------------------------------------------------------------------------
(* The relations, step by step. *)

LEMMA RelsPulled ==
  ASSUME OptimizerInv, NEW k, NEW f, NEW arr, Pulls(k, f, arr), NEW B, RelsOK(B),
         \A j \in DOMAIN arr : EntryFits(arr[j], B[heap[Here.node].child[k]]),
         f.at = "left" =>
           /\ Sides(join_trie[f.node], B[heap[Here.node].child[k]], B[heap[f.node].child[2]])
           /\ k # 2 /\ 2 \in DOMAIN heap[f.node].child
           /\ \A j \in DOMAIN f.rgt : EntryFits(f.rgt[j], B[heap[f.node].child[2]]),
         f.at # "right",
         \A j \in DOMAIN f.stay : Sane => Reads(f.stay[j]) \subseteq B[f.node]
  PROVE  RelsOK(B)'
<1>1. /\ frames # <<>> /\ ret = Null /\ Quiet
      /\ k \in DOMAIN heap[Here.node].child /\ heap[Here.node].child[k] # Null
      /\ heap[Here.node].kind # "TableScan" /\ heap' = transfer_child(heap, Here.node, k)
      /\ GoesDown(f, heap[Here.node].child[k], arr)
      /\ f.node = Here.node /\ f.cur = Here.cur /\ Waits(f) /\ f.arr = <<>> /\ Handed(f, arr)
  BY DEF Pulls
<1> QED
  BY <1>1, RelsTaken

LEMMA RelsChoose ==
  ASSUME OptimizerInv, ChooseChild \/ ChooseJoinChild, NEW B, RelsOK(B)
  PROVE  RelsOK(B)'
<1>1. PICK f, none, k : /\ k = Here.done + 1 /\ none = <<>> /\ Pulls(k, f, none)
                        /\ f.at = "child" /\ f.rgt = none /\ f.stay = none
  BY ChooseIs
<1>2. DOMAIN none = {}
  BY <1>1
<1> QED
  BY <1>1, <1>2, RelsPulled

\* Every relation of a whole node is below one of its children.
LEMMA WholeRels ==
  ASSUME OptimizerInv, frames # <<>>, IsWhole(heap[Here.node]), NEW B, RelsOK(B)
  PROVE  /\ B[Here.node] = Gathered(heap, B, Here.node)
         /\ (Here.pass = "push" /\ heap[Here.node].kind = "BinaryJoin") =>
              Sides(join_trie[Here.node], B[heap[Here.node].child[1]], B[heap[Here.node].child[2]])
         /\ \A k \in DOMAIN Here.arr : EntryFits(Here.arr[k], B[Here.node])
<1>1. FrameRels(B, Here, ret) /\ NodeRels(B, Here.node)
  BY TopRels
<1> QED
  BY <1>1 DEF NodeRels, FrameRels, Pushing

LEMMA RelsPushProjection ==
  ASSUME OptimizerInv, PushProjection, NEW B, RelsOK(B)
  PROVE  RelsOK(B)'
<1>1. PICK f, n, c : /\ n = Here.node /\ c = heap[n].child[1]
                     /\ Pulls(1, f, Here.arr) /\ f.at = "child" /\ f.stay = <<>>
  BY PushProjectionIs
<1>2. heap[n].kind = "Projection" /\ IsWhole(heap[n]) /\ frames # <<>>
  BY <1>1, PushProjectionIs DEF Pulls
<1>3. DOMAIN heap[n].child = {1}
  BY <1>1, <1>2, HereOK, NodesTyped DEF OptimizerInv, ArityOK
<1>4. c # Null
  BY <1>1, <1>2, <1>3 DEF IsWhole
<1>5. Gathered(heap, B, n) = B[c]
  <2>1. \A rel : rel \in Gathered(heap, B, n) <=> rel \in B[c]
    BY <1>1, <1>2, <1>3, <1>4, GatheredIs
  <2>2. Gathered(heap, B, n) = UNION {B[d] : d \in {c}}
    <3>1. ChildrenOf(heap, n) \ {Null} = {c}
      BY <1>1, <1>3, <1>4 DEF ChildrenOf
    <3> QED
      BY <1>2, <3>1 DEF Gathered
  <2> QED
    BY <2>1, <2>2
<1>6. \A k \in DOMAIN Here.arr : EntryFits(Here.arr[k], B[c])
  BY <1>1, <1>2, <1>5, WholeRels
<1>7. DOMAIN f.stay = {}
  BY <1>1
<1>8. PICK arr : arr = Here.arr
  OBVIOUS
<1> QED
  BY <1>1, <1>6, <1>7, <1>8, RelsPulled

\* What a direction says of a filter's relations.
LEMMA DirectionReads ==
  ASSUME NEW mp, NEW relations, NEW dir \in {"Left", "Right"}, check_direction(relations, mp) = dir
  PROVE  /\ relations # <<>>
         /\ \A k \in DOMAIN relations : relations[k] \in DOMAIN mp /\ mp[relations[k]] = dir
<1>1. "Invalid" # dir
  OBVIOUS
<1> QED
  BY <1>1 DEF check_direction

LEMMA EntryGoes ==
  ASSUME NEW e, NEW rels, EntryFits(e, rels), NEW mp, NEW L, NEW R, Sides(mp, L, R)
  PROVE  /\ check_direction(e.relations, mp) = "Left" => EntryFits(e, L)
         /\ check_direction(e.relations, mp) = "Right" => EntryFits(e, R)
<1>1. /\ e.relations = RelationsOf(heap[e.filter].cond)
      /\ DOMAIN mp = L \cup R /\ \A rel \in L \cup R :
           mp[rel] = IF rel \in R THEN "Right" ELSE "Left"
  BY DEF EntryFits, Sides
<1>2. /\ DOMAIN e.relations = DOMAIN heap[e.filter].cond.cols
      /\ \A i \in DOMAIN e.relations : e.relations[i] = heap[e.filter].cond.cols[i].relation
  BY <1>1 DEF RelationsOf
<1>3. \A rel \in Reads(e.filter) : \E i \in DOMAIN e.relations : rel = e.relations[i]
  BY <1>2 DEF Reads
<1>4. CASE check_direction(e.relations, mp) = "Left"
  <2>1. \A i \in DOMAIN e.relations : e.relations[i] \in DOMAIN mp /\ mp[e.relations[i]] = "Left"
    BY <1>4, DirectionReads
  <2>2. Reads(e.filter) \subseteq L
    BY <1>1, <1>3, <2>1
  <2> QED
    BY <1>1, <1>4, <2>2 DEF EntryFits
<1>5. CASE check_direction(e.relations, mp) = "Right"
  <2>1. \A i \in DOMAIN e.relations : e.relations[i] \in DOMAIN mp /\ mp[e.relations[i]] = "Right"
    BY <1>5, DirectionReads
  <2>2. Reads(e.filter) \subseteq R
    BY <1>1, <1>3, <2>1
  <2> QED
    BY <1>1, <1>5, <2>2 DEF EntryFits
<1> QED
  BY <1>4, <1>5

LEMMA RelsPushJoin ==
  ASSUME OptimizerInv, PushJoin, NEW B, RelsOK(B)
  PROVE  RelsOK(B)'
<1>1. PICK f, lft, n, c :
        /\ n = Here.node /\ c = heap[n].child[1]
        /\ Pulls(1, f, lft) /\ f.at = "left" /\ Sent(lft, "Left") /\ Sent(f.rgt, "Right")
        /\ \A k \in DOMAIN f.stay : \E i \in DOMAIN Here.arr : f.stay[k] = Here.arr[i].filter
  BY PushJoinIs
<1>2. /\ heap[n].kind = "BinaryJoin" /\ IsWhole(heap[n]) /\ frames # <<>> /\ Here.pass = "push"
      /\ DOMAIN heap[n].child = {1, 2} /\ f.node = n
  BY <1>1, PushJoinIs DEF Pulls
<1>3. /\ Sides(join_trie[n], B[c], B[heap[n].child[2]])
      /\ \A k \in DOMAIN Here.arr : EntryFits(Here.arr[k], B[n])
  BY <1>1, <1>2, WholeRels
<1>4. \A j \in DOMAIN lft : EntryFits(lft[j], B[c])
  BY <1>1, <1>3, EntryGoes DEF Sent
<1>5. \A j \in DOMAIN f.rgt : EntryFits(f.rgt[j], B[heap[n].child[2]])
  BY <1>1, <1>3, EntryGoes DEF Sent
<1>6. \A j \in DOMAIN f.stay : Sane => Reads(f.stay[j]) \subseteq B[n]
  BY <1>1, <1>3 DEF EntryFits
<1> QED
  BY <1>1, <1>2, <1>3, <1>4, <1>5, <1>6, RelsPulled

-----------------------------------------------------------------------------
(* A result comes back. *)

\* The chosen child is set, and the pass goes on with the same node, or the node is given back.
SetsBack(k) ==
  /\ Back(k) /\ Quiet
  /\ (Here.pass = "push" /\ heap[Here.node].kind = "BinaryJoin") => Here.at = "right"
  /\ (Here.pass = "choose" /\ heap[Here.node].kind \in {"Filter", "Projection", "BinaryJoin"}) =>
       k = Here.done + 1
  /\ Here.pass = "push" => heap[Here.node].kind # "Filter"

GoesOnAt(k, f) ==
  /\ Goes(f) /\ f.node = Here.node /\ f.cur = Null /\ f.arr = <<>> /\ f.stay = Here.stay
  /\ root' = root /\ ret' = Null
  /\ \/ Here.pass = "choose" /\ f.at = "enter" /\ f.done = k
     \/ Here.pass = "push" /\ f.at = "wrap" /\ heap[Here.node].kind = "BinaryJoin"

LEMMA SetChildIs ==
  ASSUME OptimizerInv, ChooseSetChild
  PROVE  LET k == Here.done + 1
         IN  /\ SetsBack(k) /\ Here.pass = "choose"
             /\ \/ GiveBack(Here.node) /\ k = Len(heap[Here.node].child)
                \/ \E f : GoesOnAt(k, f)
<1>1. PICK f, k, n, none : /\ f = [Here EXCEPT !.at = "enter", !.done = @ + 1] /\ k = Here.done + 1
                           /\ n = Here.node /\ none = <<>>
  OBVIOUS
<1>2. /\ frames # none /\ Here.pass = "choose" /\ Here.at = "child"
      /\ heap[n].kind \in {"Filter", "Projection", "BinaryJoin"}
      /\ heap' = set_child(heap, n, k, ret) /\ Quiet
      /\ \/ Continue(f) /\ ret' = Null /\ UNCHANGED <<root, outcome>>
         \/ GiveBack(n) /\ ~(k < Len(heap[n].child))
  BY <1>1 DEF ChooseSetChild, In
<1>3. /\ heap \in Seq(HeapNodes) /\ n \in DOMAIN heap /\ Here \in FrameTypes
      /\ ChooseShape(Here, heap[n])
  BY <1>1, <1>2, HereOK DEF OptimizerInv
<1>4. Here.done \in Nat /\ heap[n].child \in Seq(Nat)
  BY <1>3, FrameTyped, NodesTyped
<1>5. /\ f \in FrameTypes /\ f.pass = Here.pass /\ f.node = n /\ f.at = "enter"
      /\ f.cur = Here.cur /\ f.done = k /\ f.arr = Here.arr /\ f.stay = Here.stay
  BY <1>1, <1>3, FrameAdvanced
<1>6. /\ Here.arr = none /\ Here.cur = Null /\ Here.done < Len(heap[n].child)
      /\ \A j \in DOMAIN heap[n].child : heap[n].child[j] = Null <=> j = k
  BY <1>1, <1>2, <1>3 DEF ChooseShape
<1>7. k \in DOMAIN heap[n].child
  BY <1>1, <1>4, <1>6
<1>8. Waits(Here) /\ k = WaitsFor(Here)
  BY <1>1, <1>2 DEF Waits, WaitsFor
<1>9. Back(k)
  BY <1>1, <1>2, <1>6, <1>7, <1>8 DEF Back
<1>10. SetsBack(k)
  BY <1>1, <1>2, <1>9 DEF SetsBack
<1>11. (GiveBack(n) /\ ~(k < Len(heap[n].child))) \/ GoesOnAt(k, f)
  BY <1>1, <1>2, <1>5, <1>6 DEF GoesOnAt, Goes
<1>12. k < Len(heap[n].child) \/ k = Len(heap[n].child)
  BY <1>1, <1>4, <1>6
<1> QED
  BY <1>1, <1>2, <1>10, <1>11, <1>12

LEMMA PushProjectionEndIs ==
  ASSUME OptimizerInv, PushProjectionEnd
  PROVE  /\ SetsBack(1) /\ GiveBack(Here.node)
         /\ Here.pass = "push" /\ heap[Here.node].kind = "Projection"
<1>1. PICK n, none : n = Here.node /\ none = <<>>
  OBVIOUS
<1>2. /\ frames # none /\ Here.pass = "push" /\ Here.at = "child"
      /\ heap[n].kind = "Projection" /\ heap' = set_child(heap, n, 1, ret) /\ Quiet /\ GiveBack(n)
  BY <1>1 DEF PushProjectionEnd, In
<1>3. /\ heap \in Seq(HeapNodes) /\ n \in DOMAIN heap
      /\ PushShape(Here, heap[n]) /\ ArityOK(heap[n])
  BY <1>1, <1>2, HereOK DEF OptimizerInv
<1>4. Here.cur = Null /\ heap[n].child[1] = Null /\ Here.done = 0
  BY <1>1, <1>2, <1>3 DEF PushShape
<1>5. DOMAIN heap[n].child = {1}
  BY <1>2, <1>3, NodesTyped DEF ArityOK
<1>6. Waits(Here) /\ 1 = WaitsFor(Here)
  BY <1>2, <1>4 DEF Waits, WaitsFor
<1>7. Back(1)
  BY <1>1, <1>2, <1>4, <1>5, <1>6 DEF Back
<1>8. SetsBack(1)
  BY <1>1, <1>2, <1>7 DEF SetsBack
<1> QED
  BY <1>1, <1>2, <1>8

LEMMA PushJoinEndIs ==
  ASSUME OptimizerInv, PushJoinEnd
  PROVE  /\ SetsBack(2) /\ Here.pass = "push" /\ heap[Here.node].kind = "BinaryJoin"
         /\ Here.at = "right" /\ \E f : GoesOnAt(2, f) /\ f.at = "wrap"
<1>1. PICK f, n, none : f = [Here EXCEPT !.at = "wrap"] /\ n = Here.node /\ none = <<>>
  OBVIOUS
<1>2. /\ frames # none /\ Here.pass = "push" /\ Here.at = "right"
      /\ heap[n].kind = "BinaryJoin" /\ heap' = set_child(heap, n, 2, ret) /\ Quiet
      /\ Continue(f) /\ ret' = Null /\ UNCHANGED <<root, outcome>>
  BY <1>1 DEF PushJoinEnd, In
<1>3. /\ heap \in Seq(HeapNodes) /\ n \in DOMAIN heap
      /\ PushShape(Here, heap[n]) /\ ArityOK(heap[n])
      /\ Here \in FrameTypes
  BY <1>1, <1>2, HereOK DEF OptimizerInv
<1>4. /\ f \in FrameTypes /\ f.pass = Here.pass /\ f.node = n /\ f.at = "wrap"
      /\ f.cur = Here.cur /\ f.arr = Here.arr /\ f.stay = Here.stay
  BY <1>1, <1>3, FrameJoined
<1>5. /\ Here.arr = none /\ Here.cur = Null
      /\ heap[n].child[2] = Null /\ heap[n].child[1] # Null /\ Here.done = 0
  BY <1>1, <1>2, <1>3 DEF PushShape
<1>6. DOMAIN heap[n].child = {1, 2}
  BY <1>2, <1>3, NodesTyped DEF ArityOK
<1>7. Waits(Here) /\ 2 = WaitsFor(Here)
  BY <1>2 DEF Waits, WaitsFor
<1>8. Back(2)
  BY <1>1, <1>2, <1>5, <1>6, <1>7 DEF Back
<1>9. SetsBack(2)
  BY <1>1, <1>2, <1>8 DEF SetsBack
<1>10. GoesOnAt(2, f)
  BY <1>1, <1>2, <1>4, <1>5 DEF GoesOnAt, Goes
<1> QED
  BY <1>1, <1>2, <1>4, <1>9, <1>10

LEMMA BackIs ==
  ASSUME OptimizerInv, NEW k, SetsBack(k), outcome' \in {outcome, Here.pass}
  PROVE  /\ frames # <<>> /\ ret # Null /\ ret \in DOMAIN heap /\ ret # Here.node
         /\ Changes(Here.node) /\ DOMAIN heap' = DOMAIN heap /\ Here.node \in DOMAIN heap
         /\ SameBut(heap', heap, Here.node) /\ heap'[Here.node].schema = heap[Here.node].schema
         /\ IsWhole(heap'[Here.node]) /\ k \in DOMAIN heap[Here.node].child
         /\ heap[Here.node].child[k] = Null
         /\ \A j \in DOMAIN heap[Here.node].child :
              heap'[Here.node].child[j] = IF j = k THEN ret ELSE heap[Here.node].child[j]
         /\ heap[Here.node].kind \in {"Filter", "Projection", "BinaryJoin"} /\ Here.cur = Null
         /\ Waits(Here)
<1>1. Back(k) /\ Quiet
  BY DEF SetsBack
<1>2. /\ Writes(Here.node, k, ret) /\ IsWhole(heap'[Here.node])
      /\ heap'[Here.node].schema = heap[Here.node].schema
  BY <1>1, BackKeeps
<1>3. /\ SameBut(heap', heap, Here.node) /\ k \in DOMAIN heap[Here.node].child
      /\ \A j \in DOMAIN heap[Here.node].child :
           heap'[Here.node].child[j] = IF j = k THEN ret ELSE heap[Here.node].child[j]
  BY <1>2 DEF Writes, WritesIn
<1>4. /\ frames # <<>> /\ Waits(Here) /\ heap[Here.node].child[k] = Null /\ Here.cur = Null
      /\ heap[Here.node].kind \in {"Filter", "Projection", "BinaryJoin"}
  BY <1>1 DEF Back
<1>5. ret # Null
  BY <1>4, HereOK DEF OptimizerInv
<1>6. ret \in DOMAIN heap /\ ret # Here.node
  BY <1>4, <1>5, RetIs, NodeOnTop DEF OptimizerInv
<1> QED
  BY <1>2, <1>3, <1>4, <1>5, <1>6, ChangesHere

LEMMA NodeSet ==
  ASSUME OptimizerInv, NEW k, SetsBack(k), outcome' \in {outcome, Here.pass}, NEW B, RelsOK(B),
         Pushing' => Pushing
  PROVE  \A m \in DOMAIN heap' : (m \notin DOMAIN heap \/ m = Here.node)
           => (Live(m)' => NodeRels(B, m)')
<1>1. PICK n : n = Here.node
  OBVIOUS
<1>2. /\ frames # <<>> /\ ret # Null /\ DOMAIN heap' = DOMAIN heap /\ n \in DOMAIN heap
      /\ SameBut(heap', heap, n) /\ heap'[n].schema = heap[n].schema
      /\ IsWhole(heap'[n]) /\ k \in DOMAIN heap[n].child /\ heap[n].child[k] = Null
      /\ \A j \in DOMAIN heap[n].child : heap'[n].child[j] = IF j = k THEN ret ELSE heap[n].child[j]
      /\ heap[n].kind \in {"Filter", "Projection", "BinaryJoin"} /\ Here.cur = Null /\ Waits(Here)
  BY <1>1, BackIs
<1>3. heap'[n].kind = heap[n].kind /\ heap'[n].cond = heap[n].cond
      /\ DOMAIN heap'[n].child = DOMAIN heap[n].child
  BY <1>2 DEF SameBut
<1>4. given' = given /\ join_trie' = join_trie
  BY DEF SetsBack, Quiet
<1>5. Sane' = Sane /\ Reads(n)' = Reads(n)
  BY <1>3, <1>4 DEF Sane, Reads
<1>6. /\ B[n] = Gathered(heap, B, n) \cup Taken(B, Here, ret)
      /\ FrameRels(B, Here, ret) /\ NodeRels(B, n)
  BY <1>1, <1>2, TopRels
<1>7. B[n] = Gathered(heap', B, n)
  <2>1. Taken(B, Here, ret) = B[ret]
    BY <1>2 DEF Taken
  <2>2. k \in DOMAIN heap'[n].child /\ heap'[n].child[k] = ret
        /\ \A j \in DOMAIN heap'[n].child : j # k => heap[n].child[j] = heap'[n].child[j]
    BY <1>2, <1>3
  <2>3. Gathered(heap', B, n) = Gathered(heap, B, n) \cup B[heap'[n].child[k]]
    BY <1>2, <1>3, <2>2, GatheredLess
  <2> QED
    BY <1>6, <2>1, <2>2, <2>3
<1>8. ASSUME Pushing, heap[n].kind = "BinaryJoin"
      PROVE  Sides(join_trie[n], B[heap'[n].child[1]], B[heap'[n].child[2]])
  <2>1. Here.pass = "push"
    BY <1>2, <1>8 DEF Pushing
  <2>2. Here.at = "right"
    BY <1>1, <1>8, <2>1 DEF SetsBack
  <2>3. Sides(join_trie[n], B[heap[n].child[1]], B[ret])
    BY <1>1, <1>6, <2>2 DEF FrameRels
  <2>4. k = 2
    BY <2>2 DEF SetsBack, Back, WaitsFor
  <2>5. DOMAIN heap[n].child = {1, 2}
    BY <1>1, <1>2, <1>8, HereOK, NodesTyped DEF OptimizerInv, ArityOK
  <2>6. heap'[n].child[1] = heap[n].child[1] /\ heap'[n].child[2] = ret
    BY <1>2, <2>4, <2>5
  <2> QED
    BY <2>3, <2>6
<1>9. NodeRels(B, n)'
  BY <1>2, <1>3, <1>4, <1>5, <1>6, <1>7, <1>8 DEF NodeRels
<1> QED
  BY <1>1, <1>2, <1>9

LEMMA RelsSetBack ==
  ASSUME OptimizerInv, NEW k, SetsBack(k), GiveBack(Here.node), NEW B, RelsOK(B)
  PROVE  RelsOK(B)'
<1>1. frames # <<>> /\ frames \in Seq(FrameTypes)
  BY HereOK DEF SetsBack, Back, OptimizerInv
<1>2. outcome' \in {outcome, Here.pass}
  BY <1>1, GivenBack
<1>3. Changes(Here.node) /\ Quiet
  BY <1>2, BackIs DEF SetsBack
<1>4. Pushing' => Pushing
  BY <1>1, <1>3, SteadyBack DEF Steady
<1>5. \A m \in DOMAIN heap' : (m \notin DOMAIN heap \/ m = Here.node)
      => (Live(m)' => NodeRels(B, m)')
  BY <1>2, <1>4, NodeSet
<1> QED
  BY <1>1, <1>3, <1>5, RelsBack

LEMMA RelsGoesOn ==
  ASSUME OptimizerInv, NEW k, SetsBack(k), NEW f, GoesOnAt(k, f), NEW B, RelsOK(B)
  PROVE  RelsOK(B)'
<1>1. frames # <<>> /\ outcome' = outcome /\ Goes(f)
  BY DEF SetsBack, Back, GoesOnAt, Goes
<1>2. Changes(Here.node) /\ Quiet /\ SameBut(heap', heap, Here.node)
  BY <1>1, BackIs DEF SetsBack
<1>3. Pushing' => Pushing
  BY <1>1, <1>2, SteadyGoes DEF Steady
<1>4. \A m \in DOMAIN heap' : (m \notin DOMAIN heap \/ m = Here.node)
      => (Live(m)' => NodeRels(B, m)')
  BY <1>1, <1>3, NodeSet
<1>5. FrameRels(B, f, ret)'
  <2>1. ~Waits(f) /\ f.cur = Null /\ DOMAIN f.arr = {} /\ f.at \notin {"left", "right"}
    BY DEF GoesOnAt, Waits
  <2>2. f.node = Here.node /\ f.stay = Here.stay
    BY DEF GoesOnAt
  <2>3. \A j \in DOMAIN f.stay : Sane => Reads(f.stay[j]) \subseteq B[f.node]
    BY <1>1, <2>2, TopRels DEF FrameRels
  <2>4. \A j \in DOMAIN f.stay : f.stay[j] \in DOMAIN heap
    BY <1>1, <2>2, HereOK DEF OptimizerInv, FrameOK, CarriesOK, IsLoose
  <2>5. Sane' = Sane /\ \A m \in DOMAIN heap : Reads(m)' = Reads(m)
    BY <1>2 DEF Sane, Reads, Quiet, Changes
  <2> QED
    BY <2>1, <2>3, <2>4, <2>5 DEF FrameRels
<1> QED
  BY <1>1, <1>2, <1>4, <1>5, RelsGoes DEF GoesOnAt

LEMMA PushJoinRightIs ==
  ASSUME OptimizerInv, PushJoinRight
  PROVE  /\ frames # <<>> /\ Here.pass = "push" /\ Here.at = "left" /\ Here.cur = Null
         /\ heap[Here.node].kind = "BinaryJoin" /\ DOMAIN heap[Here.node].child = {1, 2}
         /\ heap[Here.node].child[1] = Null /\ heap[Here.node].child[2] # Null
         /\ SameBut(heap', heap, Here.node) /\ heap'[Here.node].schema = heap[Here.node].schema
         /\ heap'[Here.node].child[1] = ret /\ heap'[Here.node].child[2] = Null
         /\ ret # Null /\ Quiet /\ root' = root /\ ret' = Null
         /\ \E f : /\ GoesDown(f, heap[Here.node].child[2], Here.rgt)
                   /\ f.node = Here.node /\ f.at = "right" /\ f.cur = Null
                   /\ f.arr = <<>> /\ f.stay = Here.stay
         /\ \A k \in DOMAIN Here.rgt : Here.rgt[k].filter \in DOMAIN heap
         /\ \A k \in DOMAIN Here.stay : Here.stay[k] \in DOMAIN heap
<1>1. PICK n, h, f, none : /\ n = Here.node /\ h = set_child(heap, n, 1, ret)
                           /\ f = [Here EXCEPT !.at = "right", !.rgt = <<>>] /\ none = <<>>
  OBVIOUS
<1>2. /\ frames # none /\ Here.pass = "push" /\ Here.at = "left" /\ heap[n].kind = "BinaryJoin"
      /\ heap' = transfer_child(h, n, 2) /\ Recurse(f, heap[n].child[2], Here.rgt)
      /\ ret' = Null /\ UNCHANGED <<root, outcome>> /\ Quiet
  BY <1>1 DEF PushJoinRight, In
<1>3. /\ heap \in Seq(HeapNodes) /\ n \in DOMAIN heap
      /\ Here \in FrameTypes /\ FrameOK(Here, heap) /\ Here.cur \in {Null} \cup DOMAIN heap
      /\ PushShape(Here, heap[n]) /\ ArityOK(heap[n]) /\ (Waits(Here) <=> ret # Null)
      /\ \A j \in DOMAIN heap[n].child : heap[n].child[j] \in {Null} \cup DOMAIN heap
  BY <1>1, <1>2, HereOK DEF OptimizerInv
<1>4. /\ f \in FrameTypes /\ f.pass = Here.pass /\ f.node = n /\ f.at = "right"
      /\ f.cur = Here.cur /\ f.done = Here.done /\ f.arr = Here.arr /\ f.rgt = none
      /\ f.stay = Here.stay
  BY <1>1, <1>3, FrameTurned
<1>5. DOMAIN heap[n].child = {1, 2}
  BY <1>2, <1>3, NodesTyped DEF ArityOK
<1>6. /\ Here.arr = none /\ Here.cur = Null /\ Here.done = 0
      /\ heap[n].child[1] = Null /\ heap[n].child[2] # Null /\ Here.rgt \in Seq(FilterEntries)
  BY <1>1, <1>2, <1>3, FrameTyped DEF PushShape
<1>7. Waits(Here) /\ WaitsFor(Here) = 1 /\ ret # Null
  BY <1>2, <1>3 DEF Waits, WaitsFor
<1>8. WritesIn(heap, h, n, 1, ret) /\ SameSchemas(h, heap)
  BY <1>1, <1>2, <1>5, <1>6, <1>7, ComesBack
<1>9. /\ h \in Seq(HeapNodes) /\ n \in DOMAIN h /\ SameBut(h, heap, n)
      /\ DOMAIN h[n].child = {1, 2} /\ h[n].child[1] = ret /\ h[n].schema = heap[n].schema
  BY <1>3, <1>5, <1>8 DEF WritesIn, SameBut, SameSchemas
<1>10. /\ SameBut(heap', h, n) /\ heap'[n].schema = h[n].schema
       /\ \A j \in DOMAIN h[n].child : heap'[n].child[j] = IF j = 2 THEN Null ELSE h[n].child[j]
  BY <1>2, <1>9, Transferred
<1>11. heap'[n].child[1] = ret /\ heap'[n].child[2] = Null /\ SameBut(heap', heap, n)
  <2>1. heap'[n].child[1] = ret /\ heap'[n].child[2] = Null
    BY <1>9, <1>10
  <2>2. SameBut(heap', heap, n)
    BY <1>9, <1>10 DEF SameBut
  <2> QED
    BY <2>1, <2>2
<1>12. GoesDown(f, heap[n].child[2], Here.rgt)
  BY <1>2, <1>3, <1>4, <1>5, <1>6 DEF GoesDown
<1>13. /\ \A k \in DOMAIN Here.rgt : Here.rgt[k].filter \in DOMAIN heap
       /\ \A k \in DOMAIN Here.stay : Here.stay[k] \in DOMAIN heap
  BY <1>3 DEF FrameOK, CarriesOK, IsLoose
<1>14. heap'[n].schema = heap[n].schema
  BY <1>9, <1>10
<1>15. \E g : /\ GoesDown(g, heap[n].child[2], Here.rgt)
             /\ g.node = n /\ g.at = "right" /\ g.cur = Null /\ g.arr = none /\ g.stay = Here.stay
  BY <1>4, <1>6, <1>12
<1> QED
  BY <1>1, <1>2, <1>5, <1>6, <1>7, <1>11, <1>13, <1>14, <1>15

LEMMA RelsPushJoinRight ==
  ASSUME OptimizerInv, PushJoinRight, NEW B, RelsOK(B)
  PROVE  RelsOK(B)'
<1>1. PICK n, c, none : n = Here.node /\ c = heap[n].child[2] /\ none = <<>>
  OBVIOUS
<1>2. PICK f : /\ GoesDown(f, c, Here.rgt) /\ f.node = n /\ f.at = "right" /\ f.cur = Null
               /\ f.arr = none /\ f.stay = Here.stay
  BY <1>1, PushJoinRightIs
<1>3. /\ frames # <<>> /\ Here.at = "left" /\ Here.cur = Null
      /\ heap[n].kind = "BinaryJoin" /\ DOMAIN heap[n].child = {1, 2}
      /\ heap[n].child[1] = Null /\ c # Null
      /\ SameBut(heap', heap, n) /\ heap'[n].schema = heap[n].schema
      /\ heap'[n].child[1] = ret /\ heap'[n].child[2] = Null
      /\ ret # Null /\ Quiet
      /\ \A k \in DOMAIN Here.rgt : Here.rgt[k].filter \in DOMAIN heap
      /\ \A k \in DOMAIN Here.stay : Here.stay[k] \in DOMAIN heap
  BY <1>1, PushJoinRightIs
<1>4. Changes(n) /\ DOMAIN heap'[n].child = {1, 2} /\ heap'[n].kind = "BinaryJoin"
      /\ \A m \in DOMAIN heap : heap'[m].cond = heap[m].cond
  BY <1>1, <1>3, ChangesHere DEF SameBut
<1>5. \A m \in DOMAIN heap' : (m \notin DOMAIN heap \/ m = n) => (Live(m)' => NodeRels(B, m)')
  <2>1. ~IsWhole(heap'[n])
    BY <1>3, <1>4 DEF IsWhole
  <2> QED
    BY <1>1, <1>3, <2>1, NodeOpened DEF Quiet
<1>6. B[n] = Gathered(heap, B, n) \cup B[ret] /\ FrameRels(B, Here, ret)
  <2>1. B[n] = Gathered(heap, B, n) \cup Taken(B, Here, ret) /\ FrameRels(B, Here, ret)
    BY <1>1, <1>3, TopRels
  <2> QED
    BY <1>3, <2>1 DEF Taken, Waits
<1>7. B[n] = Gathered(heap', B, n) \cup Taken(B, f, c)
  <2>1. \A rel : rel \in Gathered(heap, B, n) <=> rel \in B[c]
    <3>1. \A rel : rel \in Gathered(heap, B, n) <=>
            \E k \in DOMAIN heap[n].child : heap[n].child[k] # Null /\ rel \in B[heap[n].child[k]]
      BY <1>3, GatheredIs
    <3> QED
      BY <1>1, <1>3, <3>1
  <2>2. \A rel : rel \in Gathered(heap', B, n) <=> rel \in B[ret]
    <3>1. \A rel : rel \in Gathered(heap', B, n) <=>
            \E k \in DOMAIN heap'[n].child :
              heap'[n].child[k] # Null /\ rel \in B[heap'[n].child[k]]
      BY <1>4, GatheredIs
    <3> QED
      BY <1>3, <1>4, <3>1
  <2>3. Taken(B, f, c) = B[c]
    BY <1>2 DEF Taken, Waits
  <2>4. \A X, Y, U, V : (/\ \A rel : rel \in U <=> rel \in X
                         /\ \A rel : rel \in V <=> rel \in Y) => U \cup Y = V \cup X
    OBVIOUS
  <2> QED
    BY <1>6, <2>1, <2>2, <2>3, <2>4
<1>8. Sane' = Sane /\ join_trie' = join_trie /\ \A m \in DOMAIN heap : Reads(m)' = Reads(m)
  BY <1>3, <1>4 DEF Sane, Quiet, Reads
<1>9. /\ Sides(join_trie[n], B[ret], B[c])
      /\ \A k \in DOMAIN Here.rgt : EntryFits(Here.rgt[k], B[c])
      /\ \A k \in DOMAIN Here.stay : Sane => Reads(Here.stay[k]) \subseteq B[n]
  BY <1>1, <1>3, <1>6 DEF FrameRels
<1>10. PICK rgt : rgt = Here.rgt
  OBVIOUS
<1>11. \A k \in DOMAIN rgt : EntryFits(rgt[k], B[c])'
  BY <1>3, <1>4, <1>8, <1>9, <1>10 DEF EntryFits
<1>12. FrameRels(B, f, c)'
  <2>1. Sides(join_trie'[n], B[heap'[n].child[1]], B[c])
    BY <1>3, <1>8, <1>9
  <2>2. DOMAIN f.arr = {}
    BY <1>1, <1>2
  <2>3. \A k \in DOMAIN f.stay : Sane' => Reads(f.stay[k])' \subseteq B[n]
    BY <1>2, <1>3, <1>8, <1>9
  <2> QED
    BY <1>2, <1>7, <2>1, <2>2, <2>3 DEF FrameRels
<1> QED
  BY <1>1, <1>2, <1>3, <1>4, <1>5, <1>10, <1>11, <1>12, RelsDown

(* The filter goes into filter_arr. *)
LEMMA ArrAppended ==
  ASSUME NEW f \in FrameTypes, NEW n \in Nat, NEW c \in Nat, NEW cond \in Conditions
  PROVE  \A k \in DOMAIN Filtered(f, n, c, cond).arr :
            \/ Filtered(f, n, c, cond).arr[k] = [filter |-> n, relations |-> RelationsOf(cond)]
            \/ k \in DOMAIN f.arr /\ Filtered(f, n, c, cond).arr[k] = f.arr[k]
<1>1. f.arr \in Seq(FilterEntries) /\ RelationsOf(cond) \in Seq(STRING)
  BY FrameTyped, RelationsTyped
<1> DEFINE e == [filter |-> n, relations |-> RelationsOf(cond)]
<1>2. e \in FilterEntries
  BY <1>1 DEF FilterEntries
<1>3. Filtered(f, n, c, cond).arr = Append(f.arr, e)
  BY DEF Filtered, FrameTypes
<1> HIDE DEF e
<1>4. \A k \in DOMAIN Append(f.arr, e) :
      Append(f.arr, e)[k] = e \/ (k \in DOMAIN f.arr /\ Append(f.arr, e)[k] = f.arr[k])
  BY <1>1, <1>2
<1> QED
  BY <1>3, <1>4 DEF e

LEMMA PushFilterIs ==
  ASSUME OptimizerInv, PushFilter
  PROVE  LET n == Here.node
             c == heap[n].child[1]
         IN  /\ frames # <<>> /\ Here.pass = "push" /\ Here.at = "enter"
             /\ n \in DOMAIN heap /\ heap[n].kind = "Filter" /\ IsWhole(heap[n]) /\ Here.cur = Null
             /\ DOMAIN heap[n].child = {1} /\ c # Null /\ c \in DOMAIN heap /\ c # n
             /\ IsWhole(heap[c]) /\ Live(c)
             /\ SameBut(heap', heap, n) /\ heap'[n].schema = heap[n].schema
             /\ heap'[n].child[1] = Null /\ ret = Null /\ Quiet /\ UNCHANGED <<root, ret>>
             /\ \A k \in DOMAIN Here.arr : Here.arr[k].filter \in DOMAIN heap
             /\ \E f : /\ Goes(f) /\ f.node = c /\ f.at = "enter" /\ f.cur = Null
                       /\ f.stay = <<>> /\ f.done = Here.done
                       /\ \A k \in DOMAIN f.arr :
                            \/ f.arr[k].filter = n /\ f.arr[k].relations = RelationsOf(heap[n].cond)
                            \/ k \in DOMAIN Here.arr /\ f.arr[k] = Here.arr[k]
<1>1. PICK n, c, none : n = Here.node /\ c = heap[n].child[1] /\ none = <<>>
  OBVIOUS
<1>2. PICK f : f = Filtered(Here, n, c, heap[n].cond)
  OBVIOUS
<1>3. /\ frames # none /\ Here.pass = "push" /\ Here.at = "enter" /\ heap[n].kind = "Filter"
      /\ heap' = transfer_child(heap, n, 1) /\ Continue(f)
      /\ root' = root /\ ret' = ret /\ outcome' = outcome /\ Quiet
  BY <1>1, <1>2 DEF PushFilter, In, Filtered
<1>4. /\ heap \in Seq(HeapNodes) /\ n \in DOMAIN heap /\ Here \in FrameTypes
      /\ PushShape(Here, heap[n]) /\ ArityOK(heap[n]) /\ FrameOK(Here, heap)
      /\ (Waits(Here) <=> ret # Null)
  BY <1>1, <1>3, HereOK DEF OptimizerInv
<1>5. DOMAIN heap[n].child = {1} /\ n \in Nat /\ heap[n].cond \in Conditions
  BY <1>3, <1>4, NodesTyped DEF ArityOK
<1>6. IsWhole(heap[n]) /\ Here.cur = Null /\ Here.stay = none /\ ret = Null
  BY <1>1, <1>3, <1>4 DEF PushShape, Waits
<1>7. c # Null /\ c \in DOMAIN heap /\ Live(c) /\ IsWhole(heap[c]) /\ c # n /\ c \in Nat
  <2>1. c # Null
    BY <1>1, <1>5, <1>6 DEF IsWhole
  <2> QED
    BY <1>1, <1>3, <1>5, <2>1, ChildIs DEF OptimizerInv
<1>8. /\ SameBut(heap', heap, n) /\ heap'[n].schema = heap[n].schema /\ heap'[n].child[1] = Null
  BY <1>3, <1>4, <1>5, Transferred
<1>9. PICK cond \in Conditions : cond = heap[n].cond
  BY <1>5
<1>10. f = Filtered(Here, n, c, cond)
  BY <1>2, <1>9
<1>11. EntryIn(Here, f, n, c)
  BY <1>4, <1>5, <1>7, <1>9, <1>10, EntryAdded
<1>12. \A k \in DOMAIN f.arr :
         \/ f.arr[k].filter = n /\ f.arr[k].relations = RelationsOf(heap[n].cond)
         \/ k \in DOMAIN Here.arr /\ f.arr[k] = Here.arr[k]
  <2>1. \A k \in DOMAIN Filtered(Here, n, c, cond).arr :
          \/ Filtered(Here, n, c, cond).arr[k] = [filter |-> n, relations |-> RelationsOf(cond)]
          \/ k \in DOMAIN Here.arr /\ Filtered(Here, n, c, cond).arr[k] = Here.arr[k]
    BY <1>4, <1>5, <1>7, ArrAppended
  <2>2. \A k \in DOMAIN f.arr :
          \/ f.arr[k] = [filter |-> n, relations |-> RelationsOf(cond)]
          \/ k \in DOMAIN Here.arr /\ f.arr[k] = Here.arr[k]
    BY <1>10, <2>1
  <2> QED
    BY <1>9, <2>2
<1>13. /\ Goes(f) /\ f.node = c /\ f.at = "enter"
       /\ f.cur = Null /\ f.stay = none /\ f.done = Here.done
  BY <1>3, <1>6, <1>11 DEF Goes, EntryIn
<1>14. \A k \in DOMAIN Here.arr : Here.arr[k].filter \in DOMAIN heap
  BY <1>4 DEF FrameOK, CarriesOK, IsLoose
<1> QED
  BY <1>1, <1>3, <1>4, <1>5, <1>6, <1>7, <1>8, <1>12, <1>13, <1>14

LEMMA RelsPushFilter ==
  ASSUME OptimizerInv, PushFilter, NEW B, RelsOK(B)
  PROVE  RelsOK(B)'
<1>1. PICK n, c, none : n = Here.node /\ c = heap[n].child[1] /\ none = <<>>
  OBVIOUS
<1>2. /\ frames # <<>> /\ heap[n].kind = "Filter" /\ IsWhole(heap[n]) /\ Here.cur = Null
      /\ n \in DOMAIN heap /\ DOMAIN heap[n].child = {1} /\ c # Null
      /\ SameBut(heap', heap, n) /\ heap'[n].schema = heap[n].schema
      /\ heap'[n].child[1] = Null /\ ret = Null /\ Quiet
      /\ \A k \in DOMAIN Here.arr : Here.arr[k].filter \in DOMAIN heap
  BY <1>1, PushFilterIs
<1>3. PICK f : /\ Goes(f) /\ f.node = c /\ f.at = "enter" /\ f.cur = Null /\ f.stay = none
               /\ \A k \in DOMAIN f.arr :
                    \/ f.arr[k].filter = n /\ f.arr[k].relations = RelationsOf(heap[n].cond)
                    \/ k \in DOMAIN Here.arr /\ f.arr[k] = Here.arr[k]
  BY <1>1, PushFilterIs
<1>4. Changes(n) /\ DOMAIN heap'[n].child = {1}
      /\ \A m \in DOMAIN heap : heap'[m].cond = heap[m].cond
  BY <1>1, <1>2, ChangesHere DEF SameBut
<1>5. \A m \in DOMAIN heap' : (m \notin DOMAIN heap \/ m = n) => (Live(m)' => NodeRels(B, m)')
  <2>1. ~IsWhole(heap'[n])
    BY <1>2, <1>4 DEF IsWhole
  <2> QED
    BY <1>1, <1>2, <2>1, NodeOpened DEF Quiet
<1>6. B[c] = B[n]
  <2>1. B[n] = Gathered(heap, B, n)
    BY <1>1, <1>2, WholeRels
  <2>2. ChildrenOf(heap, n) \ {Null} = {c}
    BY <1>1, <1>2 DEF ChildrenOf
  <2> QED
    BY <1>2, <2>1, <2>2 DEF Gathered
<1>7. \A k \in DOMAIN f.arr : EntryFits(f.arr[k], B[c]) /\ f.arr[k].filter \in DOMAIN heap
  <2>1. NodeRels(B, n) /\ FrameRels(B, Here, ret)
    BY <1>1, <1>2, TopRels
  <2>2. Sane => Reads(n) \subseteq B[n]
    BY <1>2, <2>1 DEF NodeRels
  <2>3. \A k \in DOMAIN Here.arr : EntryFits(Here.arr[k], B[n])
    BY <1>1, <2>1 DEF FrameRels
  <2> QED
    BY <1>2, <1>3, <1>6, <2>2, <2>3 DEF EntryFits
<1>8. Sane' = Sane /\ \A m \in DOMAIN heap : Reads(m)' = Reads(m)
  BY <1>2, <1>4 DEF Sane, Quiet, Reads
<1>9. FrameRels(B, f, ret)'
  <2>1. \A k \in DOMAIN f.arr : EntryFits(f.arr[k], B[f.node])'
    BY <1>3, <1>4, <1>7, <1>8 DEF EntryFits
  <2>2. ~Waits(f) /\ DOMAIN f.stay = {}
    BY <1>1, <1>3 DEF Waits
  <2> QED
    BY <1>3, <2>1, <2>2 DEF FrameRels
<1>10. B[f.node] = B[Here.node]
  BY <1>1, <1>3, <1>6
<1> QED
  BY <1>1, <1>2, <1>3, <1>4, <1>5, <1>9, <1>10, RelsGoes

LEMMA PutBackIs ==
  ASSUME OptimizerInv, Wrap
  PROVE  LET w == Here.stay[1]
             n == Here.node
         IN  /\ frames # <<>> /\ Here.pass = "push" /\ Here.at = "wrap"
             /\ n \in DOMAIN heap /\ Live(n) /\ IsWhole(heap[n])
             /\ w \in DOMAIN heap /\ heap[w].kind = "Filter" /\ w # n /\ 1 \in DOMAIN Here.stay
             /\ \A k \in DOMAIN Here.stay : Here.stay[k] \in DOMAIN heap
             /\ Changes(w) /\ DOMAIN heap' = DOMAIN heap
             /\ heap'[w].kind = "Filter" /\ heap'[w].cond = heap[w].cond
             /\ DOMAIN heap'[w].child = {1} /\ heap'[w].child[1] = n
             /\ heap'[w].schema = heap[n].schema
             /\ Quiet /\ ret = Null /\ UNCHANGED <<root, ret>>
             /\ \E f : /\ Goes(f) /\ f.node = w /\ f.at = "wrap" /\ f.cur = Null /\ f.arr = <<>>
                       /\ \A k \in DOMAIN f.stay :
                            /\ k + 1 \in DOMAIN Here.stay /\ f.stay[k] = Here.stay[k + 1]
                            /\ f.stay[k] # w
<1>1. PICK n, w, none : n = Here.node /\ w = Here.stay[1] /\ none = <<>>
  OBVIOUS
<1>2. PICK f : f = Wrapped(Here, w)
  OBVIOUS
<1>3. /\ frames # none /\ Here.at = "wrap" /\ Here.stay # none
      /\ heap' = set_child(heap, w, 1, n) /\ Continue(f)
      /\ root' = root /\ ret' = ret /\ outcome' = outcome /\ Quiet
  BY <1>1, <1>2 DEF Wrap, Wrapped
<1>4. /\ heap \in Seq(HeapNodes) /\ n \in DOMAIN heap /\ Live(n) /\ Here \in FrameTypes
      /\ FrameOK(Here, heap) /\ frames \in Seq(FrameTypes) /\ Here = frames[Len(frames)]
      /\ Len(frames) \in DOMAIN frames
  BY <1>1, <1>3, HereOK DEF OptimizerInv
<1>5. /\ Here.pass = "push" /\ IsWhole(heap[n])
      /\ Here.arr = none /\ Here.cur = Null /\ ret = Null
  BY <1>1, <1>3, AtWrap DEF OptimizerInv
<1>6. /\ f \in FrameTypes /\ f.pass = Here.pass /\ f.node = w /\ f.at = Here.at
      /\ f.cur = Here.cur /\ f.arr = Here.arr
      /\ PutsBack(Here, f, w)
      /\ \A x \in DOMAIN f.stay : x + 1 \in DOMAIN Here.stay /\ f.stay[x] = Here.stay[x + 1]
  BY <1>1, <1>2, <1>3, <1>4, WrapIs DEF WrapIn
<1>7. 1 \in DOMAIN Here.stay /\ CarriesOK(Here, heap) /\ IsLoose(heap, w)
  <2>1. Here.stay \in Seq(Nat)
    BY <1>4, FrameTyped
  <2>2. 1 \in DOMAIN Here.stay
    BY <1>1, <1>3, <2>1
  <2> QED
    BY <1>1, <1>4, <2>2 DEF FrameOK, CarriesOK
<1>8. /\ w \in DOMAIN heap /\ heap[w].kind = "Filter" /\ DOMAIN heap[w].child = {1} /\ w # n
  <2>1. w \in DOMAIN heap /\ heap[w].kind = "Filter" /\ heap[w].child[1] = Null
    BY <1>7 DEF IsLoose
  <2>2. DOMAIN heap[w].child = {1}
    BY <2>1, NodesTyped DEF OptimizerInv, StructureOK, HeapOK, Formed, ArityOK
  <2> QED
    BY <1>5, <2>1, <2>2 DEF IsWhole
<1>9. WritesIn(heap, heap', w, 1, n) /\ heap'[w].schema = heap[n].schema
  BY <1>3, <1>4, <1>8, FilterSet
<1>10. SameBut(heap', heap, w) /\ heap'[w].child[1] = n
  BY <1>8, <1>9 DEF WritesIn
<1>11. OnTop(w)
  <2>1. LocalAt(Here, "stay", 1) = w /\ "stay" \in Slots \ {"cur"}
    BY <1>6 DEF PutsBack, Slots, Carried
  <2> QED
    BY <2>1 DEF OnTop
<1>12. Changes(w) /\ DOMAIN heap' = DOMAIN heap /\ heap'[w].kind = "Filter"
       /\ heap'[w].cond = heap[w].cond /\ DOMAIN heap'[w].child = {1}
  BY <1>8, <1>10, <1>11 DEF Changes, OnlyAt, SameBut
<1>13. \A x \in DOMAIN f.stay : f.stay[x] # w
  <2> SUFFICES ASSUME NEW x \in DOMAIN f.stay PROVE f.stay[x] # w
    OBVIOUS
  <2>1. x + 1 \in DOMAIN Here.stay /\ f.stay[x] = Here.stay[x + 1] /\ x + 1 # 1
    <3>1. f.stay \in Seq(Nat)
      BY <1>6, FrameTyped
    <3>2. x \in Nat \ {0}
      BY <3>1
    <3> QED
      BY <1>6, <3>2
  <2>2. Distinct(Here)
    BY <1>4, <1>7, CarriedOnce, DistinctIf DEF OptimizerInv
  <2> QED
    BY <1>1, <1>7, <2>1, <2>2 DEF Distinct
<1>14. \A k \in DOMAIN Here.stay : Here.stay[k] \in DOMAIN heap
  BY <1>7 DEF CarriesOK, IsLoose
<1>15. Goes(f) /\ f.node = w /\ f.at = "wrap" /\ f.cur = Null /\ f.arr = none
  BY <1>3, <1>5, <1>6 DEF Goes
<1> QED
  BY <1>1, <1>3, <1>4, <1>5, <1>6, <1>7, <1>8, <1>9, <1>10, <1>12, <1>13, <1>14, <1>15

LEMMA RelsWrap ==
  ASSUME OptimizerInv, Wrap, NEW B, RelsOK(B)
  PROVE  \E C : RelsOK(C)'
<1>1. PICK n, w, none : n = Here.node /\ w = Here.stay[1] /\ none = <<>>
  OBVIOUS
<1>2. /\ frames # <<>> /\ Here.at = "wrap" /\ n \in DOMAIN heap /\ Live(n)
      /\ w \in DOMAIN heap /\ w # n /\ 1 \in DOMAIN Here.stay /\ Null \notin DOMAIN heap
      /\ \A k \in DOMAIN Here.stay : Here.stay[k] \in DOMAIN heap
      /\ Changes(w) /\ DOMAIN heap' = DOMAIN heap
      /\ heap'[w].kind = "Filter" /\ heap'[w].cond = heap[w].cond
      /\ DOMAIN heap'[w].child = {1} /\ heap'[w].child[1] = n
      /\ heap'[w].schema = heap[n].schema /\ Quiet
  <2>1. Null \notin DOMAIN heap
    BY NodesTyped DEF OptimizerInv, StructureOK, HeapOK, Formed, Null
  <2> QED
    BY <1>1, <2>1, PutBackIs
<1>3. PICK f : /\ Goes(f) /\ f.node = w /\ f.at = "wrap" /\ f.cur = Null /\ f.arr = none
               /\ \A k \in DOMAIN f.stay :
                    k + 1 \in DOMAIN Here.stay /\ f.stay[k] = Here.stay[k + 1]
  BY <1>1, PutBackIs
<1>4. PICK C : C = [m \in DOMAIN heap |-> IF m = w THEN B[n] ELSE B[m]]
  OBVIOUS
<1>5. C[w] = B[n] /\ C[n] = B[n] /\ \A m \in DOMAIN heap : m # w => C[m] = B[m]
  BY <1>2, <1>4
<1>6. FrameRels(B, Here, ret) /\ NodeRels(B, n)
  BY <1>1, <1>2, TopRels
<1>7. Sane' = Sane /\ \A m \in DOMAIN heap : Reads(m)' = Reads(m)
  BY <1>2 DEF Sane, Quiet, Reads, Changes
<1>8. \A k \in DOMAIN Here.stay : Sane => Reads(Here.stay[k]) \subseteq B[n]
  BY <1>1, <1>6 DEF FrameRels
<1>9. NodeRels(C, w)'
  <2>1. ChildrenOf(heap', w) \ {Null} = {n}
    BY <1>2 DEF ChildrenOf
  <2>2. Gathered(heap', C, w) = C[w]
    BY <1>2, <1>5, <2>1 DEF Gathered
  <2>3. \A i \in DOMAIN heap'[w].schema : heap'[w].schema[i].relation \in C[w]
    BY <1>2, <1>5, <1>6 DEF NodeRels
  <2>4. Sane' => Reads(w)' \subseteq C[w]
    BY <1>1, <1>2, <1>5, <1>7, <1>8
  <2> QED
    BY <1>2, <2>2, <2>3, <2>4 DEF NodeRels
<1>10. FrameRels(C, f, ret)'
  <2>1. ~Waits(f) /\ f.cur = Null /\ DOMAIN f.arr = {} /\ f.at \notin {"left", "right"}
    BY <1>1, <1>3 DEF Waits
  <2>2. \A j \in DOMAIN f.stay : Sane' => Reads(f.stay[j])' \subseteq C[f.node]
    BY <1>2, <1>3, <1>5, <1>7, <1>8
  <2> QED
    BY <2>1, <2>2 DEF FrameRels
<1>11. \A m \in DOMAIN heap' : (m \notin DOMAIN heap \/ m = w) => (Live(m)' => NodeRels(C, m)')
  BY <1>2, <1>9
<1>12. C[f.node] = B[Here.node]
  BY <1>1, <1>3, <1>5
<1>13. RelsOK(C)'
  BY <1>2, <1>3, <1>5, <1>10, <1>11, <1>12, RelsGoes
<1> QED
  BY <1>13

LEMMA ChooseJoinIs ==
  ASSUME OptimizerInv, ChooseJoin
  PROVE  LET n == Here.node
             x == Len(heap) + 1
         IN  /\ frames # <<>> /\ Here.pass = "choose" /\ Here.at = "child"
             /\ n \in DOMAIN heap /\ heap[n].kind = "MultiJoin" /\ Live(n)
             /\ ret # Null /\ ret \in DOMAIN heap /\ ret # n
             /\ Here.cur # Null => Here.cur \in DOMAIN heap /\ Here.cur # n
             /\ Changes(Null) /\ Quiet /\ root' = root /\ ret' = Null
             /\ \A m \in DOMAIN heap : heap'[m] = heap[m]
             /\ \E f : /\ Goes(f) /\ f.node = n /\ f.at = "enter" /\ f.done = Here.done + 1
                       /\ f.cur # Null /\ f.arr = <<>> /\ f.stay = <<>>
                       /\ Here.cur = Null => heap' = heap /\ f.cur = ret
                       /\ Here.cur # Null =>
                            /\ f.cur = x /\ JoinsIn(heap, heap', x, Here.cur, ret)
                            /\ heap'[x].schema = heap[Here.cur].schema \o heap[ret].schema
<1>1. PICK n, x, none : n = Here.node /\ x = Len(heap) + 1 /\ none = <<>>
  OBVIOUS
<1>2. In("choose", {"MultiJoin"}, "child") /\ ret' = Null /\ UNCHANGED <<root, outcome>> /\ Quiet
  BY DEF ChooseJoin
<1>3. /\ frames # none /\ Here.pass = "choose" /\ Here.at = "child" /\ heap[n].kind = "MultiJoin"
  BY <1>1, <1>2 DEF In
<1>4. PICK N : N = Len(frames)
  OBVIOUS
<1>5. /\ heap \in Seq(HeapNodes) /\ n \in DOMAIN heap /\ Live(n) /\ Here \in FrameTypes
      /\ (Waits(Here) <=> ret # Null) /\ ret \in {Null} \cup DOMAIN heap /\ n # Null
      /\ Here.cur \in {Null} \cup DOMAIN heap /\ N \in DOMAIN frames
      /\ Here = frames[N] /\ N \in Nat
  BY <1>1, <1>3, <1>4, HereOK DEF OptimizerInv
<1>6. ret # Null /\ ret \in DOMAIN heap /\ ret \in Nat
  BY <1>3, <1>5, NodesTyped DEF Waits
<1>7. ret # n /\ Here.cur # n
  <2>1. <<"cur", N, 0>> \in Places /\ What(<<"cur", N, 0>>) = FrameAt(frames, "cur", N, 0)
        /\ <<"ret", 0, 0>> \in Places /\ What(<<"ret", 0, 0>>) = ret
    BY <1>5, SomePlaces, WhatNow DEF Slots
  <2>2. FrameAt(frames, "cur", N, 0) = Here.cur
    BY <1>5, LocalIs DEF FrameAt
  <2>3. \A p \in Places : p[1] \in Kinds => What(p) # n
    BY <1>1, <1>3, <1>5, NodeOnTop, Elsewhere DEF OptimizerInv
  <2> QED
    BY <2>1, <2>2, <2>3 DEF Kinds
<1>8. CASE Here.cur = Null
  <2>1. PICK f : f = [Here EXCEPT !.at = "enter", !.done = @ + 1, !.cur = ret]
    OBVIOUS
  <2>2. heap' = heap /\ Continue(f)
    BY <1>8, <2>1 DEF ChooseJoin
  <2>3. ChosenFrame(f) /\ f.cur = ret
    BY <1>2, <1>6, <2>1, <2>2, ChosenIs
  <2>4. Goes(f)
    BY <1>2, <1>3, <2>3 DEF Goes, ChosenFrame
  <2>5. Changes(Null)
    BY <2>2, ChangesNothing
  <2> QED
    BY <1>1, <1>2, <1>3, <1>5, <1>6, <1>7, <1>8, <2>2, <2>3, <2>4, <2>5 DEF ChosenFrame
<1>9. CASE Here.cur # Null
  <2>1. PICK f : f = [Here EXCEPT !.at = "enter", !.done = @ + 1, !.cur = x]
    OBVIOUS
  <2>2. heap' = BinaryJoinPlanNode(heap, Here.cur, ret) /\ Continue(f)
    BY <1>1, <1>9, <2>1 DEF ChooseJoin
  <2>3. JoinsIn(heap, heap', x, Here.cur, ret)
        /\ heap'[x].schema = heap[Here.cur].schema \o heap[ret].schema
    BY <1>1, <1>5, <1>6, <1>9, <2>2, JoinBuilt
  <2>4. x \in Nat /\ x # Null
    BY <2>3 DEF JoinsIn, Null
  <2>5. ChosenFrame(f) /\ f.cur = x
    BY <1>2, <2>1, <2>2, <2>4, ChosenIs
  <2>6. Goes(f)
    BY <1>2, <1>3, <2>5 DEF Goes, ChosenFrame
  <2>7. /\ heap' \in Seq(HeapNodes) /\ DOMAIN heap' = DOMAIN heap \cup {x}
        /\ \A m \in DOMAIN heap : heap'[m] = heap[m]
    BY <2>3 DEF JoinsIn
  <2>8. Changes(Null)
    BY <2>7 DEF Changes, OnlyAt
  <2>9. \E g : /\ Goes(g) /\ g.node = n /\ g.at = "enter" /\ g.done = Here.done + 1
               /\ g.cur = x /\ g.arr = none /\ g.stay = none
    BY <1>1, <2>5, <2>6 DEF ChosenFrame
  <2> QED
    BY <1>1, <1>2, <1>3, <1>5, <1>6, <1>7, <1>9, <2>3, <2>4, <2>7, <2>8, <2>9
<1> QED
  BY <1>8, <1>9

LEMMA RelsChooseJoin ==
  ASSUME OptimizerInv, ChooseJoin, NEW B, RelsOK(B)
  PROVE  \E C : RelsOK(C)'
<1>1. PICK n, x, a, r, none : /\ n = Here.node /\ x = Len(heap) + 1 /\ a = Here.cur /\ r = ret
                              /\ none = <<>>
  OBVIOUS
<1>2. /\ frames # <<>> /\ Here.pass = "choose" /\ Here.at = "child" /\ n \in DOMAIN heap
      /\ heap[n].kind = "MultiJoin" /\ r # Null /\ r \in DOMAIN heap
      /\ a # Null => a \in DOMAIN heap
      /\ Changes(Null) /\ Quiet /\ Null \notin DOMAIN heap
      /\ \A m \in DOMAIN heap : heap'[m] = heap[m]
  <2>1. Null \notin DOMAIN heap
    BY NodesTyped DEF OptimizerInv, StructureOK, HeapOK, Formed, Null
  <2> QED
    BY <1>1, <2>1, ChooseJoinIs
<1>3. PICK f : /\ Goes(f) /\ f.node = n /\ f.at = "enter" /\ f.cur # Null
               /\ f.arr = none /\ f.stay = none
               /\ a = Null => heap' = heap /\ f.cur = r
               /\ a # Null => /\ f.cur = x /\ JoinsIn(heap, heap', x, a, r)
                              /\ heap'[x].schema = heap[a].schema \o heap[r].schema
  BY <1>1, ChooseJoinIs
<1>4. B[n] = Gathered(heap, B, n) \cup Taken(B, Here, r)
  BY <1>1, <1>2, TopRels
<1>5. Taken(B, Here, r) = B[r] \cup (IF a # Null THEN B[a] ELSE {})
  BY <1>1, <1>2 DEF Taken, Waits
<1>6. ~Waits(f) /\ DOMAIN f.arr = {} /\ DOMAIN f.stay = {} /\ f.at \notin {"left", "right"}
  BY <1>1, <1>3 DEF Waits
<1>7. CASE a = Null
  <2>1. Gathered(heap', B, n) = Gathered(heap, B, n) /\ Taken(B, f, ret') = B[r]
    BY <1>3, <1>6, <1>7 DEF Taken, Gathered, ChildrenOf
  <2>2. FrameRels(B, f, ret)'
    BY <1>3, <1>4, <1>5, <1>6, <1>7, <2>1 DEF FrameRels
  <2>3. \A m \in DOMAIN heap' : ~(m \notin DOMAIN heap \/ m = Null)
    BY <1>2, <1>3, <1>7
  <2>4. B[f.node] = B[Here.node]
    BY <1>1, <1>3
  <2>5. RelsOK(B)'
    BY <1>2, <1>3, <2>2, <2>3, <2>4, RelsGoes
  <2> QED
    BY <2>5
<1>8. CASE a # Null
  <2>1. /\ x \notin DOMAIN heap /\ DOMAIN heap' = DOMAIN heap \cup {x} /\ x # Null
        /\ heap'[x].kind = "BinaryJoin" /\ DOMAIN heap'[x].child = {1, 2}
        /\ heap'[x].child[1] = a /\ heap'[x].child[2] = r /\ a \in DOMAIN heap
        /\ heap'[x].schema = heap[a].schema \o heap[r].schema
    BY <1>2, <1>3, <1>8 DEF JoinsIn, Null
  <2>2. PICK C : C = [m \in DOMAIN heap' |-> IF m = x THEN B[a] \cup B[r] ELSE B[m]]
    OBVIOUS
  <2>3. C[x] = B[a] \cup B[r] /\ \A m \in DOMAIN heap : C[m] = B[m]
    BY <2>1, <2>2
  <2>4. Gathered(heap', C, n) = Gathered(heap, B, n)
    <3>1. heap'[n] = heap[n] /\ ChildrenOf(heap', n) = ChildrenOf(heap, n)
      BY <1>2 DEF ChildrenOf
    <3>2. \A c \in ChildrenOf(heap, n) \ {Null} : C[c] = B[c]
      BY <1>2, <2>3 DEF OptimizerInv, StructureOK, HeapOK, Formed, ChildrenOf
    <3>3. {C[c] : c \in ChildrenOf(heap, n) \ {Null}} = {B[c] : c \in ChildrenOf(heap, n) \ {Null}}
      BY <3>2
    <3> QED
      BY <3>1, <3>3 DEF Gathered
  <2>5. Taken(C, f, ret') = B[a] \cup B[r]
    BY <1>3, <1>6, <1>8, <2>3 DEF Taken
  <2>6. FrameRels(C, f, ret)'
    BY <1>2, <1>3, <1>4, <1>5, <1>6, <1>8, <2>3, <2>4, <2>5 DEF FrameRels
  <2>7. Live(a) /\ Live(r)
    <3>1. What(<<"ret", 0, 0>>) = ret /\ <<"ret", 0, 0>> \in Places
      BY SomePlaces, WhatNow
    <3>2. PICK N : N = Len(frames)
      OBVIOUS
    <3>3. N \in DOMAIN frames /\ N \in Nat /\ Here = frames[N]
      BY <1>2, <3>2, HereOK DEF OptimizerInv
    <3>4. <<"cur", N, 0>> \in Places /\ What(<<"cur", N, 0>>) = FrameAt(frames, "cur", N, 0)
      BY <3>3, SomePlaces, WhatNow DEF Slots
    <3>5. FrameAt(frames, "cur", N, 0) = a
      BY <1>1, <3>3, LocalIs DEF FrameAt
    <3>6. \A p \in Places : What(p) # Null => What(p) \in LiveNodes
      BY DEF OptimizerInv, OwnersOK, Owned, Holding
    <3>7. ret \in LiveNodes
      BY <1>1, <1>2, <3>1, <3>6
    <3>8. a \in LiveNodes
      BY <1>8, <3>4, <3>5, <3>6
    <3> QED
      BY <1>1, <3>7, <3>8 DEF LiveNodes
  <2>8. NodeRels(C, x)'
    <3>1. ChildrenOf(heap', x) \ {Null} = {a, r}
      BY <1>2, <1>8, <2>1 DEF ChildrenOf
    <3>2. {C[c] : c \in ChildrenOf(heap', x) \ {Null}} = {B[a], B[r]}
      BY <1>2, <2>1, <2>3, <3>1
    <3>3. Gathered(heap', C, x) = C[x]
      BY <2>1, <2>3, <3>2 DEF Gathered
    <3>4. \A i \in DOMAIN heap'[x].schema : heap'[x].schema[i].relation \in C[x]
      <4>1. PICK s, t : s = heap[a].schema /\ t = heap[r].schema
        OBVIOUS
      <4>2. /\ \A i \in DOMAIN s : s[i].relation \in B[a]
            /\ \A i \in DOMAIN t : t[i].relation \in B[r]
        BY <1>2, <2>1, <2>7, <4>1 DEF RelsOK, NodeRels
      <4>3. s \in Schemas /\ t \in Schemas
        BY <1>2, <2>1, <4>1, NodesTyped DEF OptimizerInv, StructureOK, HeapOK, Formed
      <4>4. \A i \in DOMAIN (s \o t) : \/ i \in DOMAIN s /\ (s \o t)[i] = s[i]
                                       \/ i - Len(s) \in DOMAIN t /\ (s \o t)[i] = t[i - Len(s)]
        BY <4>3 DEF Schemas
      <4> QED
        <5>1. ASSUME NEW i \in DOMAIN (s \o t) PROVE (s \o t)[i].relation \in B[a] \cup B[r]
          BY <4>2, <4>4, <5>1
        <5>2. heap'[x].schema = s \o t
          BY <2>1, <4>1
        <5> QED
          BY <2>3, <5>1, <5>2
    <3>5. ~Pushing'
      <4>1. Here' = f /\ frames' # <<>> /\ f.pass = "choose"
        <5>1. frames \in Seq(FrameTypes) /\ Here = frames[Len(frames)]
          BY <1>2, HereOK DEF OptimizerInv
        <5> QED
          BY <1>2, <1>3, <5>1, Continued DEF Here, Goes
      <4> QED
        BY <4>1 DEF Pushing
    <3> QED
      BY <2>1, <3>3, <3>4, <3>5 DEF NodeRels
  <2>9. \A m \in DOMAIN heap' : (m \notin DOMAIN heap \/ m = Null) => (Live(m)' => NodeRels(C, m)')
    BY <1>2, <2>1, <2>8
  <2>10. C[f.node] = B[Here.node] /\ \A m \in DOMAIN heap : m # Null => C[m] = B[m]
    BY <1>1, <1>2, <1>3, <2>3
  <2>11. RelsOK(C)'
    BY <1>2, <1>3, <2>6, <2>9, <2>10, RelsGoes
  <2> QED
    BY <2>11
<1> QED
  BY <1>7, <1>8

LEMMA ChooseJoinEndIs ==
  ASSUME OptimizerInv, ChooseJoinEnd
  PROVE  LET n == Here.node
             c == Here.cur
         IN  /\ frames # <<>> /\ Here.pass = "choose" /\ Here.at = "enter"
             /\ n \in DOMAIN heap /\ heap[n].kind = "MultiJoin"
             /\ c # Null /\ c \in DOMAIN heap /\ c # n /\ ret = Null
             /\ \A k \in DOMAIN heap[n].child : heap[n].child[k] = Null
             /\ Changes(n) /\ Quiet /\ GiveBack(c)
             /\ DOMAIN heap' = DOMAIN heap /\ heap'[n].kind = "Destroyed"
<1>1. PICK n, c, none : n = Here.node /\ c = Here.cur /\ none = <<>>
  OBVIOUS
<1>2. /\ frames # none /\ Here.pass = "choose" /\ Here.at = "enter" /\ heap[n].kind = "MultiJoin"
      /\ ~(Here.done < Len(heap[n].child)) /\ GiveBack(c) /\ Quiet
      /\ heap' = destroy(heap, {n} \cup (ChildrenOf(heap, n) \ {Null}))
  BY <1>1 DEF ChooseJoinEnd, In, MoreChildren
<1>3. PICK N : N = Len(frames)
  OBVIOUS
<1>4. /\ heap \in Seq(HeapNodes) /\ n \in DOMAIN heap /\ n # Null /\ Here \in FrameTypes
      /\ ChooseShape(Here, heap[n]) /\ ArityOK(heap[n]) /\ c \in {Null} \cup DOMAIN heap
      /\ (Waits(Here) <=> ret # Null) /\ N \in DOMAIN frames /\ N \in Nat /\ Here = frames[N]
  BY <1>1, <1>2, <1>3, HereOK DEF OptimizerInv
<1>5. heap[n].child \in Seq(Nat) /\ Here.done \in Nat
  BY <1>4, NodesTyped, FrameTyped
<1>6. /\ Here.done = Len(heap[n].child) /\ Here.done > 0 /\ c # Null
      /\ \A k \in DOMAIN heap[n].child : heap[n].child[k] = Null
  <2>1. Here.done = Len(heap[n].child) /\ Here.done > 0 /\ c # Null
    BY <1>1, <1>2, <1>4, <1>5 DEF ChooseShape, ArityOK
  <2>2. \A k \in DOMAIN heap[n].child : k <= Here.done
    BY <1>5, <2>1
  <2> QED
    BY <1>2, <1>4, <2>1, <2>2 DEF ChooseShape
<1>7. heap' = destroy(heap, {n})
  <2>1. {n} \cup (ChildrenOf(heap, n) \ {Null}) = {n}
    BY <1>6 DEF ChildrenOf
  <2> QED
    BY <1>2, <2>1
<1>8. /\ heap' \in Seq(HeapNodes) /\ DOMAIN heap' = DOMAIN heap
      /\ \A m \in DOMAIN heap : m # n => heap'[m] = heap[m]
      /\ heap'[n].kind = "Destroyed" /\ heap'[n].cond = heap[n].cond
  BY <1>4, <1>7, DestroyedIs
<1>9. Changes(n)
  BY <1>1, <1>2, <1>4, <1>8, NodeOnTop DEF Changes, OnlyAt, OptimizerInv
<1>10. c # n
  <2>1. <<"cur", N, 0>> \in Places /\ What(<<"cur", N, 0>>) = FrameAt(frames, "cur", N, 0)
    BY <1>4, SomePlaces, WhatNow DEF Slots
  <2>2. FrameAt(frames, "cur", N, 0) = c
    BY <1>1, <1>4, LocalIs DEF FrameAt
  <2>3. \A p \in Places : p[1] \in Kinds => What(p) # n
    BY <1>1, <1>2, <1>4, NodeOnTop, Elsewhere DEF OptimizerInv
  <2> QED
    BY <2>1, <2>2, <2>3 DEF Kinds
<1>11. ret = Null
  BY <1>2, <1>4 DEF Waits
<1> QED
  BY <1>1, <1>2, <1>4, <1>6, <1>8, <1>9, <1>10, <1>11

LEMMA RelsChooseJoinEnd ==
  ASSUME OptimizerInv, ChooseJoinEnd, NEW B, RelsOK(B)
  PROVE  RelsOK(B)'
<1>1. PICK n, c : n = Here.node /\ c = Here.cur
  OBVIOUS
<1>2. /\ frames # <<>> /\ Here.at = "enter" /\ n \in DOMAIN heap /\ heap[n].kind = "MultiJoin"
      /\ c # Null /\ Changes(n) /\ Quiet /\ GiveBack(c)
      /\ \A k \in DOMAIN heap[n].child : heap[n].child[k] = Null
      /\ DOMAIN heap' = DOMAIN heap /\ heap'[n].kind = "Destroyed"
  BY <1>1, ChooseJoinEndIs
<1>3. B[n] = Gathered(heap, B, n) \cup Taken(B, Here, ret)
  BY <1>1, <1>2, TopRels
<1>4. B[c] = B[n]
  <2>1. Taken(B, Here, ret) = B[c]
    BY <1>1, <1>2 DEF Taken, Waits
  <2>2. ChildrenOf(heap, n) \ {Null} = {}
    BY <1>2 DEF ChildrenOf
  <2>3. Gathered(heap, B, n) = {}
    BY <1>2, <2>2 DEF Gathered
  <2> QED
    BY <1>3, <2>1, <2>3
<1>5. \A m \in DOMAIN heap' : (m \notin DOMAIN heap \/ m = n) => (Live(m)' => NodeRels(B, m)')
  BY <1>2 DEF Live
<1> QED
  BY <1>1, <1>2, <1>4, <1>5, RelsBack

-----------------------------------------------------------------------------
(* The relations of a plan that is given, and between the passes. *)

\* The columns of a schema are columns of these relations.
From(s, rels) == s \in Schemas /\ \A i \in DOMAIN s : s[i].relation \in rels

LEMMA BothFrom ==
  ASSUME NEW s, NEW t, NEW rels, From(s, rels), From(t, rels)
  PROVE  From(s \o t, rels)
<1>1. s \in Schemas /\ t \in Schemas /\ s \o t \in Schemas
  BY DEF From, Schemas
<1>2. \A i \in DOMAIN (s \o t) : \/ i \in DOMAIN s /\ (s \o t)[i] = s[i]
                                 \/ i - Len(s) \in DOMAIN t /\ (s \o t)[i] = t[i - Len(s)]
  BY <1>1 DEF Schemas
<1> QED
  BY <1>1, <1>2 DEF From

LEMMA JoinedFrom ==
  ASSUME NEW sc \in Seq(Schemas), NEW rels, \A k \in DOMAIN sc : From(sc[k], rels)
  PROVE  From(Joined(sc)[Len(sc)], rels)
<1> DEFINE N == Len(sc)
           g == Joined(sc)
           Off == {k \in 0 .. N : ~From(g[k], rels)}
<1>1. N \in Nat /\ DOMAIN sc = 1 .. N
  OBVIOUS
<1>2. g[0] = <<>> /\ \A k \in 1 .. N : g[k] = g[k - 1] \o sc[k]
  BY JoinedIs
<1> HIDE DEF N, g
<1>3. From(g[0], rels)
  BY <1>2 DEF From, Schemas
<1>4. Off = {}
  <2> SUFFICES ASSUME Off # {} PROVE FALSE
    OBVIOUS
  <2>1. Off \in SUBSET Nat
    BY <1>1
  <2>2. PICK k \in Off : \A j \in Off : k <= j
    <3> HIDE DEF Off
    <3> QED
      BY <2>1, LeastNatural
  <2>3. k \in 1 .. N /\ k - 1 \in 0 .. N /\ k \in Nat
    BY <1>1, <1>3, <2>2
  <2>4. k - 1 \notin Off
    <3>1. ~(k <= k - 1)
      BY <2>3
    <3> QED
      BY <2>2, <3>1
  <2>5. From(g[k - 1], rels)
    BY <2>3, <2>4
  <2>6. From(g[k], rels)
    BY <1>1, <1>2, <2>3, <2>5, BothFrom
  <2> QED
    BY <2>2, <2>6
<1>5. N \in 0 .. N
  BY <1>1
<1> QED
  BY <1>4, <1>5 DEF N, g

LEMMA ChildRels ==
  ASSUME NEW h, NEW B, NEW n, h[n].kind # "TableScan", B[n] = Gathered(h, B, n),
         NEW k \in DOMAIN h[n].child, h[n].child[k] # Null
  PROVE  B[h[n].child[k]] \subseteq B[n]
BY GatheredIs

(* In a plan that is given the columns of a node are those of the relations below it. *)
LEMMA PlanRels ==
  ASSUME NEW h, NEW r, IsPlan(h, r), NEW n \in DOMAIN h
  PROVE  From(h[n].schema, RelationsBelow(h)[n])
<1> DEFINE Off == {m \in DOMAIN h : ~From(h[m].schema, RelationsBelow(h)[m])}
<1>1. h \in Seq(HeapNodes) /\ Formed(h) /\ Grounded(h)
  BY PlanReached
<1>2. PICK B : B = RelationsBelow(h)
  OBVIOUS
<1>3. \A m \in DOMAIN h : B[m] = Gathered(h, B, m)
  BY <1>1, <1>2, RelationsGathered
<1>4. ASSUME NEW m \in Off PROVE \E c \in Off : c \in ChildrenOf(h, m)
  <2>1. m \in DOMAIN h /\ ~From(h[m].schema, B[m]) /\ h[m].schema \in Schemas
    BY <1>1, <1>2, <1>4, NodesTyped
  <2>2. PICK ch : ch = h[m].child
    OBVIOUS
  <2>3. PICK sc : sc = [k \in DOMAIN ch |-> h[ch[k]].schema]
    OBVIOUS
  <2>4. /\ ch \in Seq(Nat) /\ Len(ch) \in Nat /\ DOMAIN ch = 1 .. Len(ch)
        /\ \A k \in DOMAIN ch : ch[k] \in DOMAIN h /\ ch[k] # Null /\ h[ch[k]].schema \in Schemas
    <3>1. Null \notin DOMAIN h
      BY <1>1, NodesTyped DEF Null
    <3> QED
      BY <1>1, <2>1, <2>2, <3>1, PlanChildren, NodesTyped
  <2>5. Complete(h[m]) /\ Fits(h[m], sc)
    BY <2>1, <2>2, <2>3 DEF IsPlan
  <2> SUFFICES ASSUME \A k \in DOMAIN ch : From(h[ch[k]].schema, B[ch[k]]) PROVE FALSE
    BY <1>2, <2>2, <2>4 DEF ChildrenOf
  <2>6. CASE h[m].kind = "TableScan"
    <3>1. B[m] = {h[m].rel}
      BY <1>3, <2>1, <2>6 DEF Gathered
    <3> QED
      BY <2>1, <2>5, <2>6, <3>1 DEF Fits, From
  <2>7. CASE h[m].kind # "TableScan"
    <3>1. \A k \in DOMAIN ch : B[ch[k]] \subseteq B[m]
      BY <1>3, <2>1, <2>2, <2>4, <2>7, ChildRels
    <3>2. \A k \in DOMAIN sc : From(sc[k], B[m])
      BY <2>3, <3>1 DEF From
    <3>3. sc \in [1 .. Len(ch) -> Schemas]
      BY <2>3, <2>4
    <3>4. sc \in Seq(Schemas) /\ Len(sc) = Len(ch) /\ DOMAIN sc = 1 .. Len(ch)
      BY <2>4, <3>3, SeqTyped
    <3>5. ArityOK(h[m]) /\ h[m].kind \in {"Filter", "Projection", "BinaryJoin", "MultiJoin"}
      <4>1. h[m].kind # "Destroyed"
        BY <2>5 DEF Complete
      <4> QED
        BY <1>1, <2>1, <2>7, <4>1, NodesTyped DEF Formed
    <3>10. /\ h[m].kind \in {"Filter", "Projection"} => Len(ch) = 1
           /\ h[m].kind = "BinaryJoin" => Len(ch) = 2
      BY <2>2, <3>5 DEF ArityOK
    <3>11. /\ h[m].kind \in {"Filter", "Projection"} => DOMAIN sc = {1}
           /\ h[m].kind = "BinaryJoin" => DOMAIN sc = {1, 2}
      BY <3>4, <3>10
    <3>6. CASE h[m].kind = "Filter"
      <4>1. h[m].schema = sc[1] /\ 1 \in DOMAIN sc
        BY <2>5, <3>6, <3>11 DEF Fits
      <4> QED
        BY <2>1, <3>2, <4>1
    <3>7. CASE h[m].kind = "Projection"
      <4>1. 1 \in DOMAIN sc /\ \A i \in DOMAIN h[m].schema : \E j \in DOMAIN sc[1] :
            sc[1][j] = h[m].schema[i]
        BY <2>5, <3>7, <3>11 DEF Fits, HasColumn
      <4> QED
        BY <2>1, <3>2, <4>1 DEF From
    <3>8. CASE h[m].kind = "BinaryJoin"
      <4>1. h[m].schema = sc[1] \o sc[2] /\ 1 \in DOMAIN sc /\ 2 \in DOMAIN sc
        BY <2>5, <3>8, <3>11 DEF Fits
      <4> QED
        BY <2>1, <3>2, <4>1, BothFrom
    <3>9. CASE h[m].kind = "MultiJoin"
      <4>1. h[m].schema = Joined(sc)[Len(sc)]
        BY <2>5, <3>9 DEF Fits
      <4> QED
        BY <2>1, <3>2, <3>4, <4>1, JoinedFrom
    <3> QED
      BY <3>5, <3>6, <3>7, <3>8, <3>9
  <2> QED
    BY <2>6, <2>7
<1>5. Off \in SUBSET DOMAIN h
  OBVIOUS
<1> HIDE DEF Off
<1>6. Off = {}
  BY <1>1, <1>4, <1>5, GroundedBelow
<1> QED
  BY <1>6 DEF Off

(* A filter of a sound plan reads columns of the relations below it. *)
LEMMA SaneReads ==
  ASSUME NEW h, NEW m, ~Faulty(h), m \in DOMAIN h, h[m].kind = "Filter",
         NEW rels, From(h[h[m].child[1]].schema, rels)
  PROVE  \A i \in DOMAIN h[m].cond.cols : h[m].cond.cols[i].relation \in rels
<1>1. \A i \in DOMAIN h[m].cond.cols :
        \E j \in DOMAIN h[h[m].child[1]].schema : h[h[m].child[1]].schema[j] = h[m].cond.cols[i]
  BY DEF Faulty, Resolvable, HasColumn
<1> QED
  BY <1>1 DEF From

LEMMA RelsInit ==
  ASSUME OptimizerInit
  PROVE  \E B : RelsOK(B)
<1>1. IsPlan(heap, root) /\ given.heap = heap /\ frames = <<>> /\ outcome = "given"
  <2>1. PICK p \in GivenPlans : given = [heap |-> p.heap, root |-> p.root, passes |-> <<>>]
    BY DEF OptimizerInit
  <2>2. given.heap = p.heap /\ given.root = p.root
    BY <2>1
  <2> QED
    BY <2>2, GivenPlansAssumption DEF OptimizerInit, OptimizerIdle
<1>2. /\ heap \in Seq(HeapNodes) /\ Formed(heap) /\ Grounded(heap)
      /\ \A n \in DOMAIN heap : IsWhole(heap[n])
  BY <1>1, PlanReached
<1>3. PICK B : B = RelationsBelow(heap)
  OBVIOUS
<1>4. \A n \in DOMAIN heap : B[n] = Gathered(heap, B, n)
  BY <1>2, <1>3, RelationsGathered
<1>5. ~Pushing
  BY <1>1 DEF Pushing
<1>6. ASSUME NEW n \in DOMAIN heap PROVE NodeRels(B, n)
  <2>1. \A i \in DOMAIN heap[n].schema : heap[n].schema[i].relation \in B[n]
    BY <1>1, <1>3, PlanRels DEF From
  <2>2. (Sane /\ heap[n].kind = "Filter") => Reads(n) \subseteq B[n]
    <3> SUFFICES ASSUME Sane, heap[n].kind = "Filter" PROVE Reads(n) \subseteq B[n]
      OBVIOUS
    <3>1. Len(heap[n].child) = 1 /\ heap[n].child \in Seq(Nat)
      BY <1>2, NodesTyped DEF Formed, ArityOK
    <3>2. 1 \in DOMAIN heap[n].child /\ heap[n].child[1] \in DOMAIN heap
      BY <1>1, <3>1, PlanChildren
    <3>3. From(heap[heap[n].child[1]].schema, B[heap[n].child[1]])
      BY <1>1, <1>3, <3>2, PlanRels
    <3>4. B[heap[n].child[1]] \subseteq B[n]
      <4>1. heap[n].child[1] # Null
        BY <1>2, <3>2 DEF IsWhole
      <4> QED
        BY <1>4, <3>2, <4>1, ChildRels
    <3>5. From(heap[heap[n].child[1]].schema, B[n])
      BY <3>3, <3>4 DEF From
    <3> QED
      BY <1>1, <3>5, SaneReads DEF Sane, Reads
  <2> QED
    BY <1>4, <1>5, <2>1, <2>2 DEF NodeRels
<1>7. DOMAIN frames = {}
  BY <1>1
<1> QED
  BY <1>6, <1>7 DEF RelsOK

\* Between the passes every live node has its children, and they are live.
LEMMA AllWhole ==
  ASSUME OptimizerInv, frames = <<>>
  PROVE  /\ \A n \in LiveNodes : IsWhole(heap[n])
         /\ Closed(heap, LiveNodes) /\ LiveNodes \in SUBSET DOMAIN heap
<1>1. OwnersOK /\ HolesOK /\ ret = Null /\ heap \in Seq(HeapNodes) /\ Null \notin LiveNodes
  BY NodesTyped DEF OptimizerInv, OwnersOK, StructureOK, StackOK, HeapOK, Formed, LiveNodes, Null
<1>2. ASSUME NEW n \in LiveNodes PROVE IsWhole(heap[n])
  <2>1. PICK p \in Places : What(p) = n
    BY <1>1, <1>2 DEF OwnersOK, Owned, Holding
  <2>2. n # Null
    BY <1>1, <1>2
  <2>3. p[1] \in {"root", "ret", "child"}
    <3>1. CASE p[1] \in Slots
      <4>1. FrameAt(frames, p[1], p[2], p[3]) = n
        BY <2>1, <3>1, PlaceIs, WhatNow
      <4>2. DOMAIN frames = {}
        OBVIOUS
      <4> QED
        BY <2>2, <4>1, <4>2 DEF FrameAt
    <3> QED
      BY <3>1, PlaceIs
  <2> QED
    BY <1>1, <2>1, <2>2, <2>3 DEF HolesOK
<1>3. ASSUME NEW n \in LiveNodes, NEW k \in DOMAIN heap[n].child, heap[n].child[k] # Null
      PROVE  heap[n].child[k] \in LiveNodes
  <2>1. n \in DOMAIN heap /\ n \in Nat /\ k \in Nat
    BY <1>1, NodesTyped DEF LiveNodes
  <2>2. <<"child", n, k>> \in Places /\ What(<<"child", n, k>>) = ChildAt(heap, n, k)
    BY <2>1, SomePlaces, WhatNow
  <2>3. ChildAt(heap, n, k) = heap[n].child[k]
    BY <1>3, <2>1 DEF ChildAt
  <2> QED
    BY <1>1, <1>3, <2>2, <2>3, HeldIsLive
<1> QED
  BY <1>2, <1>3 DEF Closed, ChildrenOf, LiveNodes

\* Between the passes B is what RelationsBelow() computes.
LEMMA RelsAre ==
  ASSUME OptimizerInv, frames = <<>>, NEW B, RelsOK(B), NEW n \in LiveNodes
  PROVE  B[n] = RelationsBelow(heap)[n]
<1>1. /\ \A m \in LiveNodes : IsWhole(heap[m]) /\ Live(m) /\ m \in DOMAIN heap
      /\ Closed(heap, LiveNodes) /\ LiveNodes \in SUBSET DOMAIN heap
  BY AllWhole DEF LiveNodes
<1>2. \A m \in LiveNodes : B[m] = Gathered(heap, B, m)
  BY <1>1 DEF RelsOK, NodeRels
<1>3. Formed(heap) /\ Grounded(heap)
  BY DEF OptimizerInv, StructureOK, HeapOK
<1> QED
  BY <1>1, <1>2, <1>3, RelationsUnique

LEMMA TrieIs ==
  ASSUME NEW h, NEW j \in DOMAIN h, h[j].kind = "BinaryJoin"
  PROVE  Sides(TrieOf(h)[j], RelationsBelow(h)[h[j].child[1]], RelationsBelow(h)[h[j].child[2]])
BY DEF TrieOf, Sides

(* A pass starts. *)
LEMMA RelsStart ==
  ASSUME OptimizerInv, NEW B, RelsOK(B), NEW pass \in {"choose", "push"}, StartPass(pass),
         pass = "push" => join_trie' = TrieOf(heap)
  PROVE  RelsOK(B)'
<1>1. PICK f : f = Frame(pass, root, <<>>)
  OBVIOUS
<1>2. frames = <<>> /\ frames' = <<f>> /\ heap' = heap /\ given' = given /\ outcome' = outcome
  BY <1>1 DEF StartPass
<1>3. root \in {Null} \cup DOMAIN heap /\ heap \in Seq(HeapNodes)
  BY DEF OptimizerInv, StructureOK, StackOK, HeapOK, Formed
<1>4. root \in Nat
  BY <1>3, NodesTyped DEF Null
<1>5. PICK none : none = <<>>
  OBVIOUS
<1>6. f.pass = pass /\ f.at = "enter" /\ f.cur = Null /\ f.arr = none /\ f.stay = none
  <2>1. none \in Seq(FilterEntries)
    BY <1>5
  <2>2. Fresh(f, pass, root, none)
    BY <1>1, <1>4, <1>5, <2>1, FreshFrame
  <2> QED
    BY <1>5, <2>2 DEF Fresh
<1>7. frames' # <<>> /\ Here' = f /\ DOMAIN frames' = {1} /\ frames'[1] = f
  BY <1>2 DEF Here
<1>8. /\ \A m \in LiveNodes : IsWhole(heap[m]) /\ Live(m) /\ m \in DOMAIN heap
      /\ Closed(heap, LiveNodes)
  BY <1>2, AllWhole DEF LiveNodes
<1>9. Sane' = Sane /\ \A m : Reads(m)' = Reads(m)
  BY <1>2 DEF Sane, Reads
<1>10. ASSUME NEW n \in DOMAIN heap, Live(n) PROVE NodeRels(B, n)'
  <2>1. NodeRels(B, n) /\ n \in LiveNodes
    BY <1>10 DEF RelsOK, LiveNodes
  <2>2. (Pushing' /\ heap[n].kind = "BinaryJoin") =>
          Sides(join_trie'[n], B[heap[n].child[1]], B[heap[n].child[2]])
    <3> SUFFICES ASSUME Pushing', heap[n].kind = "BinaryJoin"
                 PROVE  Sides(join_trie'[n], B[heap[n].child[1]], B[heap[n].child[2]])
      OBVIOUS
    <3>1. join_trie' = TrieOf(heap)
      BY <1>6, <1>7 DEF Pushing
    <3>2. DOMAIN heap[n].child = {1, 2}
      BY <1>3, NodesTyped DEF OptimizerInv, StructureOK, HeapOK, Formed, ArityOK
    <3>3. heap[n].child[1] \in LiveNodes /\ heap[n].child[2] \in LiveNodes
      BY <1>8, <2>1, <3>2 DEF IsWhole, Closed, ChildrenOf
    <3>4. /\ B[heap[n].child[1]] = RelationsBelow(heap)[heap[n].child[1]]
          /\ B[heap[n].child[2]] = RelationsBelow(heap)[heap[n].child[2]]
      BY <1>2, <3>3, RelsAre
    <3> QED
      BY <3>1, <3>4, TrieIs
  <2>3. Gathered(heap', B, n) = Gathered(heap, B, n)
    BY <1>2
  <2> QED
    BY <1>2, <1>9, <2>1, <2>2, <2>3 DEF NodeRels
<1>11. \A b : FrameRels(B, f, b)'
  <2>1. DOMAIN none = {} /\ ~Waits(f)
    BY <1>5, <1>6 DEF Waits
  <2> QED
    BY <1>6, <2>1 DEF FrameRels
<1>12. \A i \in DOMAIN frames' : FrameRels(B, frames[i], Below(i))'
  <2> SUFFICES ASSUME NEW i \in DOMAIN frames' PROVE FrameRels(B, frames[i], Below(i))'
    OBVIOUS
  <2>1. PICK b : b = Below(i)'
    OBVIOUS
  <2>2. FrameRels(B, f, b)' /\ frames'[i] = f
    BY <1>7, <1>11
  <2> QED
    BY <2>1, <2>2
<1>13. \A n \in DOMAIN heap' : Live(n)' => NodeRels(B, n)'
  BY <1>2, <1>10 DEF Live
<1> QED
  BY <1>12, <1>13 DEF RelsOK

(* The client calls: the given plan is the one it holds. *)
LEMMA RelsCall ==
  ASSUME OptimizerInv, NEW B, RelsOK(B), NEW todo, CallOptimizer(todo)
  PROVE  RelsOK(B)'
<1>1. /\ frames = <<>> /\ frames' = frames /\ heap' = heap /\ given'.heap = heap
      /\ outcome' = outcome /\ join_trie' = join_trie
  BY DEF CallOptimizer, Busy
<1>2. Pushing' = Pushing /\ \A m : Reads(m)' = Reads(m)
  BY <1>1 DEF Pushing, Reads
<1>3. ASSUME NEW n \in DOMAIN heap, Live(n) PROVE NodeRels(B, n)'
  <2>1. NodeRels(B, n) /\ n \in LiveNodes
    BY <1>3 DEF RelsOK, LiveNodes
  <2>2. Gathered(heap', B, n) = Gathered(heap, B, n)
    BY <1>1
  <2>3. (Sane' /\ heap[n].kind = "Filter") => Reads(n) \subseteq B[n]
    <3> SUFFICES ASSUME Sane', heap[n].kind = "Filter" PROVE Reads(n) \subseteq B[n]
      OBVIOUS
    <3>1. /\ IsWhole(heap[n]) /\ DOMAIN heap[n].child = {1} /\ Closed(heap, LiveNodes)
          /\ heap \in Seq(HeapNodes)
      BY <1>1, <2>1, AllWhole, NodesTyped DEF OptimizerInv, StructureOK, HeapOK, Formed, ArityOK
    <3>2. PICK c : c = heap[n].child[1]
      OBVIOUS
    <3>3. c \in LiveNodes /\ c \in DOMAIN heap /\ Live(c) /\ c # Null
      BY <2>1, <3>1, <3>2 DEF IsWhole, Closed, ChildrenOf, LiveNodes
    <3>4. NodeRels(B, c) /\ heap[c].schema \in Schemas
      BY <3>1, <3>3, NodesTyped DEF RelsOK
    <3>5. B[c] \subseteq B[n]
      <4>1. B[n] = Gathered(heap, B, n)
        BY <2>1, <3>1 DEF NodeRels
      <4> QED
        BY <3>1, <3>2, <3>3, <4>1, ChildRels
    <3>6. From(heap[c].schema, B[n])
      BY <3>4, <3>5 DEF From, NodeRels
    <3>7. ~Faulty(heap)
      BY <1>1 DEF Sane
    <3> QED
      BY <3>2, <3>6, <3>7, SaneReads DEF Reads
  <2> QED
    BY <1>1, <1>2, <2>1, <2>2, <2>3 DEF NodeRels
<1>4. \A n \in DOMAIN heap' : Live(n)' => NodeRels(B, n)'
  BY <1>1, <1>3 DEF Live
<1>5. DOMAIN frames' = {}
  BY <1>1
<1> QED
  BY <1>4, <1>5 DEF RelsOK

(* An exception leaves no node. *)
LEMMA RelsFail ==
  ASSUME OptimizerInv, Fail, NEW B
  PROVE  RelsOK(B)'
<1>1. frames' = <<>> /\ heap' = destroy(heap, DOMAIN heap)
  BY DEF Fail
<1>2. \A n \in DOMAIN heap' : ~Live(n)'
  <2>1. heap \in Seq(HeapNodes)
    BY DEF OptimizerInv, StructureOK, HeapOK, Formed
  <2>2. DOMAIN heap' = DOMAIN heap
        /\ \A n \in DOMAIN heap : heap'[n] = [heap[n] EXCEPT !.kind = "Destroyed", !.child = <<>>]
    BY <1>1 DEF destroy
  <2>3. \A n \in DOMAIN heap : heap[n] \in HeapNodes
    BY <2>1, NodesTyped
  <2>4. \A n \in DOMAIN heap : heap'[n].kind = "Destroyed"
    BY <2>2, <2>3 DEF HeapNodes
  <2> QED
    BY <2>2, <2>4 DEF Live
<1>3. DOMAIN frames' = {}
  BY <1>1
<1> QED
  BY <1>2, <1>3 DEF RelsOK

LEMMA RelsStay ==
  ASSUME NEW B, RelsOK(B), UNCHANGED <<heap, frames, ret, join_trie, given, outcome>>
  PROVE  RelsOK(B)'
<1>1. Pushing' = Pushing /\ Sane' = Sane /\ \A m : Reads(m)' = Reads(m)
  BY DEF Pushing, Sane, Reads, Here
<1>2. \A n : NodeRels(B, n)' <=> NodeRels(B, n)
  BY <1>1 DEF NodeRels
<1>3. \A f, b : FrameRels(B, f, b)' <=> FrameRels(B, f, b)
  BY <1>1 DEF FrameRels, EntryFits, Gathered
<1>4. \A i : Below(i)' = Below(i)
  BY DEF Below
<1> QED
  BY <1>2, <1>3, <1>4 DEF RelsOK, Live

LEMMA RelsStep ==
  ASSUME OptimizerInv, NEW B, RelsOK(B), [OptimizerNext]_optimizerVars
  PROVE  \E C : RelsOK(C)'
<1>1. CASE ChooseScan \/ WrapEnd
  BY <1>1, RelsReturned DEF ChooseScan, WrapEnd, In
<1>2. CASE ChooseChild \/ ChooseJoinChild
  BY <1>2, RelsChoose
<1>3. CASE ChooseSetChild
  BY <1>3, SetChildIs, RelsSetBack, RelsGoesOn
<1>4. CASE ChooseJoin
  BY <1>4, RelsChooseJoin
<1>5. CASE ChooseJoinEnd
  BY <1>5, RelsChooseJoinEnd
<1>6. CASE PushScan
  BY <1>6, RelsPushScan
<1>7. CASE PushFilter
  BY <1>7, RelsPushFilter
<1>8. CASE PushProjection
  BY <1>8, RelsPushProjection
<1>9. CASE PushProjectionEnd
  BY <1>9, PushProjectionEndIs, RelsSetBack
<1>10. CASE PushJoin
  BY <1>10, RelsPushJoin
<1>11. CASE PushJoinRight
  BY <1>11, RelsPushJoinRight
<1>12. CASE PushJoinEnd
  BY <1>12, PushJoinEndIs, RelsGoesOn
<1>13. CASE Wrap
  BY <1>13, RelsWrap
<1>14. CASE PushJoinThrow \/ StartPushThrow
  BY <1>14, RelsFail DEF PushJoinThrow, StartPushThrow
<1>15. CASE StartChoose
  BY <1>15, RelsStart DEF StartChoose
<1>16. CASE StartPush
  BY <1>16, RelsStart DEF StartPush
<1>17. CASE optimize \/ choose_join_sequence \/ push_down_filter
  BY <1>17, RelsCall DEF optimize, choose_join_sequence, push_down_filter
<1>18. CASE register_optimzer \/ UNCHANGED optimizerVars
  BY <1>18, RelsStay DEF register_optimzer, optimizerVars
<1> QED
  BY <1>1, <1>2, <1>3, <1>4, <1>5, <1>6, <1>7, <1>8, <1>9, <1>10, <1>11, <1>12, <1>13, <1>14,
     <1>15, <1>16, <1>17, <1>18 DEF OptimizerNext, OptimizerStep

-----------------------------------------------------------------------------
(***************************************************************************)
(* What a pass has finished.  D are the nodes whose subtree is rewritten:  *)
(* complete, without multi-way join.  S[n] is what the filters from n on   *)
(* stand on; under push_down_filter each of them must stay there.          *)
(***************************************************************************)
Stays(c, s) ==
  \/ heap[s].kind = "TableScan"
  \/ /\ heap[s].kind = "BinaryJoin"
     /\ check_direction(RelationsOf(heap[c].cond), join_trie[s]) = "Invalid"

StandsOn(S, n) ==
  /\ S[n] \in DOMAIN heap
  /\ IF heap[n].kind = "Filter" THEN S[n] = S[heap[n].child[1]] /\ Stays(n, S[n]) ELSE S[n] = n

DoneNode(D, S, n) ==
  /\ Live(n) /\ IsWhole(heap[n]) /\ heap[n].kind # "MultiJoin"
  /\ ChildrenOf(heap, n) \subseteq D
  /\ Pushing => StandsOn(S, n)

FrameDone(D, S, f) ==
  /\ f.cur # Null => f.cur \in D
  /\ (f.pass = "choose" /\ heap[f.node].kind # "MultiJoin") =>
       \A k \in DOMAIN heap[f.node].child : k <= f.done => heap[f.node].child[k] \in D
  /\ f.at = "right" => heap[f.node].child[1] \in D
  /\ f.at \in {"left", "right"} => \A k \in DOMAIN f.stay :
       check_direction(RelationsOf(heap[f.stay[k]].cond), join_trie[f.node]) = "Invalid"
  /\ f.at = "wrap" => f.node \in D /\ \A k \in DOMAIN f.stay : Stays(f.stay[k], S[f.node])

DoneRest(D) ==
  /\ ret # Null => ret \in D
  /\ (frames = <<>> /\ outcome \in {"choose", "push"}) => root \in D

DoneOK(D, S) ==
  /\ D \subseteq DOMAIN heap /\ \A n \in D : DoneNode(D, S, n)
  /\ \A i \in DOMAIN frames : FrameDone(D, S, frames[i])
  /\ DoneRest(D)

(* What is finished stays so, except at the node that changes. *)
LEMMA DoneAgain ==
  ASSUME OptimizerInv, frames # <<>>, NEW n, Steady(n), NEW D, NEW S, DoneOK(D, S),
         NEW E, E \subseteq DOMAIN heap', D \ {n} \subseteq E,
         NEW T, \A m \in D \ {n} : T[m] = S[m],
         \A m \in E : m \in D \ {n} \/ DoneNode(E, T, m)',
         \A i \in DOMAIN frames' :
           (i \in DOMAIN frames /\ i # Len(frames)) \/ FrameDone(E, T, frames[i])',
         DoneRest(E)'
  PROVE  DoneOK(E, T)'
<1>1. /\ join_trie' = join_trie /\ (Pushing' => Pushing)
      /\ \A m \in DOMAIN heap :
           /\ heap'[m].cond = heap[m].cond
           /\ heap'[m].kind = heap[m].kind
                \/ (heap[m].kind = "MultiJoin" /\ heap'[m].kind = "Destroyed")
  BY DEF Steady
<1>2. Null \notin DOMAIN heap /\ D \subseteq DOMAIN heap
  BY NodesTyped DEF OptimizerInv, StructureOK, HeapOK, Formed, Null, DoneOK
<1>3. ASSUME NEW c \in DOMAIN heap, NEW s \in DOMAIN heap, Stays(c, s) PROVE Stays(c, s)'
  BY <1>1, <1>3 DEF Stays
<1>4. ASSUME NEW m \in D \ {n} PROVE DoneNode(E, T, m)'
  <2>1. DoneNode(D, S, m) /\ m \in DOMAIN heap /\ m # n
    BY <1>2, <1>4 DEF DoneOK
  <2>2. /\ heap'[m] = heap[m] /\ (Live(m)' <=> Live(m))
             /\ ChildrenOf(heap', m) = ChildrenOf(heap, m)
        /\ \A c \in ChildrenOf(heap, m) \ {Null} : c \in DOMAIN heap /\ c # n
    BY <2>1, OtherNode
  <2>3. \A c \in ChildrenOf(heap, m) : c \in D /\ c # n /\ T[c] = S[c]
    BY <1>2, <2>1, <2>2 DEF DoneNode
  <2>4. Pushing' => StandsOn(T, m)'
    <3> SUFFICES ASSUME Pushing' PROVE StandsOn(T, m)'
      OBVIOUS
    <3>1. StandsOn(S, m) /\ T[m] = S[m]
      BY <1>1, <1>4, <2>1 DEF DoneNode
    <3>2. S[m] \in DOMAIN heap'
      BY <3>1 DEF StandsOn, Steady, OnlyAt
    <3>3. CASE heap[m].kind = "Filter"
      <4>1. 1 \in DOMAIN heap[m].child
        BY <2>1, <3>3, NodesTyped DEF OptimizerInv, StructureOK, HeapOK, Formed, ArityOK
      <4>2. T[heap[m].child[1]] = S[heap[m].child[1]]
        BY <2>3, <4>1 DEF ChildrenOf
      <4>3. Stays(m, S[m])'
        BY <1>3, <2>1, <3>1, <3>3 DEF StandsOn
      <4> QED
        BY <2>2, <3>1, <3>2, <3>3, <4>2, <4>3 DEF StandsOn
    <3>4. CASE heap[m].kind # "Filter"
      BY <2>2, <3>1, <3>2, <3>4 DEF StandsOn
    <3> QED
      BY <3>3, <3>4
  <2> QED
    BY <2>1, <2>2, <2>3, <2>4 DEF DoneNode
<1>5. ASSUME NEW i \in DOMAIN frames', i \in DOMAIN frames, i # Len(frames)
      PROVE  FrameDone(E, T, frames[i])'
  <2>1. PICK f : f = frames[i] /\ frames'[i] = f
    BY <1>5 DEF Steady
  <2>2. FrameDone(D, S, f)
    BY <1>5, <2>1 DEF DoneOK
  <2>3. /\ f.node \in DOMAIN heap /\ f.node # n /\ Live(f.node)
        /\ f.cur # Null => f.cur \in DOMAIN heap /\ f.cur # n
        /\ \A k \in DOMAIN f.stay : f.stay[k] \in DOMAIN heap
    BY <1>5, <2>1, OtherFrame
  <2>4. heap'[f.node] = heap[f.node]
        /\ \A k \in DOMAIN heap[f.node].child : heap[f.node].child[k] # Null
             => heap[f.node].child[k] # n
    BY <2>3, OtherNode
  <2>5. ~(f.at = "wrap")
    <3>1. /\ frames \in Seq(FrameTypes) /\ Len(frames) \in Nat \ {0}
          /\ DOMAIN frames = 1 .. Len(frames)
      BY HereOK DEF OptimizerInv
    <3>2. i < Len(frames)
      BY <1>5, <3>1
    <3>3. Waits(f)
      BY <1>5, <2>1, <3>2 DEF OptimizerInv, StructureOK, StackOK
    <3> QED
      BY <3>3 DEF Waits
  <2>6. f.cur # Null => f.cur \in E
    BY <2>2, <2>3 DEF FrameDone
  <2>7. \A k \in DOMAIN heap[f.node].child : heap[f.node].child[k] \in D
        => heap[f.node].child[k] \in E
    BY <1>2, <2>4
  <2>8. f.at = "right" => heap[f.node].child[1] \in E
    <3> SUFFICES ASSUME f.at = "right" PROVE heap[f.node].child[1] \in E
      OBVIOUS
    <3>1. FrameOK(f, heap) /\ f.pass \in {"choose", "push"}
      <4>1. f \in FrameTypes /\ FrameOK(f, heap)
        BY <1>5, <2>1 DEF OptimizerInv, StructureOK, FramesOK
      <4> QED
        BY <4>1, FrameTyped
    <3>2. heap[f.node].kind = "BinaryJoin"
      BY <3>1 DEF FrameOK, ChooseShape, PushShape
    <3>3. 1 \in DOMAIN heap[f.node].child
      BY <2>3, <3>2, NodesTyped DEF OptimizerInv, StructureOK, HeapOK, Formed, ArityOK
    <3> QED
      BY <2>2, <2>7, <3>3 DEF FrameDone
  <2>9. FrameDone(E, T, f)'
    BY <1>1, <2>2, <2>3, <2>4, <2>5, <2>6, <2>7, <2>8 DEF FrameDone
  <2> QED
    BY <2>1, <2>9
<1>6. \A m \in E : DoneNode(E, T, m)'
  BY <1>4
<1>7. \A i \in DOMAIN frames' : FrameDone(E, T, frames[i])'
  BY <1>5
<1> QED
  BY <1>6, <1>7 DEF DoneOK

\* What is added to the finished nodes, and what is known of it.
Grows(n, D, S, E, T) ==
  /\ E \subseteq DOMAIN heap' /\ D \ {n} \subseteq E /\ \A m \in D \ {n} : T[m] = S[m]
  /\ \A m \in E : m \in D \ {n} \/ DoneNode(E, T, m)'

(* What is finished after a step, by what the step does to the stack. *)
LEMMA DoneGoes ==
  ASSUME OptimizerInv, frames # <<>>, NEW n, Changes(n), Quiet, NEW f, Goes(f), ret' = Null,
         NEW D, NEW S, DoneOK(D, S), NEW E, NEW T, Grows(n, D, S, E, T), FrameDone(E, T, f)'
  PROVE  DoneOK(E, T)'
<1>1. /\ Steady(n) /\ DOMAIN frames' = DOMAIN frames /\ frames' # <<>> /\ frames'[Len(frames)] = f
  BY SteadyGoes
<1>3. \A i \in DOMAIN frames' :
      (i \in DOMAIN frames /\ i # Len(frames)) \/ FrameDone(E, T, frames[i])'
  <2>1. PICK N : N = Len(frames)
    OBVIOUS
  <2>2. FrameDone(E, T, frames[N])'
    BY <1>1, <2>1
  <2> QED
    BY <1>1, <2>1, <2>2
<1>4. DoneRest(E)'
  BY <1>1 DEF DoneRest
<1> QED
  BY <1>1, <1>3, <1>4, DoneAgain DEF Grows

LEMMA DoneDown ==
  ASSUME OptimizerInv, frames # <<>>, NEW n, Changes(n), Quiet, ret' = Null,
         NEW f, NEW c, NEW arr, GoesDown(f, c, arr),
         NEW D, NEW S, DoneOK(D, S), NEW E, NEW T, Grows(n, D, S, E, T), FrameDone(E, T, f)'
  PROVE  DoneOK(E, T)'
<1>1. /\ Steady(n) /\ DOMAIN frames' = DOMAIN frames \cup {Len(frames) + 1}
      /\ Len(frames') = Len(frames) + 1 /\ frames' # <<>>
      /\ frames'[Len(frames)] = f /\ frames'[Len(frames) + 1] = Frame(f.pass, c, arr)
      /\ Fresh(Frame(f.pass, c, arr), f.pass, c, arr)
  BY SteadyDown
<1>2. PICK N, g : N = Len(frames) /\ g = Frame(f.pass, c, arr)
  OBVIOUS
<1>3. g.pass = f.pass /\ g.node = c /\ g.at = "enter" /\ g.cur = Null /\ g.done = 0
  BY <1>2 DEF Frame
<1>4. c \in DOMAIN heap /\ c \in DOMAIN heap' /\ heap' \in Seq(HeapNodes)
  BY DEF GoesDown, Changes, OnlyAt
<1>5. \A k \in DOMAIN heap'[c].child : ~(k <= 0)
  <2>1. heap'[c].child \in Seq(Nat)
    BY <1>4, NodesTyped
  <2> QED
    BY <2>1
<1>6. FrameDone(E, T, g)'
  BY <1>3, <1>5 DEF FrameDone
<1>7. \A i \in DOMAIN frames' :
      (i \in DOMAIN frames /\ i # Len(frames)) \/ FrameDone(E, T, frames[i])'
  <2>1. FrameDone(E, T, frames[N])'
    BY <1>1, <1>2
  <2>2. FrameDone(E, T, frames[N + 1])'
    BY <1>1, <1>2, <1>6
  <2> QED
    BY <1>1, <1>2, <2>1, <2>2
<1>8. DoneRest(E)'
  BY <1>1 DEF DoneRest
<1> QED
  BY <1>1, <1>7, <1>8, DoneAgain DEF Grows

LEMMA DoneBack ==
  ASSUME OptimizerInv, frames # <<>>, NEW n, Changes(n), Quiet, NEW m, GiveBack(m),
         NEW D, NEW S, DoneOK(D, S), NEW E, NEW T, Grows(n, D, S, E, T), m \in E
  PROVE  DoneOK(E, T)'
<1>1. /\ Steady(n) /\ DOMAIN frames' = DOMAIN frames \ {Len(frames)}
      /\ Len(frames) # 1 => ret' = m /\ frames' # <<>>
      /\ Len(frames) = 1 => ret' = Null /\ root' = m /\ frames' = <<>>
  BY SteadyBack
<1>2. \A i \in DOMAIN frames' :
      (i \in DOMAIN frames /\ i # Len(frames)) \/ FrameDone(E, T, frames[i])'
  BY <1>1
<1>3. DoneRest(E)'
  BY <1>1 DEF DoneRest
<1> QED
  BY <1>1, <1>2, <1>3, DoneAgain DEF Grows

\* Nothing is added.
LEMMA GrowsNot ==
  ASSUME OptimizerInv, frames # <<>>, NEW n, Changes(n), NEW D, NEW S, DoneOK(D, S)
  PROVE  Grows(n, D, S, D \ {n}, S)
BY DEF Grows, Changes, OnlyAt, DoneOK

\* The top activation.
LEMMA TopDone ==
  ASSUME OptimizerInv, frames # <<>>, NEW D, NEW S, DoneOK(D, S)
  PROVE  /\ FrameDone(D, S, Here) /\ D \subseteq DOMAIN heap /\ Null \notin D
         /\ ret # Null => ret \in D
<1>1. Here = frames[Len(frames)] /\ Len(frames) \in DOMAIN frames
  BY HereOK DEF OptimizerInv
<1>2. Null \notin DOMAIN heap
  BY NodesTyped DEF OptimizerInv, StructureOK, HeapOK, Formed, Null
<1> QED
  BY <1>1, <1>2 DEF DoneOK, DoneRest

\* What is written in a step keeps what a filter stands on.
LEMMA StaysStill ==
  ASSUME NEW n, Changes(n), join_trie' = join_trie, NEW c \in DOMAIN heap, NEW s \in DOMAIN heap,
         Stays(c, s)
  PROVE  Stays(c, s)'
BY DEF Stays, Changes

(* ChooseScan, WrapEnd *)
LEMMA DoneChooseScan ==
  ASSUME OptimizerInv, ChooseScan, NEW D, NEW S, DoneOK(D, S)
  PROVE  \E E, T : DoneOK(E, T)'
<1>1. PICK n : n = Here.node
  OBVIOUS
<1>2. /\ frames # <<>> /\ Here.pass = "choose" /\ heap[n].kind = "TableScan"
      /\ heap' = heap /\ Quiet /\ GiveBack(n)
  BY <1>1 DEF ChooseScan, In
<1>3. /\ heap \in Seq(HeapNodes) /\ n \in DOMAIN heap /\ Live(n) /\ ArityOK(heap[n])
      /\ Null \notin DOMAIN heap
  BY <1>1, <1>2, HereOK, NodesTyped DEF OptimizerInv, Null
<1>4. DOMAIN heap[n].child = {}
  BY <1>2, <1>3, NodesTyped DEF ArityOK
<1>5. Changes(Null)
  BY <1>2, ChangesNothing
<1>6. ~Pushing'
  <2>1. Steady(Null)
    BY <1>2, <1>5, SteadyBack
  <2> QED
    BY <1>2, <2>1 DEF Steady, Pushing
<1>7. PICK E : E = D \cup {n}
  OBVIOUS
<1>8. DoneNode(E, S, n)'
  BY <1>2, <1>3, <1>4, <1>6 DEF DoneNode, IsWhole, ChildrenOf, Live
<1>9. Grows(Null, D, S, E, S)
  BY <1>2, <1>3, <1>7, <1>8, TopDone DEF Grows
<1> QED
  BY <1>1, <1>2, <1>5, <1>7, <1>9, DoneBack

LEMMA DoneWrapEnd ==
  ASSUME OptimizerInv, WrapEnd, NEW D, NEW S, DoneOK(D, S)
  PROVE  \E E, T : DoneOK(E, T)'
<1>1. frames # <<>> /\ Here.at = "wrap" /\ heap' = heap /\ Quiet /\ GiveBack(Here.node)
  BY DEF WrapEnd
<1>2. Changes(Null) /\ Here.node \in D \ {Null}
  BY <1>1, ChangesNothing, TopDone DEF FrameDone
<1>3. Grows(Null, D, S, D \ {Null}, S)
  BY <1>1, <1>2, GrowsNot
<1> QED
  BY <1>1, <1>2, <1>3, DoneBack

(* A child is taken for a call: its node is not finished. *)
LEMMA DonePulled ==
  ASSUME OptimizerInv, NEW k, NEW f, NEW arr, Pulls(k, f, arr), f.at \in {"child", "left"},
         Here.cur = Null \/ heap[Here.node].kind = "MultiJoin",
         Here.pass = "choose" => k = Here.done + 1,
         f.at = "left" => \A j \in DOMAIN f.stay :
           check_direction(RelationsOf(heap[f.stay[j]].cond), join_trie[f.node]) = "Invalid",
         NEW D, NEW S, DoneOK(D, S)
  PROVE  \E E, T : DoneOK(E, T)'
<1>1. PICK n, c : n = Here.node /\ c = heap[n].child[k]
  OBVIOUS
<1>2. /\ frames # <<>> /\ n \in DOMAIN heap /\ k \in DOMAIN heap[n].child
      /\ heap' = transfer_child(heap, n, k) /\ ret = Null /\ ret' = ret /\ Quiet
      /\ GoesDown(f, c, arr) /\ f.node = n /\ f.cur = Here.cur /\ f.done = Here.done
      /\ Handed(f, arr)
  BY <1>1 DEF Pulls
<1>3. heap \in Seq(HeapNodes) /\ Here \in FrameTypes /\ n # Null
  BY <1>1, <1>2, HereOK DEF OptimizerInv
<1>4. SameBut(heap', heap, n)
      /\ \A j \in DOMAIN heap[n].child :
           heap'[n].child[j] = IF j = k THEN Null ELSE heap[n].child[j]
  BY <1>2, <1>3, Transferred
<1>5. /\ heap'[n].kind = heap[n].kind /\ DOMAIN heap'[n].child = DOMAIN heap[n].child
      /\ \A m \in DOMAIN heap : heap'[m].cond = heap[m].cond
  BY <1>4 DEF SameBut
<1>6. Changes(n)
  BY <1>1, <1>2, <1>4, ChangesHere
<1>7. FrameDone(D, S, Here) /\ D \subseteq DOMAIN heap
  BY <1>2, TopDone
<1>8. f.cur # Null => f.cur \in D \ {n}
  <2>1. heap[n].kind = "MultiJoin" => n \notin D
    BY DEF DoneOK, DoneNode
  <2> QED
    BY <1>1, <1>2, <1>7, <2>1 DEF FrameDone
<1>9. PICK E : E = D \ {n}
  OBVIOUS
<1>10. FrameDone(E, S, f)'
  <2>1. ASSUME f.pass = "choose", heap[n].kind # "MultiJoin",
               NEW j \in DOMAIN heap[n].child, j <= f.done
        PROVE  heap'[n].child[j] \in E
    <3>1. f.pass = Here.pass /\ Here.done \in Nat
      BY <1>2, <1>3, FrameTyped DEF GoesDown
    <3>2. ~(k <= Here.done)
      BY <2>1, <3>1
    <3>3. heap'[n].child[j] = heap[n].child[j]
      BY <1>2, <1>4, <2>1, <3>2
    <3>4. heap[n].child[j] \in D
      BY <1>1, <1>2, <1>7, <2>1, <3>1 DEF FrameDone
    <3>5. heap[n].child[j] # n
      BY <1>1, <1>2, <1>3, TopLoose, NodeOnTop DEF Loose, ChildrenOf, OptimizerInv
    <3> QED
      BY <1>9, <3>3, <3>4, <3>5
  <2>2. \A j \in DOMAIN f.stay : f.stay[j] \in DOMAIN heap
    BY <1>2 DEF Handed, CarriesOK, IsLoose
  <2>3. f.at = "left" => \A j \in DOMAIN f.stay :
          check_direction(RelationsOf(heap'[f.stay[j]].cond), join_trie'[f.node]) = "Invalid"
    BY <1>2, <1>5, <2>2 DEF Quiet
  <2> QED
    BY <1>2, <1>5, <1>8, <1>9, <2>1, <2>3 DEF FrameDone
<1>11. Grows(n, D, S, E, S)
  BY <1>2, <1>6, <1>9, GrowsNot
<1>12. ret' = Null
  BY <1>2
<1>13. DoneOK(E, S)'
  BY <1>2, <1>6, <1>10, <1>11, <1>12, DoneDown
<1> QED
  BY <1>13

LEMMA DoneChoose ==
  ASSUME OptimizerInv, ChooseChild \/ ChooseJoinChild, NEW D, NEW S, DoneOK(D, S)
  PROVE  \E E, T : DoneOK(E, T)'
<1>1. PICK f, none, k : k = Here.done + 1 /\ none = <<>> /\ Pulls(k, f, none) /\ f.at = "child"
  BY ChooseIs
<1>2. Here.cur = Null \/ heap[Here.node].kind = "MultiJoin"
  <2>1. /\ Here.pass = "choose"
        /\ heap[Here.node].kind \in {"Filter", "Projection", "BinaryJoin", "MultiJoin"}
    BY ChooseIs
  <2>2. frames # <<>>
    BY <1>1 DEF Pulls
  <2> QED
    BY <2>1, <2>2, HereOK DEF OptimizerInv, ChooseShape
<1> QED
  BY <1>1, <1>2, DonePulled

LEMMA DonePushProjection ==
  ASSUME OptimizerInv, PushProjection, NEW D, NEW S, DoneOK(D, S)
  PROVE  \E E, T : DoneOK(E, T)'
<1>1. PICK f, arr : arr = Here.arr /\ Pulls(1, f, arr) /\ f.at = "child"
  BY PushProjectionIs
<1>2. Here.cur = Null /\ Here.pass = "push"
  BY PushProjectionIs
<1> QED
  BY <1>1, <1>2, DonePulled

LEMMA DonePushJoin ==
  ASSUME OptimizerInv, PushJoin, NEW B, RelsOK(B), NEW D, NEW S, DoneOK(D, S)
  PROVE  \E E, T : DoneOK(E, T)'
<1>1. PICK f, arr :
        /\ Pulls(1, f, arr) /\ f.at = "left"
        /\ \A k \in DOMAIN f.stay : \E i \in DOMAIN Here.arr :
             /\ f.stay[k] = Here.arr[i].filter
             /\ check_direction(Here.arr[i].relations, join_trie[Here.node]) = "Invalid"
  BY PushJoinIs
<1>2. Here.cur = Null /\ Here.pass = "push" /\ frames # <<>> /\ f.node = Here.node
  BY <1>1, PushJoinIs DEF Pulls
<1>3. \A i \in DOMAIN Here.arr : Here.arr[i].relations = RelationsOf(heap[Here.arr[i].filter].cond)
  BY <1>2, TopRels DEF FrameRels, EntryFits
<1>4. \A j \in DOMAIN f.stay :
        check_direction(RelationsOf(heap[f.stay[j]].cond), join_trie[f.node]) = "Invalid"
  BY <1>1, <1>2, <1>3
<1> QED
  BY <1>1, <1>2, <1>4, DonePulled

LEMMA DonePushJoinRight ==
  ASSUME OptimizerInv, PushJoinRight, NEW D, NEW S, DoneOK(D, S)
  PROVE  \E E, T : DoneOK(E, T)'
<1>1. PICK n, c, rgt : n = Here.node /\ c = heap[n].child[2] /\ rgt = Here.rgt
  OBVIOUS
<1>2. PICK f : /\ GoesDown(f, c, rgt) /\ f.node = n /\ f.at = "right" /\ f.cur = Null
               /\ f.stay = Here.stay
  BY <1>1, PushJoinRightIs
<1>3. /\ frames # <<>> /\ Here.at = "left" /\ Here.pass = "push" /\ SameBut(heap', heap, n)
      /\ heap'[n].child[1] = ret /\ ret # Null /\ Quiet /\ ret' = Null
      /\ \A k \in DOMAIN Here.stay : Here.stay[k] \in DOMAIN heap
  BY <1>1, PushJoinRightIs
<1>4. Changes(n) /\ \A m \in DOMAIN heap : heap'[m].cond = heap[m].cond
  BY <1>1, <1>3, ChangesHere DEF Changes
<1>5. PICK E : E = D \ {n}
  OBVIOUS
<1>6. ret \in E
  BY <1>1, <1>3, <1>5, TopDone, RetIs, NodeOnTop DEF OptimizerInv
<1>7. FrameDone(E, S, f)'
  <2>1. FrameDone(D, S, Here) /\ f.pass = "push"
    BY <1>2, <1>3, TopDone DEF GoesDown
  <2>2. \A k \in DOMAIN f.stay :
          check_direction(RelationsOf(heap'[f.stay[k]].cond), join_trie'[f.node]) = "Invalid"
    BY <1>1, <1>2, <1>3, <1>4, <2>1 DEF FrameDone, Quiet
  <2> QED
    BY <1>2, <1>3, <1>6, <2>1, <2>2 DEF FrameDone
<1>8. Grows(n, D, S, E, S)
  BY <1>3, <1>4, <1>5, GrowsNot
<1>9. DoneOK(E, S)'
  BY <1>2, <1>3, <1>4, <1>7, <1>8, DoneDown
<1> QED
  BY <1>9

LEMMA DonePushFilter ==
  ASSUME OptimizerInv, PushFilter, NEW D, NEW S, DoneOK(D, S)
  PROVE  \E E, T : DoneOK(E, T)'
<1>1. PICK n : n = Here.node
  OBVIOUS
<1>2. PICK f : Goes(f) /\ f.at = "enter" /\ f.cur = Null
  BY PushFilterIs
<1>3. frames # <<>> /\ Here.pass = "push" /\ SameBut(heap', heap, n) /\ ret' = Null /\ Quiet
  BY <1>1, PushFilterIs
<1>4. Changes(n)
  BY <1>1, <1>3, ChangesHere
<1>5. PICK E : E = D \ {n}
  OBVIOUS
<1>6. FrameDone(E, S, f)'
  BY <1>2, <1>3 DEF FrameDone, Goes
<1>7. Grows(n, D, S, E, S)
  BY <1>3, <1>4, <1>5, GrowsNot
<1>8. DoneOK(E, S)'
  BY <1>2, <1>3, <1>4, <1>6, <1>7, DoneGoes
<1> QED
  BY <1>8

(* A node is finished when it has its children back: the filters stand on it. *)
LEMMA GrowsHere ==
  ASSUME OptimizerInv, frames # <<>>, NEW n, n = Here.node, Changes(n), DOMAIN heap' = DOMAIN heap,
         NEW D, NEW S, DoneOK(D, S), IsWhole(heap'[n]),
         heap'[n].kind \in {"TableScan", "Filter", "Projection", "BinaryJoin"},
         ChildrenOf(heap', n) \subseteq D, n \notin ChildrenOf(heap', n),
         Pushing' => heap'[n].kind # "Filter"
  PROVE  \E E, T : E = D \cup {n} /\ T[n] = n /\ Grows(n, D, S, E, T)
<1>1. PICK E, T : E = D \cup {n} /\ T = [m \in DOMAIN heap |-> IF m = n THEN n ELSE S[m]]
  OBVIOUS
<1>2. n \in DOMAIN heap
  BY HereOK DEF OptimizerInv
<1>3. D \subseteq DOMAIN heap
  BY DEF DoneOK
<1>4. T[n] = n /\ \A m \in D \ {n} : T[m] = S[m]
  BY <1>1, <1>2, <1>3
<1>5. DoneNode(E, T, n)'
  <2>1. Pushing' => StandsOn(T, n)'
    BY <1>2, <1>4 DEF StandsOn
  <2> QED
    BY <1>1, <2>1 DEF DoneNode, Live
<1>6. Grows(n, D, S, E, T)
  BY <1>1, <1>2, <1>3, <1>4, <1>5 DEF Grows
<1> QED
  BY <1>1, <1>4, <1>6

LEMMA DonePushScan ==
  ASSUME OptimizerInv, PushScan, NEW D, NEW S, DoneOK(D, S)
  PROVE  \E E, T : DoneOK(E, T)'
<1>1. PICK f, n : /\ n = Here.node
                  /\ f = [Here EXCEPT !.at = "wrap", !.arr = <<>>, !.stay = FiltersOf(Here.arr)]
  OBVIOUS
<1>2. /\ frames # <<>> /\ Here.pass = "push" /\ Here.at = "enter" /\ heap[n].kind = "TableScan"
      /\ Continue(f) /\ heap' = heap /\ ret' = ret /\ outcome' = outcome /\ Quiet
  BY <1>1 DEF PushScan, In
<1>3. /\ Here \in FrameTypes /\ n \in DOMAIN heap /\ heap \in Seq(HeapNodes) /\ ArityOK(heap[n])
      /\ PushShape(Here, heap[n]) /\ (Waits(Here) <=> ret # Null)
  BY <1>1, <1>2, HereOK DEF OptimizerInv
<1>4. Here.arr \in Seq(FilterEntries) /\ FiltersOf(Here.arr) \in Seq(Nat)
  BY <1>3, FrameTyped, FiltersAre
<1>5. /\ f \in FrameTypes /\ f.pass = Here.pass /\ f.node = n /\ f.at = "wrap" /\ f.cur = Here.cur
  BY <1>1, <1>3, <1>4, FrameScanned
<1>6. Here.cur = Null /\ ret = Null
  BY <1>2, <1>3 DEF PushShape, Waits
<1>7. Goes(f) /\ Changes(n)
  BY <1>1, <1>2, <1>3, <1>5, NodeOnTop DEF Goes, Changes, OnlyAt
<1>8. DOMAIN heap[n].child = {}
  BY <1>2, <1>3, NodesTyped DEF ArityOK
<1>9. PICK E, T : E = D \cup {n} /\ T[n] = n /\ Grows(n, D, S, E, T)
  <2>1. IsWhole(heap'[n]) /\ ChildrenOf(heap', n) = {} /\ heap'[n].kind = "TableScan"
    BY <1>2, <1>8 DEF IsWhole, ChildrenOf
  <2>2. "TableScan" # "Filter"
    OBVIOUS
  <2> QED
    BY <1>1, <1>2, <1>7, <2>1, <2>2, GrowsHere
<1>10. FrameDone(E, T, f)'
  <2>1. \A x : Stays(x, n)'
    BY <1>2 DEF Stays
  <2> QED
    BY <1>2, <1>5, <1>6, <1>9, <2>1 DEF FrameDone
<1>11. DoneOK(E, T)'
  BY <1>2, <1>6, <1>7, <1>9, <1>10, DoneGoes
<1> QED
  BY <1>11

\* The children of the node that got a result are finished.
LEMMA BackDone ==
  ASSUME OptimizerInv, NEW k, SetsBack(k), outcome' \in {outcome, Here.pass},
         NEW D, NEW S, DoneOK(D, S), Here.pass = "choose" => k = Len(heap[Here.node].child)
  PROVE  ChildrenOf(heap', Here.node) \subseteq D /\ Here.node \notin ChildrenOf(heap', Here.node)
<1>1. PICK n : n = Here.node
  OBVIOUS
<1>2. /\ frames # <<>> /\ ret # Null /\ ret # n /\ n \in DOMAIN heap /\ SameBut(heap', heap, n)
      /\ k \in DOMAIN heap[n].child
      /\ \A j \in DOMAIN heap[n].child : heap'[n].child[j] = IF j = k THEN ret ELSE heap[n].child[j]
      /\ heap[n].kind \in {"Filter", "Projection", "BinaryJoin"}
  BY <1>1, BackIs
<1>3. DOMAIN heap'[n].child = DOMAIN heap[n].child
  BY <1>2 DEF SameBut
<1>4. FrameDone(D, S, Here) /\ ret \in D
  BY <1>2, TopDone
<1>5. /\ heap \in Seq(HeapNodes) /\ Here \in FrameTypes /\ n # Null /\ ArityOK(heap[n])
  BY <1>1, <1>2, HereOK DEF OptimizerInv
<1>6. heap[n].child \in Seq(Nat) /\ Here.done \in Nat /\ Here.pass \in {"choose", "push"}
  BY <1>2, <1>5, NodesTyped, FrameTyped
<1>7. ASSUME NEW j \in DOMAIN heap[n].child, j # k PROVE heap[n].child[j] \in D
  <2>1. CASE Here.pass = "choose"
    <3>1. k = Here.done + 1 /\ k = Len(heap[n].child)
      BY <1>1, <1>2, <2>1 DEF SetsBack
    <3>2. j <= Here.done
      BY <1>6, <1>7, <3>1
    <3> QED
      BY <1>1, <1>2, <1>4, <2>1, <3>2 DEF FrameDone
  <2>2. CASE Here.pass = "push"
    <3>1. CASE heap[n].kind = "BinaryJoin"
      <4>1. Here.at = "right" /\ k = 2
        BY <1>1, <2>2, <3>1 DEF SetsBack, Back, WaitsFor
      <4>2. DOMAIN heap[n].child = {1, 2}
        BY <1>5, <1>6, <3>1 DEF ArityOK
      <4> QED
        BY <1>1, <1>4, <1>7, <4>1, <4>2 DEF FrameDone
    <3>2. CASE heap[n].kind # "BinaryJoin"
      <4>1. DOMAIN heap[n].child = {1}
        BY <1>2, <1>5, <1>6, <3>2 DEF ArityOK
      <4> QED
        BY <1>2, <1>7, <4>1
    <3> QED
      BY <3>1, <3>2
  <2> QED
    BY <1>6, <2>1, <2>2
<1>8. \A j \in DOMAIN heap[n].child : heap[n].child[j] # n
  BY <1>1, <1>2, <1>5, TopLoose, NodeOnTop DEF Loose, ChildrenOf, OptimizerInv
<1>9. \A j \in DOMAIN heap'[n].child : heap'[n].child[j] \in D /\ heap'[n].child[j] # n
  BY <1>2, <1>3, <1>4, <1>7, <1>8
<1> QED
  BY <1>1, <1>9 DEF ChildrenOf

LEMMA DoneSetBack ==
  ASSUME OptimizerInv, NEW k, SetsBack(k), GiveBack(Here.node),
         Here.pass = "choose" => k = Len(heap[Here.node].child), NEW D, NEW S, DoneOK(D, S)
  PROVE  \E E, T : DoneOK(E, T)'
<1>1. PICK n : n = Here.node
  OBVIOUS
<1>2. frames # <<>> /\ frames \in Seq(FrameTypes)
  BY HereOK DEF SetsBack, Back, OptimizerInv
<1>3. outcome' \in {outcome, Here.pass}
  BY <1>2, GivenBack
<1>4. /\ Changes(n) /\ Quiet /\ IsWhole(heap'[n]) /\ DOMAIN heap' = DOMAIN heap
      /\ SameBut(heap', heap, n) /\ heap[n].kind \in {"Filter", "Projection", "BinaryJoin"}
  BY <1>1, <1>3, BackIs DEF SetsBack
<1>5. heap'[n].kind = heap[n].kind
  BY <1>4 DEF SameBut
<1>6. ChildrenOf(heap', n) \subseteq D /\ n \notin ChildrenOf(heap', n)
  BY <1>1, <1>3, BackDone
<1>7. Pushing' => heap'[n].kind # "Filter"
  <2>1. Pushing' => Pushing
    BY <1>1, <1>2, <1>4, SteadyBack DEF Steady
  <2> QED
    BY <1>1, <1>2, <1>5, <2>1 DEF Pushing, SetsBack
<1>8. PICK E, T : E = D \cup {n} /\ T[n] = n /\ Grows(n, D, S, E, T)
  BY <1>1, <1>2, <1>4, <1>5, <1>6, <1>7, GrowsHere
<1>9. DoneOK(E, T)'
  BY <1>1, <1>2, <1>4, <1>8, DoneBack
<1> QED
  BY <1>9

LEMMA DoneGoesOn ==
  ASSUME OptimizerInv, NEW k, SetsBack(k), NEW f, GoesOnAt(k, f), NEW D, NEW S, DoneOK(D, S)
  PROVE  \E E, T : DoneOK(E, T)'
<1>1. PICK n : n = Here.node
  OBVIOUS
<1>2. /\ frames # <<>> /\ Goes(f) /\ f.node = n /\ f.cur = Null /\ f.stay = Here.stay
      /\ ret' = Null /\ outcome' = outcome /\ f.pass = Here.pass
  BY <1>1 DEF SetsBack, Back, GoesOnAt, Goes
<1>3. /\ Changes(n) /\ Quiet /\ IsWhole(heap'[n]) /\ DOMAIN heap' = DOMAIN heap /\ n \in DOMAIN heap
      /\ SameBut(heap', heap, n) /\ heap[n].kind \in {"Filter", "Projection", "BinaryJoin"}
      /\ k \in DOMAIN heap[n].child /\ ret # Null /\ ret # n
      /\ \A j \in DOMAIN heap[n].child : heap'[n].child[j] = IF j = k THEN ret ELSE heap[n].child[j]
  BY <1>1, <1>2, BackIs DEF SetsBack
<1>4. heap'[n].kind = heap[n].kind /\ DOMAIN heap'[n].child = DOMAIN heap[n].child
      /\ \A m \in DOMAIN heap : heap'[m].cond = heap[m].cond
  BY <1>3 DEF SameBut
<1>5. FrameDone(D, S, Here) /\ ret \in D
  BY <1>2, <1>3, TopDone
<1>6. /\ heap \in Seq(HeapNodes) /\ Here \in FrameTypes /\ n # Null
  BY <1>1, <1>2, HereOK DEF OptimizerInv
<1>7. CASE Here.pass = "choose" /\ f.at = "enter" /\ f.done = k
  <2>1. k = Here.done + 1 /\ Here.done \in Nat /\ heap[n].child \in Seq(Nat)
    BY <1>1, <1>3, <1>6, <1>7, NodesTyped, FrameTyped DEF SetsBack
  <2>2. ASSUME NEW j \in DOMAIN heap[n].child, j <= k PROVE heap'[n].child[j] \in D \ {n}
    <3>1. CASE j = k
      BY <1>3, <1>5, <3>1
    <3>2. CASE j # k
      <4>1. j <= Here.done
        BY <2>1, <2>2, <3>2
      <4>2. heap[n].child[j] \in D
        BY <1>1, <1>3, <1>5, <1>7, <4>1 DEF FrameDone
      <4>3. heap[n].child[j] # n
        BY <1>1, <1>2, <1>6, <1>3, TopLoose, NodeOnTop DEF Loose, ChildrenOf, OptimizerInv
      <4> QED
        BY <1>3, <3>2, <4>2, <4>3
    <3> QED
      BY <3>1, <3>2
  <2>3. PICK E : E = D \ {n}
    OBVIOUS
  <2>4. FrameDone(E, S, f)'
    BY <1>2, <1>4, <1>7, <2>2, <2>3 DEF FrameDone
  <2>5. Grows(n, D, S, E, S)
    BY <1>2, <1>3, <2>3, GrowsNot
  <2>6. DoneOK(E, S)'
    BY <1>2, <1>3, <2>4, <2>5, DoneGoes
  <2> QED
    BY <2>6
<1>8. CASE Here.pass = "push" /\ f.at = "wrap" /\ heap[n].kind = "BinaryJoin"
  <2>1. ChildrenOf(heap', n) \subseteq D /\ n \notin ChildrenOf(heap', n)
    BY <1>1, <1>2, <1>8, BackDone
  <2>2. PICK E, T : E = D \cup {n} /\ T[n] = n /\ Grows(n, D, S, E, T)
    BY <1>1, <1>2, <1>3, <1>4, <1>8, <2>1, GrowsHere
  <2>3. Here.at = "right"
    BY <1>1, <1>8 DEF SetsBack
  <2>4. \A j \in DOMAIN f.stay : f.stay[j] \in DOMAIN heap
    BY <1>2, HereOK DEF OptimizerInv, FrameOK, CarriesOK, IsLoose
  <2>5. \A j \in DOMAIN f.stay : Stays(f.stay[j], n)
    BY <1>1, <1>2, <1>5, <1>8, <2>3 DEF FrameDone, Stays
  <2>6. \A j \in DOMAIN f.stay : Stays(f.stay[j], n)'
    BY <1>3, <2>4, <2>5, StaysStill DEF Quiet
  <2>7. FrameDone(E, T, f)'
    BY <1>2, <1>8, <2>2, <2>6 DEF FrameDone
  <2>8. DoneOK(E, T)'
    BY <1>2, <1>3, <2>2, <2>7, DoneGoes
  <2> QED
    BY <2>8
<1> QED
  BY <1>1, <1>7, <1>8 DEF GoesOnAt

(* A filter is put above what the activation built. *)
LEMMA DoneWrap ==
  ASSUME OptimizerInv, Wrap, NEW D, NEW S, DoneOK(D, S)
  PROVE  \E E, T : DoneOK(E, T)'
<1>1. PICK n, w, s : n = Here.node /\ w = Here.stay[1] /\ s = S[n]
  OBVIOUS
<1>2. /\ frames # <<>> /\ Here.pass = "push" /\ Here.at = "wrap" /\ n \in DOMAIN heap
      /\ w \in DOMAIN heap /\ w # n /\ 1 \in DOMAIN Here.stay
      /\ \A k \in DOMAIN Here.stay : Here.stay[k] \in DOMAIN heap
      /\ Changes(w) /\ DOMAIN heap' = DOMAIN heap /\ heap'[w].kind = "Filter"
      /\ DOMAIN heap'[w].child = {1} /\ heap'[w].child[1] = n /\ Quiet /\ ret' = Null
  BY <1>1, PutBackIs
<1>3. PICK f : /\ Goes(f) /\ f.node = w /\ f.at = "wrap" /\ f.cur = Null
               /\ \A k \in DOMAIN f.stay :
                    k + 1 \in DOMAIN Here.stay /\ f.stay[k] = Here.stay[k + 1]
  BY <1>1, PutBackIs
<1>4. FrameDone(D, S, Here) /\ D \subseteq DOMAIN heap /\ Null \notin D
  BY <1>2, TopDone
<1>5. n \in D /\ \A k \in DOMAIN Here.stay : Stays(Here.stay[k], s)
  BY <1>1, <1>2, <1>4 DEF FrameDone
<1>6. s \in DOMAIN heap
  <2>1. Pushing /\ DoneNode(D, S, n)
    BY <1>2, <1>5 DEF Pushing, DoneOK
  <2> QED
    BY <1>1, <2>1 DEF DoneNode, StandsOn
<1>8. PICK E, T : E = D \cup {w} /\ T = [m \in DOMAIN heap |-> IF m = w THEN s ELSE S[m]]
  OBVIOUS
<1>9. T[w] = s /\ T[n] = s /\ \A m \in D \ {w} : T[m] = S[m]
  BY <1>1, <1>2, <1>4, <1>8
<1>10. Stays(w, s)'
  <2>1. Stays(w, s)
    BY <1>1, <1>2, <1>5
  <2> QED
    BY <1>2, <1>6, <2>1, StaysStill DEF Quiet
<1>11. DoneNode(E, T, w)'
  <2>1. StandsOn(T, w)'
    BY <1>2, <1>6, <1>9, <1>10 DEF StandsOn
  <2>2. IsWhole(heap'[w]) /\ ChildrenOf(heap', w) \subseteq E
    BY <1>2, <1>4, <1>5, <1>8 DEF IsWhole, ChildrenOf
  <2> QED
    BY <1>2, <2>1, <2>2 DEF DoneNode, Live
<1>12. Grows(w, D, S, E, T)
  BY <1>2, <1>4, <1>8, <1>9, <1>11 DEF Grows
<1>13. FrameDone(E, T, f)'
  <2>1. ASSUME NEW k \in DOMAIN f.stay PROVE Stays(f.stay[k], s)'
    <3>1. PICK c : c = f.stay[k]
      OBVIOUS
    <3>2. c \in DOMAIN heap /\ Stays(c, s)
      BY <1>2, <1>3, <1>5, <2>1, <3>1
    <3>3. Stays(c, s)'
      BY <1>2, <1>6, <3>2, StaysStill DEF Quiet
    <3> QED
      BY <3>1, <3>3
  <2>2. f.pass = "push"
    BY <1>2, <1>3 DEF Goes
  <2> QED
    BY <1>3, <1>8, <1>9, <2>1, <2>2 DEF FrameDone
<1>14. DoneOK(E, T)'
  BY <1>2, <1>3, <1>12, <1>13, DoneGoes
<1> QED
  BY <1>14

LEMMA DoneChooseJoin ==
  ASSUME OptimizerInv, ChooseJoin, NEW D, NEW S, DoneOK(D, S)
  PROVE  \E E, T : DoneOK(E, T)'
<1>1. PICK n, x, a, r : n = Here.node /\ x = Len(heap) + 1 /\ a = Here.cur /\ r = ret
  OBVIOUS
<1>2. /\ frames # <<>> /\ Here.pass = "choose" /\ n \in DOMAIN heap /\ heap[n].kind = "MultiJoin"
      /\ r # Null /\ Changes(Null) /\ Quiet /\ ret' = Null
      /\ \A m \in DOMAIN heap : heap'[m] = heap[m]
  BY <1>1, ChooseJoinIs
<1>3. PICK f : /\ Goes(f) /\ f.node = n /\ f.at = "enter"
               /\ a = Null => heap' = heap /\ f.cur = r
               /\ a # Null => f.cur = x /\ JoinsIn(heap, heap', x, a, r)
  BY <1>1, ChooseJoinIs
<1>4. FrameDone(D, S, Here) /\ D \subseteq DOMAIN heap /\ Null \notin D /\ r \in D
  BY <1>1, <1>2, TopDone
<1>5. CASE a = Null
  <2>1. PICK E : E = D \ {Null}
    OBVIOUS
  <2>2. FrameDone(E, S, f)'
    BY <1>2, <1>3, <1>4, <1>5, <2>1 DEF FrameDone
  <2>3. Grows(Null, D, S, E, S)
    BY <1>2, <2>1, GrowsNot
  <2>4. DoneOK(E, S)'
    BY <1>2, <1>3, <2>2, <2>3, DoneGoes
  <2> QED
    BY <2>4
<1>6. CASE a # Null
  <2>1. PICK E : E = D \cup {x}
    OBVIOUS
  <2>2. /\ x \notin DOMAIN heap /\ DOMAIN heap' = DOMAIN heap \cup {x}
        /\ heap'[x].kind = "BinaryJoin" /\ DOMAIN heap'[x].child = {1, 2}
        /\ heap'[x].child[1] = a /\ heap'[x].child[2] = r
    BY <1>3, <1>6 DEF JoinsIn
  <2>3. a \in D
    BY <1>1, <1>4, <1>6 DEF FrameDone
  <2>4. ~Pushing'
    <3>1. Steady(Null)
      BY <1>2, <1>3, SteadyGoes
    <3> QED
      BY <1>2, <3>1 DEF Steady, Pushing
  <2>5. IsWhole(heap'[x]) /\ ChildrenOf(heap', x) \subseteq E
    BY <1>2, <1>4, <1>6, <2>1, <2>2, <2>3 DEF IsWhole, ChildrenOf
  <2>6. DoneNode(E, S, x)'
    BY <2>2, <2>4, <2>5 DEF DoneNode, Live
  <2>7. Grows(Null, D, S, E, S)
    BY <1>4, <2>1, <2>2, <2>6 DEF Grows
  <2>8. FrameDone(E, S, f)'
    BY <1>2, <1>3, <1>6, <2>1 DEF FrameDone
  <2>9. DoneOK(E, S)'
    BY <1>2, <1>3, <2>7, <2>8, DoneGoes
  <2> QED
    BY <2>9
<1> QED
  BY <1>5, <1>6

LEMMA DoneChooseJoinEnd ==
  ASSUME OptimizerInv, ChooseJoinEnd, NEW D, NEW S, DoneOK(D, S)
  PROVE  \E E, T : DoneOK(E, T)'
<1>1. PICK n, c, E : n = Here.node /\ c = Here.cur /\ E = D \ {n}
  OBVIOUS
<1>2. frames # <<>> /\ c # Null /\ c # n /\ Changes(n) /\ Quiet /\ GiveBack(c)
  BY <1>1, ChooseJoinEndIs
<1>3. c \in E
  BY <1>1, <1>2, TopDone DEF FrameDone
<1>4. Grows(n, D, S, E, S)
  BY <1>1, <1>2, GrowsNot
<1>5. DoneOK(E, S)'
  BY <1>2, <1>3, <1>4, DoneBack
<1> QED
  BY <1>5

(* A pass starts with nothing done. *)
LEMMA DoneStart ==
  ASSUME OptimizerInv, NEW pass \in {"choose", "push"}, StartPass(pass), NEW S
  PROVE  DoneOK({}, S)'
<1>1. PICK f, r : f = Frame(pass, root, <<>>) /\ r = root
  OBVIOUS
<1>2. frames = <<>> /\ frames' = <<f>> /\ heap' = heap /\ passes # <<>> /\ ret' = ret
  BY <1>1 DEF StartPass
<1>3. /\ heap \in Seq(HeapNodes) /\ r \in DOMAIN heap /\ ret = Null
  BY <1>1, <1>2 DEF OptimizerInv, StructureOK, StackOK, HeapOK, Formed
<1>4. f.node = r /\ f.at = "enter" /\ f.cur = Null /\ f.done = 0
  BY <1>1 DEF Frame
<1>5. \A k \in DOMAIN heap[r].child : ~(k <= 0)
  <2>1. heap[r].child \in Seq(Nat)
    BY <1>3, NodesTyped
  <2> QED
    BY <2>1
<1>6. FrameDone({}, S, f)'
  BY <1>2, <1>4, <1>5 DEF FrameDone
<1>7. frames' # <<>> /\ DOMAIN frames' = {1} /\ frames'[1] = f
  BY <1>2
<1>8. \A i \in DOMAIN frames' : FrameDone({}, S, frames[i])'
  BY <1>6, <1>7
<1> QED
  BY <1>2, <1>3, <1>7, <1>8 DEF DoneOK, DoneRest

LEMMA DoneNothing ==
  ASSUME frames = <<>>, ret = Null, outcome \in {"given", "threw"}, NEW S
  PROVE  DoneOK({}, S)
<1>1. DOMAIN frames = {}
  OBVIOUS
<1> QED
  BY <1>1 DEF DoneOK, DoneRest

LEMMA DoneFail ==
  ASSUME Fail, NEW S
  PROVE  DoneOK({}, S)'
<1>1. frames' = <<>> /\ ret' = Null /\ outcome' = "threw"
  BY DEF Fail
<1>2. DOMAIN frames' = {}
  BY <1>1
<1> QED
  BY <1>1, <1>2 DEF DoneOK, DoneRest

LEMMA DoneStay ==
  ASSUME NEW D, NEW S, DoneOK(D, S), UNCHANGED <<heap, root, frames, ret, join_trie, outcome>>
  PROVE  DoneOK(D, S)'
<1>1. Pushing' = Pushing
  BY DEF Pushing, Here
<1>2. \A n : DoneNode(D, S, n) => DoneNode(D, S, n)'
  BY <1>1 DEF DoneNode, StandsOn, Stays, Live
<1>3. \A f : FrameDone(D, S, f) => FrameDone(D, S, f)'
  BY DEF FrameDone, Stays
<1>4. DoneRest(D)'
  BY DEF DoneOK, DoneRest
<1> QED
  BY <1>2, <1>3, <1>4 DEF DoneOK

LEMMA DoneStep ==
  ASSUME OptimizerInv, NEW B, RelsOK(B), NEW D, NEW S, DoneOK(D, S),
         [OptimizerNext]_optimizerVars
  PROVE  \E E, T : DoneOK(E, T)'
<1>1. CASE ChooseScan
  BY <1>1, DoneChooseScan
<1>2. CASE ChooseChild \/ ChooseJoinChild
  BY <1>2, DoneChoose
<1>3. CASE ChooseSetChild
  BY <1>3, SetChildIs, DoneSetBack, DoneGoesOn
<1>4. CASE ChooseJoin
  BY <1>4, DoneChooseJoin
<1>5. CASE ChooseJoinEnd
  BY <1>5, DoneChooseJoinEnd
<1>6. CASE PushScan
  BY <1>6, DonePushScan
<1>7. CASE PushFilter
  BY <1>7, DonePushFilter
<1>8. CASE PushProjection
  BY <1>8, DonePushProjection
<1>9. CASE PushProjectionEnd
  BY <1>9, PushProjectionEndIs, DoneSetBack
<1>10. CASE PushJoin
  BY <1>10, DonePushJoin
<1>11. CASE PushJoinRight
  BY <1>11, DonePushJoinRight
<1>12. CASE PushJoinEnd
  BY <1>12, PushJoinEndIs, DoneGoesOn
<1>13. CASE Wrap
  BY <1>13, DoneWrap
<1>14. CASE WrapEnd
  BY <1>14, DoneWrapEnd
<1>15. CASE PushJoinThrow \/ StartPushThrow
  BY <1>15, DoneFail DEF PushJoinThrow, StartPushThrow
<1>16. CASE StartChoose \/ StartPush
  BY <1>16, DoneStart DEF StartChoose, StartPush
<1>17. CASE \E todo : CallOptimizer(todo)
  BY <1>17, DoneStay DEF CallOptimizer
<1>18. CASE register_optimzer \/ UNCHANGED optimizerVars
  BY <1>18, DoneStay DEF register_optimzer, optimizerVars
<1> QED
  BY <1>1, <1>2, <1>3, <1>4, <1>5, <1>6, <1>7, <1>8, <1>9, <1>10, <1>11, <1>12, <1>13, <1>14,
     <1>15, <1>16, <1>17, <1>18
     DEF OptimizerNext, OptimizerStep, optimize, choose_join_sequence, push_down_filter

-----------------------------------------------------------------------------
(***************************************************************************)
(* What a call starts with.                                                *)
(***************************************************************************)
PassesOK ==
  /\ given.passes = <<>> \/ given.passes = <<"push">> \/ Head(given.passes) = "choose"
  /\ (frames = <<>> /\ outcome = "given" /\ passes # <<>>) =>
       passes = given.passes /\ heap = given.heap

LEMMA PassesCall ==
  ASSUME NEW todo, CallOptimizer(todo), todo = <<"push">> \/ Head(todo) = "choose"
  PROVE  PassesOK'
BY DEF CallOptimizer, PassesOK

LEMMA PassesBack ==
  ASSUME OptimizerInv, PassesOK, frames # <<>>, NEW n, GiveBack(n), given' = given
  PROVE  PassesOK'
<1>1. Here.pass \in {"choose", "push"} /\ Len(frames) \in Nat \ {0} /\ frames \in Seq(FrameTypes)
  BY HereOK, FrameTyped DEF OptimizerInv
<1>2. CASE Len(frames) = 1
  BY <1>1, <1>2 DEF GiveBack, PassesOK
<1>3. CASE Len(frames) # 1
  <2>1. frames' # <<>>
    BY <1>1, <1>3, GivenBack
  <2> QED
    BY <2>1 DEF PassesOK
<1> QED
  BY <1>2, <1>3

\* An activation goes on, or calls another one.
LEMMA PassesBusy ==
  ASSUME OptimizerInv, PassesOK, frames # <<>>, given' = given,
         (\E f : Continue(f)) \/ (\E f, c, arr : Recurse(f, c, arr))
  PROVE  PassesOK'
<1>1. Len(frames) \in Nat \ {0} /\ frames \in Seq(FrameTypes)
  BY HereOK DEF OptimizerInv
<1>2. frames' # <<>>
  BY <1>1 DEF Continue, Recurse
<1> QED
  BY <1>2 DEF PassesOK

LEMMA PassesStep ==
  ASSUME OptimizerInv, PassesOK, [OptimizerNext]_optimizerVars
  PROVE  PassesOK'
<1>1. CASE ChooseScan \/ ChooseJoinEnd \/ PushProjectionEnd \/ WrapEnd
  <2>1. frames # <<>> /\ given' = given /\ \E n : GiveBack(n)
    BY <1>1 DEF ChooseScan, ChooseJoinEnd, PushProjectionEnd, WrapEnd, In, Quiet
  <2> QED
    BY <2>1, PassesBack
<1>2. CASE ChooseSetChild
  <2>1. frames # <<>> /\ given' = given /\ ((\E n : GiveBack(n)) \/ \E f : Continue(f))
    BY <1>2 DEF ChooseSetChild, In, Quiet
  <2> QED
    BY <2>1, PassesBack, PassesBusy
<1>3. CASE ChooseChild \/ ChooseJoinChild \/ PushProjection \/ PushJoin \/ PushJoinRight
  <2>1. frames # <<>> /\ given' = given /\ \E f, c, arr : Recurse(f, c, arr)
    BY <1>3 DEF ChooseChild, ChooseJoinChild, PushProjection, PushJoin, PushJoinRight, In, Quiet
  <2> QED
    BY <2>1, PassesBusy
<1>4. CASE ChooseJoin \/ PushScan \/ PushFilter \/ PushJoinEnd \/ Wrap
  <2>1. frames # <<>> /\ given' = given /\ \E f : Continue(f)
    BY <1>4 DEF ChooseJoin, PushScan, PushFilter, PushJoinEnd, Wrap, In, Quiet
  <2> QED
    BY <2>1, PassesBusy
<1>5. CASE PushJoinThrow \/ StartPushThrow
  BY <1>5 DEF PushJoinThrow, StartPushThrow, Fail, PassesOK
<1>6. CASE StartChoose \/ StartPush
  <2>1. given' = given /\ \E f : frames' = <<f>>
    BY <1>6 DEF StartChoose, StartPush, StartPass
  <2> QED
    BY <2>1 DEF PassesOK
<1>7. CASE optimize
  <2>1. custom_optimzers \in Seq({"choose", "push"})
    BY DEF OptimizerInv, StructureOK, CallsOK
  <2>2. Head(<<"choose", "push">> \o custom_optimzers) = "choose"
    BY <2>1
  <2> QED
    BY <1>7, <2>2, PassesCall DEF optimize
<1>8. CASE choose_join_sequence
  <2>1. Head(<<"choose">>) = "choose"
    OBVIOUS
  <2> QED
    BY <1>8, <2>1, PassesCall DEF choose_join_sequence
<1>9. CASE push_down_filter
  BY <1>9, PassesCall DEF push_down_filter
<1>10. CASE register_optimzer \/ UNCHANGED optimizerVars
  BY <1>10 DEF register_optimzer, optimizerVars, PassesOK
<1> QED
  BY <1>1, <1>2, <1>3, <1>4, <1>5, <1>6, <1>7, <1>8, <1>9, <1>10 DEF OptimizerNext, OptimizerStep

-----------------------------------------------------------------------------
(* Between the passes. *)

\* A plan that a pass has returned is finished as a whole.
LEMMA AllDone ==
  ASSUME OptimizerInv, NEW D, NEW S, DoneOK(D, S), frames = <<>>, outcome \in {"choose", "push"}
  PROVE  /\ D \in SUBSET DOMAIN heap /\ Closed(heap, D) /\ LiveNodes \subseteq D
         /\ ~HasMultiJoin(heap)
<1>1. D \in SUBSET DOMAIN heap /\ root \in D /\ \A n \in D : DoneNode(D, S, n)
  BY DEF DoneOK, DoneRest
<1>2. Closed(heap, D)
  BY <1>1 DEF DoneNode, Closed
<1>3. LiveNodes \subseteq D
  BY <1>1, <1>2, AllInClosed DEF OptimizerInv
<1>4. ASSUME NEW n \in DOMAIN heap, heap[n].kind = "MultiJoin" PROVE FALSE
  <2>1. n \in LiveNodes
    BY <1>4 DEF LiveNodes, Live
  <2> QED
    BY <1>1, <1>3, <1>4, <2>1 DEF DoneNode
<1> QED
  BY <1>1, <1>2, <1>3, <1>4 DEF HasMultiJoin

\* build_join_trie() throws: no earlier pass has removed the multi-way joins.
LEMMA StartRefuses ==
  ASSUME OptimizerInv, NEW D, NEW S, DoneOK(D, S), PassesOK, StartPushThrow
  PROVE  given.passes = <<"push">> /\ HasMultiJoin(given.heap)
<1>1. frames = <<>> /\ passes # <<>> /\ Head(passes) = "push" /\ HasMultiJoin(heap)
  BY DEF StartPushThrow
<1>2. outcome \in {"given", "choose", "push"}
  BY <1>1 DEF OptimizerInv, StructureOK, StackOK, CallsOK
<1>3. outcome = "given"
  BY <1>1, <1>2, AllDone
<1> QED
  BY <1>1, <1>3 DEF PassesOK

\* at() throws: a filter reads a relation that the join below it does not have.
LEMMA JoinRefuses ==
  ASSUME OptimizerInv, NEW B, RelsOK(B), PushJoinThrow
  PROVE  Faulty(given.heap)
<1>1. /\ frames # <<>> /\ Here.pass = "push" /\ Here.at = "enter"
      /\ heap[Here.node].kind = "BinaryJoin"
      /\ \E i \in DOMAIN Here.arr : DirectionThrows(Here.arr[i].relations, join_trie[Here.node])
  BY DEF PushJoinThrow, In
<1>2. PICK n, mp, e, c, d :
        /\ n = Here.node /\ mp = join_trie[n] /\ c = heap[n].child[1] /\ d = heap[n].child[2]
        /\ \E i \in DOMAIN Here.arr : e = Here.arr[i]
        /\ DirectionThrows(e.relations, mp)
  BY <1>1
<1>3. IsWhole(heap[n]) /\ DOMAIN heap[n].child = {1, 2} /\ heap \in Seq(HeapNodes)
  BY <1>1, <1>2, HereOK, NodesTyped DEF OptimizerInv, PushShape, ArityOK
<1>4. /\ B[n] = Gathered(heap, B, n) /\ Sides(mp, B[c], B[d]) /\ EntryFits(e, B[n])
  BY <1>1, <1>2, <1>3, WholeRels
<1>5. B[n] \subseteq DOMAIN mp
  <2>1. \A rel : rel \in B[n] => rel \in B[c] \/ rel \in B[d]
    BY <1>1, <1>2, <1>3, <1>4, GatheredIs
  <2> QED
    BY <1>4, <2>1 DEF Sides
<1>6. PICK k \in DOMAIN e.relations : e.relations[k] \notin DOMAIN mp
  BY <1>2 DEF DirectionThrows
<1>7. e.relations[k] \in Reads(e.filter)
  BY <1>4, <1>6 DEF EntryFits, RelationsOf, Reads
<1>8. ~Sane
  BY <1>4, <1>5, <1>6, <1>7 DEF EntryFits
<1> QED
  BY <1>8 DEF Sane

-----------------------------------------------------------------------------
(* The two properties. *)

LEMMA ThrowsStep ==
  ASSUME OptimizerInv, NEW B, RelsOK(B), NEW D, NEW S, DoneOK(D, S), PassesOK,
         ThrowsOnlyIfRefused, [OptimizerNext]_optimizerVars
  PROVE  ThrowsOnlyIfRefused'
<1>1. CASE PushJoinThrow
  <2>1. Faulty(given.heap) /\ given' = given
    BY <1>1, JoinRefuses DEF PushJoinThrow
  <2> QED
    BY <2>1 DEF ThrowsOnlyIfRefused
<1>2. CASE StartPushThrow
  <2>1. given.passes = <<"push">> /\ HasMultiJoin(given.heap) /\ given' = given
    BY <1>2, StartRefuses DEF StartPushThrow
  <2> QED
    BY <2>1 DEF ThrowsOnlyIfRefused
<1>3. CASE \/ ChooseScan \/ ChooseChild \/ ChooseSetChild \/ ChooseJoinChild \/ ChooseJoin
           \/ ChooseJoinEnd \/ PushScan \/ PushFilter \/ PushProjection \/ PushProjectionEnd
           \/ PushJoin \/ PushJoinRight \/ PushJoinEnd \/ Wrap \/ WrapEnd
  <2>1. frames # <<>>
    BY <1>3 DEF ChooseScan, ChooseChild, ChooseSetChild, ChooseJoinChild, ChooseJoin, ChooseJoinEnd,
                PushScan, PushFilter, PushProjection, PushProjectionEnd, PushJoin, PushJoinRight,
                PushJoinEnd, Wrap, WrapEnd, In
  <2>2. outcome' \in {outcome, Here.pass}
    BY <1>3 DEF ChooseScan, ChooseChild, ChooseSetChild, ChooseJoinChild, ChooseJoin, ChooseJoinEnd,
                PushScan, PushFilter, PushProjection, PushProjectionEnd, PushJoin, PushJoinRight,
                PushJoinEnd, Wrap, WrapEnd, GiveBack
  <2>3. outcome # "threw" /\ Here.pass \in {"choose", "push"}
    BY <2>1, HereOK, FrameTyped DEF OptimizerInv
  <2> QED
    BY <2>2, <2>3 DEF ThrowsOnlyIfRefused
<1>4. CASE \/ StartChoose \/ StartPush \/ register_optimzer \/ UNCHANGED optimizerVars
  BY <1>4 DEF StartChoose, StartPush, StartPass, register_optimzer, optimizerVars,
              ThrowsOnlyIfRefused
<1>5. CASE \E todo : CallOptimizer(todo)
  BY <1>5 DEF CallOptimizer, ThrowsOnlyIfRefused
<1> QED
  BY <1>1, <1>2, <1>3, <1>4, <1>5
     DEF OptimizerNext, OptimizerStep, optimize, choose_join_sequence, push_down_filter

\* A filter of a finished plan, and what it stands on.
LEMMA PushedDown ==
  ASSUME OptimizerInv, NEW B, RelsOK(B), NEW D, NEW S, DoneOK(D, S), frames = <<>>,
         outcome = "push", NEW f \in DOMAIN heap, heap[f].kind = "Filter",
         NEW s, s = Support(f), NEW rels, rels = Reads(f)
  PROVE  \/ heap[s].kind = "TableScan"
         \/ heap[s].kind = "BinaryJoin" /\ rels = {}
         \/ /\ heap[s].kind = "BinaryJoin"
            /\ ~(rels \subseteq RelationsBelow(heap)[heap[s].child[2]])
            /\ ~(rels \subseteq RelationsBelow(heap)[heap[s].child[1]]
                                 \ RelationsBelow(heap)[heap[s].child[2]])
<1>1. /\ D \in SUBSET DOMAIN heap /\ Closed(heap, D) /\ LiveNodes \subseteq D
      /\ \A n \in D : DoneNode(D, S, n)
  BY AllDone DEF DoneOK
<1>2. /\ \A n \in LiveNodes : IsWhole(heap[n]) /\ Closed(heap, LiveNodes)
      /\ heap \in Seq(HeapNodes) /\ HeapOK /\ Grounded(heap) /\ Null \notin DOMAIN heap
  BY AllWhole, NodesTyped DEF OptimizerInv, StructureOK, HeapOK, Formed, Null
<1>3. Pushing
  BY DEF Pushing
<1>4. \A n \in D : StandsOn(S, n)
  BY <1>1, <1>3 DEF DoneNode
<1>5. \A m \in DOMAIN heap : heap[m].kind = "Filter" => heap[m].child[1] \in DOMAIN heap
  <2> SUFFICES ASSUME NEW m \in DOMAIN heap, heap[m].kind = "Filter"
               PROVE  heap[m].child[1] \in DOMAIN heap
    OBVIOUS
  <2>1. m \in LiveNodes
    BY DEF LiveNodes, Live
  <2>2. 1 \in DOMAIN heap[m].child
    <3>1. Len(heap[m].child) = 1 /\ heap[m].child \in Seq(Nat)
      BY <1>2, NodesTyped DEF HeapOK, Formed, ArityOK
    <3> QED
      BY <3>1
  <2> QED
    BY <1>2, <2>1, <2>2 DEF IsWhole, HeapOK, Formed
<1>6. f \in D
  BY <1>1 DEF LiveNodes, Live
<1>7. s = S[f] /\ s \in DOMAIN heap /\ Stays(f, s)
  <2>1. \A m \in D : S[m] = IF heap[m].kind = "Filter" THEN S[heap[m].child[1]] ELSE m
    BY <1>4 DEF StandsOn
  <2>2. Support(f) = S[f]
    BY <1>1, <1>2, <1>5, <1>6, <2>1, SupportIs
  <2> QED
    BY <1>4, <1>6, <2>2 DEF StandsOn
<1>8. CASE heap[s].kind = "TableScan"
  BY <1>8
<1>9. CASE heap[s].kind # "TableScan"
  <2>1. /\ heap[s].kind = "BinaryJoin"
        /\ check_direction(RelationsOf(heap[f].cond), join_trie[s]) = "Invalid"
    BY <1>7, <1>9 DEF Stays
  <2>2. s \in LiveNodes /\ Live(s) /\ DOMAIN heap[s].child = {1, 2}
    <3>1. Len(heap[s].child) = 2 /\ heap[s].child \in Seq(Nat)
      BY <1>2, <1>7, <2>1, NodesTyped DEF HeapOK, Formed, ArityOK
    <3> QED
      BY <1>7, <2>1, <3>1 DEF LiveNodes, Live
  <2>3. PICK L, R : L = B[heap[s].child[1]] /\ R = B[heap[s].child[2]]
    OBVIOUS
  <2>4. /\ L = RelationsBelow(heap)[heap[s].child[1]]
        /\ R = RelationsBelow(heap)[heap[s].child[2]]
    <3>1. heap[s].child[1] \in LiveNodes /\ heap[s].child[2] \in LiveNodes
      BY <1>2, <2>2 DEF IsWhole, Closed, ChildrenOf
    <3> QED
      BY <2>3, <3>1, RelsAre
  <2>5. Sides(join_trie[s], L, R)
    BY <1>2, <1>3, <1>7, <2>1, <2>2, <2>3 DEF RelsOK, NodeRels
  <2>6. PICK mp, q : mp = join_trie[s] /\ q = RelationsOf(heap[f].cond)
    OBVIOUS
  <2>7. /\ DOMAIN q = DOMAIN heap[f].cond.cols
        /\ \A i \in DOMAIN q : q[i] = heap[f].cond.cols[i].relation /\ q[i] \in rels
    BY <2>6 DEF RelationsOf, Reads
  <2>8. \E N \in Nat : DOMAIN q = 1 .. N
    <3>1. heap[f].cond \in Conditions
      BY <1>2, NodesTyped
    <3> QED
      BY <2>7, <3>1 DEF Conditions
  <2>9. ASSUME NEW dir \in {"Left", "Right"}, rels # {},
               \A rel \in rels : rel \in DOMAIN mp /\ mp[rel] = dir
        PROVE  FALSE
    <3>1. \A i \in DOMAIN q : q[i] \in DOMAIN mp /\ mp[q[i]] = dir
      BY <2>7, <2>9
    <3>2. DOMAIN q # {}
      BY <2>7, <2>9 DEF Reads
    <3>3. 1 \in DOMAIN q /\ q # <<>>
      BY <2>8, <3>2
    <3>4. check_direction(q, mp) = dir
      BY <3>1, <3>3 DEF check_direction
    <3> QED
      BY <2>1, <2>6, <2>9, <3>4
  <2>10. ~(rels \subseteq R) \/ rels = {}
    BY <2>5, <2>6, <2>9 DEF Sides
  <2>11. ~(rels \subseteq L \ R) \/ rels = {}
    BY <2>5, <2>6, <2>9 DEF Sides
  <2> QED
    BY <2>1, <2>4, <2>10, <2>11
<1> QED
  BY <1>8, <1>9

\* The invariant, with what stands below a node and what a pass has finished.
RewriteInv ==
  /\ OptimizerInv
  /\ \E B : RelsOK(B)
  /\ \E D, S : DoneOK(D, S)
  /\ PassesOK /\ ThrowsOnlyIfRefused

LEMMA RewriteInvInit ==
  ASSUME OptimizerInit
  PROVE  RewriteInv
<1>1. frames = <<>> /\ ret = Null /\ passes = <<>> /\ outcome = "given"
  BY DEF OptimizerInit, OptimizerIdle
<1>2. given.passes = <<>>
  BY DEF OptimizerInit
<1>3. OptimizerInv /\ \E B : RelsOK(B)
  BY OptimizerInvInit, RelsInit
<1>4. \A S : DoneOK({}, S)
  BY <1>1, DoneNothing
<1> QED
  BY <1>1, <1>2, <1>3, <1>4 DEF RewriteInv, PassesOK, ThrowsOnlyIfRefused

LEMMA RewriteInvStep ==
  ASSUME RewriteInv, [OptimizerNext]_optimizerVars
  PROVE  RewriteInv'
<1>1. PICK B : RelsOK(B)
  BY DEF RewriteInv
<1>2. PICK D, S : DoneOK(D, S)
  BY DEF RewriteInv
<1>3. OptimizerInv /\ PassesOK /\ ThrowsOnlyIfRefused
  BY DEF RewriteInv
<1>4. OptimizerInv' /\ PassesOK'
  BY <1>3, OptimizerInvStep, PassesStep
<1>5. PICK C : RelsOK(C)'
  BY <1>1, <1>3, RelsStep
<1>6. PICK E, T : DoneOK(E, T)'
  BY <1>1, <1>2, <1>3, DoneStep
<1>7. ThrowsOnlyIfRefused'
  BY <1>1, <1>2, <1>3, ThrowsStep
<1> QED
  BY <1>4, <1>5, <1>6, <1>7 DEF RewriteInv

(***************************************************************************)
(* The property ThrowsOnlyIfRefused: at() in check_direction never throws  *)
(* on a plan whose filters find their columns, and build_join_trie() only  *)
(* when push_down_filter is the first thing asked of a plan that still has *)
(* a multi-way join; whatever was called before, and however deep it is.   *)
(***************************************************************************)
THEOREM OptimizerRefuses == OptimizerSpec => []ThrowsOnlyIfRefused
<1>1. OptimizerInit => RewriteInv
  BY RewriteInvInit
<1>2. RewriteInv /\ [OptimizerNext]_optimizerVars => RewriteInv'
  BY RewriteInvStep
<1>3. RewriteInv => ThrowsOnlyIfRefused
  BY DEF RewriteInv
<1> QED
  BY <1>1, <1>2, <1>3, PTL DEF OptimizerSpec

(***************************************************************************)
(* The property FiltersArePushedDown: push_down_filter of optimizer.cpp    *)
(* leaves no filter above a join that it could go below, of any plan and   *)
(* any number of filters and joins.                                        *)
(***************************************************************************)
THEOREM OptimizerPushesDown == OptimizerSpec => []FiltersArePushedDown
<1>1. OptimizerInit => RewriteInv
  BY RewriteInvInit
<1>2. RewriteInv /\ [OptimizerNext]_optimizerVars => RewriteInv'
  BY RewriteInvStep
<1>3. ASSUME RewriteInv, Settled, outcome = "push",
             NEW f \in DOMAIN heap, heap[f].kind = "Filter", NEW s, s = Support(f),
             NEW rels, rels = {RelationsOf(heap[f].cond)[i] : i \in DOMAIN heap[f].cond.cols}
      PROVE  \/ heap[s].kind = "TableScan"
             \/ heap[s].kind = "BinaryJoin" /\ rels = {}
             \/ /\ heap[s].kind = "BinaryJoin"
                /\ ~(rels \subseteq RelationsBelow(heap)[heap[s].child[2]])
                /\ ~(rels \subseteq RelationsBelow(heap)[heap[s].child[1]]
                                     \ RelationsBelow(heap)[heap[s].child[2]])
  <2>1. PICK B : RelsOK(B)
    BY <1>3 DEF RewriteInv
  <2>2. PICK D, S : DoneOK(D, S)
    BY <1>3 DEF RewriteInv
  <2>3. OptimizerInv /\ frames = <<>>
    BY <1>3 DEF RewriteInv, Settled, Busy
  <2>4. rels = Reads(f)
    BY <1>3 DEF RelationsOf, Reads
  <2> QED
    BY <1>3, <2>1, <2>2, <2>3, <2>4, PushedDown
<1>4. RewriteInv => FiltersArePushedDown
  BY <1>3 DEF FiltersArePushedDown
<1> QED
  BY <1>1, <1>2, <1>4, PTL DEF OptimizerSpec
=============================================================================
