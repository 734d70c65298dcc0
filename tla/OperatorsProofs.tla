-------------------------- MODULE OperatorsProofs --------------------------
(***************************************************************************)
(* Proofs about Operators and Executor, for every set of well-formed plans *)
(* and every database whose rows fit them.                                 *)
(*                                                                         *)
(* First type correctness, GuardedGetNext and Aligned, from the inductive  *)
(* invariant IInv.  Then what the operators return: every operator is a    *)
(* cursor over the rows its plan node stands for (EveryOperatorIsACursor), *)
(* and the steps of the operator at the root are steps of module Cursor.   *)
(* The executor, which pulls from the root, is proved on top of that.      *)
(*                                                                         *)
(* A step either calls a method or returns from one (or throws).  What the *)
(* two do to the stack and to the nodes that are not involved is proved    *)
(* once, in CallKeeps and ReturnKeeps; an action then only has to show     *)
(* what it establishes for its own node.                                   *)
(***************************************************************************)
EXTENDS Executor, SequenceTheorems, Induction, TLAPS

-----------------------------------------------------------------------------
(* Lookups in a schema *)

(* A column that a schema has is found, at a position of the schema. *)
LEMMA AttributeIdInRange ==
  ASSUME NEW sch \in Schemas, NEW c, HasColumn(sch, c)
  PROVE  AttributeId(sch, c) \in 1 .. Len(sch)
<1> DEFINE at == {i \in 1 .. Len(sch) : sch[i] = c}
           fromEnd == {Len(sch) - i : i \in at}
<1>1. DOMAIN sch = 1 .. Len(sch) /\ Len(sch) \in Nat
  BY DEF Schemas
<1>2. at # {}
  BY <1>1 DEF HasColumn
<1>3. fromEnd \in SUBSET Nat /\ fromEnd # {}
  BY <1>1, <1>2
<1>4. PICK x \in fromEnd : \A y \in fromEnd : x <= y
  <2> HIDE DEF fromEnd
  <2> QED
    BY <1>3, LeastNatural
<1>5. PICK i \in at : x = Len(sch) - i
  OBVIOUS
<1>6. \A j \in at : j <= i
  <2> SUFFICES ASSUME NEW j \in at PROVE j <= i
    OBVIOUS
  <2>1. Len(sch) - i <= Len(sch) - j
    BY <1>4, <1>5
  <2> QED
    BY <1>1, <2>1
<1>7. \E k \in DOMAIN sch : sch[k] = c /\ \A j \in DOMAIN sch : sch[j] = c => j <= k
  BY <1>1, <1>5, <1>6
<1> QED
  BY <1>1, <1>7 DEF AttributeId

-----------------------------------------------------------------------------
(* Plans *)

(* The nodes of a well-formed plan, their kinds and their children. *)
LEMMA PlanFacts ==
  ASSUME plan \in Plans
  PROVE  /\ Root \in Nat /\ Root > 0 /\ Nodes = 1 .. Root
         /\ \A n \in Nodes :
              /\ Kind(n) \in {"TableScan", "Filter", "Projection", "BinaryJoin"}
              /\ Schema(n) \in Schemas
              /\ plan[n].cond \in Conditions
              /\ Kind(n) \in {"Filter", "Projection"} =>
                   /\ Child(n) \in 1 .. n - 1
                   /\ Child(n) \in ChildrenOf(plan, n)
              /\ Kind(n) = "BinaryJoin" =>
                   /\ LeftChild(n) \in 1 .. n - 1
                   /\ RightChild(n) \in 1 .. n - 1
                   /\ LeftChild(n) # RightChild(n)
                   /\ LeftChild(n) \in ChildrenOf(plan, n)
                   /\ RightChild(n) \in ChildrenOf(plan, n)
         /\ \A m1, m2 \in Nodes : \A c :
              c \in ChildrenOf(plan, m1) /\ c \in ChildrenOf(plan, m2) => m1 = m2
<1>1. plan \in Seq(PlanNodes) /\ WellFormed(plan)
  BY PlansAssumption
<1>2. Root \in Nat /\ Root > 0 /\ Nodes = 1 .. Root
  BY <1>1 DEF Root, RootOf, Nodes, WellFormed
<1>3. ASSUME NEW n \in Nodes
      PROVE  /\ Kind(n) \in {"TableScan", "Filter", "Projection", "BinaryJoin"}
             /\ Schema(n) \in Schemas
             /\ plan[n].cond \in Conditions
             /\ plan[n].child \in Seq(Nat)
             /\ Len(plan[n].child) = Arity(Kind(n))
             /\ ChildrenOf(plan, n) \subseteq 1 .. n - 1
             /\ Kind(n) = "BinaryJoin" => LeftChild(n) # RightChild(n)
  <2>1. plan[n] \in PlanNodes
    BY <1>1, <1>2 DEF Root, RootOf
  <2> QED
    BY <1>1, <2>1 DEF PlanNodes, WellFormed, Nodes, Kind, Schema, LeftChild, RightChild
<1>4. ASSUME NEW n \in Nodes, Kind(n) \in {"Filter", "Projection"}
      PROVE  Child(n) \in ChildrenOf(plan, n)
  <2>1. Arity(Kind(n)) = 1
    BY <1>4 DEF Arity
  <2>2. plan[n].child \in Seq(Nat) /\ Len(plan[n].child) = 1
    BY <1>3, <2>1
  <2>3. 1 \in DOMAIN plan[n].child
    BY <2>2
  <2> QED
    BY <2>3 DEF ChildrenOf, Child
<1>5. ASSUME NEW n \in Nodes, Kind(n) = "BinaryJoin"
      PROVE  LeftChild(n) \in ChildrenOf(plan, n) /\ RightChild(n) \in ChildrenOf(plan, n)
  <2>1. Arity(Kind(n)) = 2
    BY <1>5 DEF Arity
  <2>2. plan[n].child \in Seq(Nat) /\ Len(plan[n].child) = 2
    BY <1>3, <2>1
  <2>3. 1 \in DOMAIN plan[n].child /\ 2 \in DOMAIN plan[n].child
    BY <2>2
  <2> QED
    BY <2>3 DEF ChildrenOf, LeftChild, RightChild
<1>6. \A m1, m2 \in Nodes : \A c :
        c \in ChildrenOf(plan, m1) /\ c \in ChildrenOf(plan, m2) => m1 = m2
  BY <1>1 DEF WellFormed, Nodes
<1> QED
  BY <1>2, <1>3, <1>4, <1>5, <1>6

(* The schema of a node is the one its constructor computed. *)
LEMMA SchemaFacts ==
  ASSUME plan \in Plans, NEW n \in Nodes
  PROVE  /\ Kind(n) = "Filter" => Schema(n) = Schema(Child(n))
         /\ Kind(n) = "Projection" =>
              \A i \in DOMAIN Schema(n) : HasColumn(Schema(Child(n)), Schema(n)[i])
         /\ Kind(n) = "BinaryJoin" =>
              Schema(n) = Schema(LeftChild(n)) \o Schema(RightChild(n))
BY PlansAssumption DEF WellFormed, SchemaOk, Nodes, Kind, Schema, Child, LeftChild, RightChild

(* The child a waiting node has called. *)
LEMMA CalleeFacts ==
  ASSUME plan \in Plans, NEW n \in Nodes, NEW w \in WaitsOf(Kind(n))
  PROVE  /\ Callee(n, w) \in Nodes
         /\ Callee(n, w) < n
         /\ Callee(n, w) \in ChildrenOf(plan, n)
         /\ w \in Waits /\ w \notin Methods /\ w # "idle"
         /\ Called(w) \in Methods
         /\ Called(w) \in Methods => MethodOf(Called(w)) = Called(w)
<1>1. w \in Waits /\ w \notin Methods /\ w # "idle" /\ Called(w) \in Methods
  BY PlanFacts DEF WaitsOf, Waits, Methods, Called
<1>2. \A m \in Methods : MethodOf(m) = m
  BY DEF Methods, MethodOf
<1>3. CASE Kind(n) \in {"Filter", "Projection"}
  <2>1. Callee(n, w) = Child(n)
    BY <1>3 DEF WaitsOf, Callee
  <2> QED
    BY <1>1, <1>2, <1>3, <2>1, PlanFacts
<1>4. CASE Kind(n) = "BinaryJoin"
  <2>1. Callee(n, w) \in {LeftChild(n), RightChild(n)}
    BY DEF Callee, Child, LeftChild
  <2> QED
    BY <1>1, <1>2, <1>4, <2>1, PlanFacts
<1> QED
  BY <1>3, <1>4, PlanFacts DEF WaitsOf

-----------------------------------------------------------------------------
(* The stack *)

(* The node on top is active, and its parent is the node below it, waiting. *)
LEMMA TopFacts ==
  ASSUME IInv, NEW n \in Nodes, OnTop(n)
  PROVE  /\ Len(stack) \in Nat /\ Len(stack) > 0
         /\ stack \in Seq(Nodes) /\ stack[Len(stack)] = n
         /\ pc[n] # "idle"
         /\ \A i \in 1 .. Len(stack) - 1 : stack[i] \in Nodes /\ n < stack[i]
         /\ \A m \in Nodes : n \in ChildrenOf(plan, m) =>
              /\ Len(stack) > 1 /\ stack[Len(stack) - 1] = m
              /\ pc[m] \in WaitsOf(Kind(m)) /\ Callee(m, pc[m]) = n
<1>1. plan \in Plans /\ stack \in Seq(Nodes) /\ stack # <<>>
  BY DEF IInv, TypeOK, OnTop, Idle
<1>2. Len(stack) \in Nat /\ Len(stack) > 0 /\ stack[Len(stack)] = n
  BY <1>1 DEF OnTop, Top
<1>3. pc[n] # "idle"
  BY <1>2 DEF IInv, StackOK
<1>4. \A i \in 1 .. Len(stack) - 1 : stack[i] \in Nodes /\ n < stack[i]
  BY <1>1, <1>2 DEF IInv, StackOK
<1>5. ASSUME NEW m \in Nodes, n \in ChildrenOf(plan, m)
      PROVE  /\ Len(stack) > 1 /\ stack[Len(stack) - 1] = m
             /\ pc[m] \in WaitsOf(Kind(m)) /\ Callee(m, pc[m]) = n
  <2>1. n < m /\ m <= Root
    <3>1. ChildrenOf(plan, m) \subseteq 1 .. m - 1
      BY <1>1, PlansAssumption DEF WellFormed, Nodes
    <3> QED
      BY <1>1, <1>5, <3>1, PlanFacts
  <2>2. Len(stack) # 1
    <3> SUFFICES ASSUME Len(stack) = 1 PROVE FALSE
      OBVIOUS
    <3>1. n = Root
      BY <1>1, <1>2 DEF IInv, StackOK, Idle
    <3> QED
      BY <1>1, <2>1, <3>1, PlanFacts
  <2> DEFINE i == Len(stack) - 1
             q == stack[i]
  <2>3. i \in 1 .. Len(stack) - 1 /\ i + 1 = Len(stack) /\ q \in Nodes
    <3> DEFINE size == Len(stack)
    <3>1. size \in Nat /\ size > 0 /\ size # 1
      BY <1>2, <2>2
    <3> HIDE DEF size
    <3>2. size - 1 \in 1 .. size - 1 /\ (size - 1) + 1 = size /\ size - 1 \in 1 .. size
      BY <3>1
    <3>3. i \in 1 .. Len(stack) - 1 /\ i + 1 = Len(stack)
      BY <3>2 DEF size
    <3>4. i \in 1 .. Len(stack)
      BY <3>2 DEF size
    <3> QED
      BY <1>1, <3>3, <3>4
  <2>4. pc[q] \in Waits /\ n = Callee(q, pc[q])
    <3> HIDE DEF i
    <3> QED
      BY <1>2, <2>3 DEF IInv, StackOK
  <2>5. pc[q] \in WaitsOf(Kind(q))
    BY <2>3, <2>4 DEF IInv, LabelsOK, Waits, Methods
  <2>6. n \in ChildrenOf(plan, q)
    BY <1>1, <2>3, <2>4, <2>5, CalleeFacts
  <2>7. q = m
    BY <1>1, <1>5, <2>3, <2>6, PlanFacts
  <2>8. Len(stack) > 1 /\ stack[Len(stack) - 1] = m
    BY <1>2, <2>2, <2>7
  <2>9. pc[m] \in WaitsOf(Kind(m)) /\ Callee(m, pc[m]) = n
    <3> HIDE DEF q
    <3> QED
      BY <2>4, <2>5, <2>7
  <2> QED
    BY <2>8, <2>9
<1> QED
  BY <1>1, <1>2, <1>3, <1>4, <1>5

(* A call leaves the invariant true if it may be made and the caller's own  *)
(* part of ChildrenOK holds while it waits.                                 *)
LEMMA CallKeeps ==
  ASSUME IInv, NEW n \in Nodes, OnTop(n),
         NEW w \in WaitsOf(Kind(n)), MethodOf(w) = MethodOf(pc[n]),
         NEW c, c = Callee(n, w), NEW m, m = Called(w),
         Call(n, w, c, m),
         m = "get_next" => live[c],
         UNCHANGED <<plan, data, p_next_id, ret, live, fetched>>,
         l_tp' \in [Nodes -> Tuples],
         \A k \in Nodes \ {n} : l_tp'[k] = l_tp[k],
         ChildrenOK(n)'
  PROVE  IInv'
<1>1. plan \in Plans /\ pc \in [Nodes -> Labels] /\ Nodes' = Nodes
  BY DEF IInv, TypeOK, Nodes
<1>2. /\ c \in Nodes /\ c < n /\ n \in Nat
      /\ w \in Waits /\ w \notin Methods /\ w # "idle"
      /\ m \in Methods /\ MethodOf(m) = m
  BY <1>1, CalleeFacts, PlanFacts
<1>3. /\ Len(stack) \in Nat /\ Len(stack) > 0
      /\ stack \in Seq(Nodes) /\ stack[Len(stack)] = n
      /\ pc[n] # "idle"
      /\ \A i \in 1 .. Len(stack) - 1 : stack[i] \in Nodes /\ n < stack[i]
  BY TopFacts
<1>4. /\ stack' \in Seq(Nodes)
      /\ Len(stack') = Len(stack) + 1
      /\ \A i \in 1 .. Len(stack) : stack'[i] = stack[i]
      /\ stack'[Len(stack) + 1] = c
  BY <1>2, <1>3 DEF Call
<1>5. \A i \in 1 .. Len(stack) : stack[i] \in Nodes /\ c < stack[i]
  BY <1>1, <1>2, <1>3, PlanFacts
<1>6. pc[c] = "idle"
  BY <1>1, <1>2, <1>5, PlanFacts DEF IInv, StackOK
<1>7. /\ pc' \in [Nodes -> Labels]
      /\ pc'[n] = w /\ pc'[c] = m
      /\ \A k \in Nodes : k # n /\ k # c => pc'[k] = pc[k]
  BY <1>1, <1>2, PlanFacts DEF Call, Labels
<1>8. \A k \in Nodes : \A v : (Callee(k, v))' = Callee(k, v)
  BY DEF Callee, RightChild, Child
<1>9. TypeOK'
  BY <1>1, <1>4, <1>7 DEF IInv, TypeOK, Nodes
<1>10. StackOK'
  <2>1. stack'[1] = Root'
    BY <1>3, <1>4 DEF IInv, StackOK, Idle, Root
  <2>2. ASSUME NEW i \in 1 .. Len(stack') - 1
        PROVE  /\ pc'[stack'[i]] \in Waits
               /\ stack'[i + 1] = Callee(stack'[i], pc'[stack'[i]])
               /\ MethodOf(pc'[stack'[i + 1]]) = Called(pc'[stack'[i]])
    <3>1. CASE i = Len(stack)
      BY <1>2, <1>3, <1>4, <1>7, <3>1
    <3>2. CASE i < Len(stack)
      <4>1. i \in 1 .. Len(stack) - 1 /\ i + 1 \in 1 .. Len(stack) /\ i \in 1 .. Len(stack)
        BY <1>3, <1>4, <3>2
      <4>2. stack'[i] = stack[i] /\ stack'[i + 1] = stack[i + 1]
        BY <1>4, <4>1
      <4>3. pc'[stack[i]] = pc[stack[i]]
        BY <1>1, <1>2, <1>3, <1>5, <1>7, <4>1, PlanFacts
      <4>4. MethodOf(pc'[stack[i + 1]]) = MethodOf(pc[stack[i + 1]])
        <5>1. CASE i + 1 = Len(stack)
          BY <1>3, <1>7, <5>1
        <5>2. CASE i + 1 # Len(stack)
          <6>1. i + 1 \in 1 .. Len(stack) - 1
            BY <1>3, <4>1, <5>2
          <6>2. stack[i + 1] \in Nodes /\ n < stack[i + 1] /\ c < stack[i + 1]
            BY <1>3, <1>5, <4>1, <6>1
          <6>3. stack[i + 1] # n /\ stack[i + 1] # c
            BY <1>1, <1>2, <6>2, PlanFacts
          <6> QED
            BY <1>7, <6>2, <6>3
        <5> QED
          BY <5>1, <5>2
      <4> QED
        BY <4>1, <4>2, <4>3, <4>4 DEF IInv, StackOK
    <3> QED
      BY <1>3, <1>4, <3>1, <3>2
  <2>3. ASSUME NEW i \in 1 .. Len(stack'), NEW j \in 1 .. Len(stack'), i < j
        PROVE  stack'[j] < stack'[i]
    <3>1. i \in 1 .. Len(stack) /\ stack'[i] = stack[i]
      BY <1>3, <1>4, <2>3
    <3>2. CASE j = Len(stack) + 1
      BY <1>4, <1>5, <3>1, <3>2
    <3>3. CASE j # Len(stack) + 1
      <4>1. j \in 1 .. Len(stack) /\ stack'[j] = stack[j]
        BY <1>3, <1>4, <3>3
      <4> QED
        BY <2>3, <3>1, <4>1 DEF IInv, StackOK
    <3> QED
      BY <3>2, <3>3
  <2>4. ASSUME NEW k \in Nodes
        PROVE  pc'[k] # "idle" <=> \E i \in 1 .. Len(stack') : stack'[i] = k
    <3>1. CASE k = c
      BY <1>2, <1>3, <1>4, <1>7, <3>1 DEF Methods
    <3>2. CASE k = n
      BY <1>2, <1>3, <1>4, <1>7, <3>2
    <3>3. CASE k # c /\ k # n
      <4>1. pc[k] # "idle" <=> \E i \in 1 .. Len(stack) : stack[i] = k
        BY DEF IInv, StackOK
      <4>2. (\E i \in 1 .. Len(stack') : stack'[i] = k)
              <=> \E i \in 1 .. Len(stack) : stack[i] = k
        <5>1. ASSUME NEW i \in 1 .. Len(stack'), stack'[i] = k
              PROVE  i \in 1 .. Len(stack) /\ stack[i] = k
          BY <1>3, <1>4, <3>3, <5>1
        <5>2. ASSUME NEW i \in 1 .. Len(stack), stack[i] = k
              PROVE  i \in 1 .. Len(stack') /\ stack'[i] = k
          BY <1>3, <1>4, <5>2
        <5> QED
          BY <5>1, <5>2
      <4> QED
        BY <1>7, <3>3, <4>1, <4>2
    <3> QED
      BY <3>1, <3>2, <3>3
  <2>5. \A i \in 1 .. Len(stack') - 1 :
          (Callee(stack[i], pc[stack[i]]))' = Callee(stack'[i], pc'[stack'[i]])
    BY DEF Callee, RightChild, Child
  <2> QED
    BY <1>1, <2>1, <2>2, <2>3, <2>4, <2>5 DEF StackOK
<1>11. LabelsOK'
  BY <1>1, <1>2, <1>7 DEF IInv, LabelsOK, Kind
<1>12. IdsOK'
  BY <1>1 DEF IInv, IdsOK, TableSize
<1>13. ASSUME NEW k \in Nodes PROVE ChildrenOK(k)'
  <2>1. CASE k = n
    BY <2>1
  <2>2. CASE k # n
    <3>1. ChildrenOK(k) /\ l_tp'[k] = l_tp[k]
      BY <2>2 DEF IInv
    <3>2. Resting(k)' => Resting(k)
      BY <1>6, <1>7, <2>2 DEF Resting
    <3>3. pc'[k] \in Waits => pc'[k] = pc[k]
      BY <1>2, <1>7, <2>2 DEF Waits, Methods
    <3> QED
      BY <3>1, <3>2, <3>3
      DEF ChildrenOK, Kind, Child, LeftChild, RightChild, Schema, Waits
  <2> QED
    BY <2>1, <2>2
<1>14. PullingOK'
  <2> SUFFICES ASSUME NEW k \in Nodes, pc'[k] # "idle", MethodOf(pc'[k]) = "get_next"
               PROVE  live[k]
    BY <1>1 DEF PullingOK
  <2>1. CASE k = n
    BY <1>3, <1>7, <2>1 DEF IInv, PullingOK
  <2>2. CASE k = c
    BY <1>2, <1>7, <2>2
  <2>3. CASE k # n /\ k # c
    BY <1>7, <2>3 DEF IInv, PullingOK
  <2> QED
    BY <2>1, <2>2, <2>3
<1>15. ReturnOK'
  <2>1. Top' = c
    BY <1>3, <1>4 DEF Top
  <2> QED
    BY <1>2, <1>7, <2>1 DEF ReturnOK, Waits, Methods
<1> QED
  BY <1>1, <1>9, <1>10, <1>11, <1>12, <1>13, <1>14, <1>15 DEF IInv

(* A frame is popped. *)
LEMMA Popped ==
  ASSUME stack \in Seq(Nodes), Len(stack) > 0,
         stack' = SubSeq(stack, 1, Len(stack) - 1)
  PROVE  /\ stack' \in Seq(Nodes) /\ Len(stack') = Len(stack) - 1
         /\ \A i \in 1 .. Len(stack) - 1 : stack'[i] = stack[i]
<1> DEFINE last == Len(stack) - 1
<1>1. last \in Nat /\ \A i \in 1 .. last : stack[i] \in Nodes
  OBVIOUS
<1>2. stack' = SubSeq(stack, 1, last)
  OBVIOUS
<1> HIDE DEF last
<1>3. /\ stack' \in Seq(Nodes)
      /\ Len(stack') = IF 1 <= last THEN last - 1 + 1 ELSE 0
      /\ \A i \in 1 .. last - 1 + 1 : stack'[i] = stack[1 + i - 1]
  BY <1>1, <1>2, SubSeqProperties
<1>4. Len(stack') = last /\ \A i \in 1 .. last : stack'[i] = stack[i]
  BY <1>1, <1>3
<1> QED
  BY <1>3, <1>4 DEF last

(* A return leaves the invariant true if n is live iff it returned true     *)
(* from open or get_next, a row it returned fits its schema, and its own    *)
(* part of IdsOK and ChildrenOK holds.                                      *)
LEMMA ReturnKeeps ==
  ASSUME IInv, NEW n \in Nodes, OnTop(n),
         NEW ok \in BOOLEAN, NEW tp \in Tuples, Return(n, ok, tp),
         NEW x \in BOOLEAN, live' = [live EXCEPT ![n] = x],
         MethodOf(pc[n]) \in {"open", "get_next"} => x = ok,
         (MethodOf(pc[n]) = "get_next" /\ ok) => Len(tp) = Len(Schema(n)),
         UNCHANGED <<plan, data>>,
         fetched' \in [Nodes -> Nat],
         p_next_id' \in [Nodes -> {NullId} \cup Nat], IdsOK',
         l_tp' \in [Nodes -> Tuples],
         \A k \in Nodes \ {n} : l_tp'[k] = l_tp[k],
         ChildrenOK(n)'
  PROVE  IInv'
<1>1. /\ plan \in Plans /\ Nodes' = Nodes
      /\ pc \in [Nodes -> Labels] /\ live \in [Nodes -> BOOLEAN]
  BY DEF IInv, TypeOK, Nodes
<1>2. /\ Len(stack) \in Nat /\ Len(stack) > 0
      /\ stack \in Seq(Nodes) /\ stack[Len(stack)] = n
      /\ pc[n] # "idle"
      /\ \A i \in 1 .. Len(stack) - 1 : stack[i] \in Nodes /\ n < stack[i]
  BY TopFacts
<1>3. /\ pc' \in [Nodes -> Labels] /\ pc'[n] = "idle"
      /\ \A k \in Nodes : k # n => pc'[k] = pc[k]
  BY <1>1 DEF Return, Labels
<1>4. /\ live' \in [Nodes -> BOOLEAN] /\ live'[n] = x
      /\ \A k \in Nodes : k # n => live'[k] = live[k]
  BY <1>1
<1>5. /\ stack' \in Seq(Nodes) /\ Len(stack') = Len(stack) - 1
      /\ \A i \in 1 .. Len(stack) - 1 : stack'[i] = stack[i]
  BY <1>2, Popped DEF Return
<1>6. \A i \in 1 .. Len(stack) - 1 : stack[i] # n
  BY <1>1, <1>2, PlanFacts
<1>7. TypeOK'
  BY <1>1, <1>3, <1>4, <1>5 DEF IInv, TypeOK, Nodes, Return
<1>8. StackOK'
  <2>1. ~Idle' => stack'[1] = Root'
    <3> SUFFICES ASSUME stack' # <<>> PROVE stack'[1] = Root
      BY DEF Idle, Root
    <3>1. 1 \in 1 .. Len(stack) - 1
      BY <1>2, <1>5
    <3> QED
      BY <1>2, <1>5, <3>1 DEF IInv, StackOK, Idle
  <2>2. ASSUME NEW i \in 1 .. Len(stack') - 1
        PROVE  /\ pc'[stack'[i]] \in Waits
               /\ stack'[i + 1] = Callee(stack'[i], pc'[stack'[i]])
               /\ MethodOf(pc'[stack'[i + 1]]) = Called(pc'[stack'[i]])
    <3>1. i \in 1 .. Len(stack) - 1 /\ i + 1 \in 1 .. Len(stack) - 1
      BY <1>2, <1>5
    <3>2. /\ stack'[i] = stack[i] /\ stack'[i + 1] = stack[i + 1]
          /\ pc'[stack[i]] = pc[stack[i]] /\ pc'[stack[i + 1]] = pc[stack[i + 1]]
      BY <1>2, <1>3, <1>5, <1>6, <3>1
    <3> QED
      BY <3>1, <3>2 DEF IInv, StackOK
  <2>3. ASSUME NEW i \in 1 .. Len(stack'), NEW j \in 1 .. Len(stack'), i < j
        PROVE  stack'[j] < stack'[i]
    <3>1. i \in 1 .. Len(stack) - 1 /\ j \in 1 .. Len(stack) - 1
      BY <1>5
    <3>2. stack'[i] = stack[i] /\ stack'[j] = stack[j]
      BY <1>5, <3>1
    <3>3. i \in 1 .. Len(stack) /\ j \in 1 .. Len(stack)
      BY <1>2, <3>1
    <3> QED
      BY <2>3, <3>2, <3>3 DEF IInv, StackOK
  <2>4. ASSUME NEW k \in Nodes
        PROVE  pc'[k] # "idle" <=> \E i \in 1 .. Len(stack') : stack'[i] = k
    <3>1. CASE k = n
      BY <1>2, <1>3, <1>5, <1>6, <3>1
    <3>2. CASE k # n
      <4>1. pc[k] # "idle" <=> \E i \in 1 .. Len(stack) : stack[i] = k
        BY DEF IInv, StackOK
      <4>2. (\E i \in 1 .. Len(stack') : stack'[i] = k)
              <=> \E i \in 1 .. Len(stack) : stack[i] = k
        <5> DEFINE size == Len(stack)
        <5>0. size \in Nat /\ Len(stack') = size - 1
          BY <1>2, <1>5
        <5>1. ASSUME NEW i \in 1 .. Len(stack'), stack'[i] = k
              PROVE  i \in 1 .. Len(stack) /\ stack[i] = k
          <6>1. i \in 1 .. size - 1
            BY <5>0
          <6>2. i \in 1 .. size
            BY <5>0, <6>1
          <6> QED
            BY <1>5, <5>1, <6>1, <6>2
        <5>2. ASSUME NEW i \in 1 .. Len(stack), stack[i] = k
              PROVE  i \in 1 .. Len(stack') /\ stack'[i] = k
          <6>1. i # size
            BY <1>2, <3>2, <5>2
          <6>2. i \in 1 .. size - 1
            BY <5>0, <6>1
          <6> QED
            BY <1>5, <5>0, <5>2, <6>2
        <5> QED
          BY <5>1, <5>2
      <4> QED
        BY <1>3, <3>2, <4>1, <4>2
    <3> QED
      BY <3>1, <3>2
  <2>5. \A i \in 1 .. Len(stack') - 1 :
          (Callee(stack[i], pc[stack[i]]))' = Callee(stack'[i], pc'[stack'[i]])
    BY DEF Callee, RightChild, Child
  <2> QED
    BY <1>1, <2>1, <2>2, <2>3, <2>4, <2>5 DEF StackOK
<1>9. LabelsOK'
  BY <1>1, <1>3 DEF IInv, LabelsOK, Kind
<1>10. ASSUME NEW k \in Nodes PROVE ChildrenOK(k)'
  <2>1. CASE k = n
    BY <2>1
  <2>2. CASE k # n
    <3>1. /\ ChildrenOK(k) /\ l_tp'[k] = l_tp[k]
          /\ pc'[k] = pc[k] /\ live'[k] = live[k]
      BY <1>3, <1>4, <2>2 DEF IInv
    <3>2. CASE n \notin ChildrenOf(plan, k)
      <4>1. /\ Kind(k) \in {"Filter", "Projection"} => live'[Child(k)] = live[Child(k)]
            /\ Kind(k) = "BinaryJoin" =>
                 /\ live'[LeftChild(k)] = live[LeftChild(k)]
                 /\ live'[RightChild(k)] = live[RightChild(k)]
        BY <1>1, <1>4, <3>2, PlanFacts
      <4> QED
        BY <3>1, <4>1 DEF ChildrenOK, Resting, Kind, Child, LeftChild, RightChild, Schema
    <3>3. CASE n \in ChildrenOf(plan, k)
      <4>1. pc[k] \in WaitsOf(Kind(k)) /\ Callee(k, pc[k]) = n
        BY <3>3, TopFacts
      <4>2. ~Resting(k)'
        BY <1>1, <3>1, <4>1, CalleeFacts DEF Resting, Methods
      <4>3. Kind(k) = "BinaryJoin" => LeftChild(k) \in Nodes /\ RightChild(k) \in Nodes
                                      /\ LeftChild(k) # RightChild(k)
        BY <1>1, PlanFacts
      <4>4. Kind(k) = "BinaryJoin" =>
              /\ pc[k] \in {"open_right", "pull_right", "reopen_right"} =>
                   live'[LeftChild(k)] = live[LeftChild(k)]
              /\ pc[k] = "open_first" => live'[RightChild(k)] = live[RightChild(k)]
        BY <1>4, <4>1, <4>3 DEF Callee, Child, LeftChild
      <4> QED
        BY <3>1, <4>2, <4>4 DEF ChildrenOK, Kind, LeftChild, RightChild, Schema
    <3> QED
      BY <3>2, <3>3
  <2> QED
    BY <2>1, <2>2
<1>11. PullingOK'
  <2> SUFFICES ASSUME NEW k \in Nodes, pc'[k] # "idle", MethodOf(pc'[k]) = "get_next"
               PROVE  live'[k]
    BY <1>1 DEF PullingOK
  <2>1. k # n /\ pc[k] # "idle" /\ MethodOf(pc[k]) = "get_next"
    BY <1>3
  <2> QED
    BY <1>4, <2>1 DEF IInv, PullingOK
<1>12. ReturnOK'
  <2> SUFFICES ASSUME stack' # <<>>, pc'[Top'] \in Waits
               PROVE  LET w == pc'[Top']
                          c == Callee(Top', w)
                      IN  /\ Called(w) \in {"open", "get_next"} => live'[c] = ret'.ok
                          /\ (Called(w) = "get_next" /\ ret'.ok) =>
                                Len(ret'.tp) = Len(Schema(c))
    BY DEF ReturnOK, Idle, Callee, RightChild, Child, Schema
  <2> DEFINE i == Len(stack) - 1
             q == stack[i]
  <2>1. i \in 1 .. Len(stack) - 1 /\ i + 1 = Len(stack)
    BY <1>2, <1>5
  <2>2. Top' = q /\ q \in Nodes /\ q # n
    BY <1>2, <1>5, <1>6, <2>1 DEF Top
  <2>3. Callee(q, pc[q]) = n /\ Called(pc[q]) = MethodOf(pc[n])
    <3> HIDE DEF i
    <3> QED
      BY <1>2, <2>1 DEF IInv, StackOK
  <2>4. pc'[q] = pc[q]
    BY <1>3, <2>2
  <2>5. ret'.ok = ok /\ ret'.tp = tp
    BY DEF Return
  <2> HIDE DEF q
  <2> QED
    BY <1>4, <2>2, <2>3, <2>4, <2>5
<1> QED
  BY <1>1, <1>7, <1>8, <1>9, <1>10, <1>11, <1>12 DEF IInv

(* An exception leaves nothing to keep. *)
LEMMA ThrowKeeps ==
  ASSUME IInv, Throw, UNCHANGED <<plan, data, p_next_id, l_tp>>
  PROVE  IInv'
<1>1. Nodes' = Nodes
  BY DEF Nodes
<1>2. TypeOK'
  BY <1>1 DEF IInv, TypeOK, Throw, Labels, Tuples, Nodes
<1>3. StackOK'
  BY <1>1 DEF Throw, StackOK, Idle
<1>4. LabelsOK' /\ IdsOK'
  BY <1>1 DEF IInv, LabelsOK, IdsOK, Throw, TableSize
<1>5. \A n \in Nodes : ChildrenOK(n)'
  BY DEF Throw, ChildrenOK
<1>6. PullingOK' /\ ReturnOK'
  BY <1>1 DEF Throw, PullingOK, ReturnOK, Idle
<1> QED
  BY <1>1, <1>2, <1>3, <1>4, <1>5, <1>6 DEF IInv

-----------------------------------------------------------------------------
(* The operators *)

(* The row at a scan's tuple id exists and fits the scan's schema. *)
LEMMA TupleAtFits ==
  ASSUME IInv, NEW n \in Nodes, Kind(n) = "TableScan", p_next_id[n] # NullId
  PROVE  /\ TupleAt(plan[n].rel, p_next_id[n]) \in Tuples
         /\ Len(TupleAt(plan[n].rel, p_next_id[n])) = Len(Schema(n))
<1> DEFINE rel == plan[n].rel
           off == p_next_id[n]
<1>1. plan \in Plans /\ data \in Databases /\ off \in Nat
  BY DEF IInv, TypeOK
<1>2. off < TableSize(rel)
  BY DEF IInv, IdsOK
<1>3. rel \in DOMAIN data /\ off < Len(data[rel])
  BY <1>1, <1>2 DEF TableSize
<1>4. data[rel] \in Seq(Tuples) /\ RowsFit(plan, data)
  BY <1>1, <1>3, DatabasesAssumption
<1>5. off + 1 \in 1 .. Len(data[rel])
  BY <1>1, <1>3, <1>4
<1>6. TupleAt(rel, off) = data[rel][off + 1]
  BY <1>1, <1>2, <1>3, <1>4 DEF TupleAt, TableSize
<1>7. Len(data[rel][off + 1]) = Len(Schema(n))
  <2>1. off + 1 \in DOMAIN data[rel]
    BY <1>4, <1>5
  <2> QED
    BY <1>3, <1>4, <2>1 DEF RowsFit, Kind, Schema, Nodes
<1>8. data[rel][off + 1] \in Tuples
  BY <1>4, <1>5
<1> QED
  BY <1>6, <1>7, <1>8

(* The steps of a table scan keep the invariant. *)
LEMMA ScanKeeps ==
  ASSUME IInv, NEW n \in Nodes, ScanStep(n), UNCHANGED <<plan, data>>
  PROVE  IInv'
<1>1. /\ plan \in Plans /\ data \in Databases /\ Nodes' = Nodes /\ NullId = -1
      /\ p_next_id \in [Nodes -> {NullId} \cup Nat]
      /\ l_tp \in [Nodes -> Tuples]
      /\ live \in [Nodes -> BOOLEAN] /\ fetched \in [Nodes -> Nat]
  BY DEF IInv, TypeOK, Nodes, NullId
<1>2. Kind(n) = "TableScan" /\ OnTop(n) /\ l_tp' = l_tp /\ ChildrenOK(n)'
  BY DEF ScanStep, ScanOpen, ScanNext, ScanEnd, ScanClose, At, ChildrenOK, Kind
<1>3. <<>> \in Tuples
  BY DEF Tuples
<1>4. \A rel : (TableSize(rel))' = TableSize(rel) /\ TableSize(rel) \in Nat
  BY <1>1, DatabasesAssumption DEF TableSize
<1>5. CASE ScanOpen(n)
  <2> PICK ok \in BOOLEAN : ok = (p_next_id'[n] # NullId)
    OBVIOUS
  <2>1. Return(n, ok, <<>>) /\ live' = [live EXCEPT ![n] = ok]
        /\ fetched' = [fetched EXCEPT ![n] = 0]
    BY <1>5 DEF ScanOpen, Opened
  <2>2. MethodOf(pc[n]) = "open"
    BY <1>5 DEF ScanOpen, At, MethodOf
  <2>3. p_next_id' = [p_next_id EXCEPT ![n] = StartId(plan[n].rel)]
    BY <1>5 DEF ScanOpen
  <2>4. StartId(plan[n].rel) \in {NullId} \cup Nat
        /\ (StartId(plan[n].rel) # NullId => StartId(plan[n].rel) < TableSize(plan[n].rel))
    BY <1>4 DEF StartId
  <2>5. p_next_id' \in [Nodes -> {NullId} \cup Nat] /\ IdsOK'
    BY <1>1, <1>4, <2>3, <2>4 DEF IInv, IdsOK
  <2>6. fetched' \in [Nodes -> Nat]
    BY <1>1, <2>1
  <2> QED
    BY <1>1, <1>2, <1>3, <2>1, <2>2, <2>5, <2>6, ReturnKeeps
<1>6. CASE ScanNext(n)
  <2> DEFINE tp == TupleAt(plan[n].rel, p_next_id[n])
  <2>1. Return(n, TRUE, tp) /\ live' = live
        /\ fetched' = [fetched EXCEPT ![n] = @ + 1]
    BY <1>6 DEF ScanNext, Yielded
  <2>2. MethodOf(pc[n]) = "get_next" /\ live[n]
    BY <1>6 DEF ScanNext, At, MethodOf, IInv, PullingOK
  <2>3. live' = [live EXCEPT ![n] = TRUE]
    BY <1>1, <2>1, <2>2
  <2>4. tp \in Tuples /\ Len(tp) = Len(Schema(n))
    BY <1>2, <1>6, TupleAtFits DEF ScanNext
  <2>5. p_next_id' = [p_next_id EXCEPT ![n] = NextId(plan[n].rel, p_next_id[n])]
    BY <1>6 DEF ScanNext
  <2>6. NextId(plan[n].rel, p_next_id[n]) \in {NullId} \cup Nat
        /\ (NextId(plan[n].rel, p_next_id[n]) # NullId =>
              NextId(plan[n].rel, p_next_id[n]) < TableSize(plan[n].rel))
    BY <1>1, <1>4, <1>6 DEF NextId, ScanNext
  <2>7. p_next_id' \in [Nodes -> {NullId} \cup Nat] /\ IdsOK'
    BY <1>1, <1>4, <2>5, <2>6 DEF IInv, IdsOK
  <2>8. fetched' \in [Nodes -> Nat]
    BY <1>1, <2>1
  <2> HIDE DEF tp
  <2> QED
    BY <1>1, <1>2, <2>1, <2>2, <2>3, <2>4, <2>7, <2>8, ReturnKeeps
<1>7. CASE ScanEnd(n) \/ ScanClose(n)
  <2>1. Return(n, FALSE, <<>>) /\ live' = [live EXCEPT ![n] = FALSE] /\ fetched' = fetched
    BY <1>7 DEF ScanEnd, ScanClose, Closed, Ended
  <2>2. p_next_id' = [p_next_id EXCEPT ![n] = NullId]
    BY <1>1, <1>7 DEF ScanEnd, ScanClose
  <2>3. p_next_id' \in [Nodes -> {NullId} \cup Nat] /\ IdsOK'
    BY <1>1, <1>4, <2>2 DEF IInv, IdsOK
  <2> QED
    BY <1>1, <1>2, <1>3, <2>1, <2>3, ReturnKeeps
<1> QED
  BY <1>5, <1>6, <1>7 DEF ScanStep

(* What a node learns from the call it waited for. *)
LEMMA ReturnFacts ==
  ASSUME IInv, NEW n \in Nodes, OnTop(n), pc[n] \in Waits
  PROVE  /\ Called(pc[n]) \in {"open", "get_next"} => live[Callee(n, pc[n])] = ret.ok
         /\ (Called(pc[n]) = "get_next" /\ ret.ok) =>
              Len(ret.tp) = Len(Schema(Callee(n, pc[n])))
BY DEF IInv, ReturnOK, OnTop

(* A projected row has the columns of the projection. *)
LEMMA ProjectRowFits ==
  ASSUME plan \in Plans, NEW n \in Nodes, Kind(n) = "Projection",
         NEW tp \in Tuples, Len(tp) = Len(Schema(Child(n)))
  PROVE  /\ ProjectRow(tp, Schema(Child(n)), Schema(n)) \in Tuples
         /\ Len(ProjectRow(tp, Schema(Child(n)), Schema(n))) = Len(Schema(n))
<1> DEFINE from == Schema(Child(n))
           to == Schema(n)
           row == ProjectRow(tp, from, to)
<1>1. from \in Schemas /\ to \in Schemas
  BY PlanFacts
<1>2. \A i \in DOMAIN to : HasColumn(from, to[i])
  BY SchemaFacts
<1> HIDE DEF from, to
<1>3. to \in Seq(Columns) /\ DOMAIN to = 1 .. Len(to) /\ Len(to) \in Nat
  BY <1>1 DEF Schemas
<1>4. \A i \in 1 .. Len(to) : AttributeId(from, to[i]) \in 1 .. Len(tp)
  BY <1>1, <1>2, <1>3, AttributeIdInRange DEF from
<1>5. \A i \in 1 .. Len(to) : tp[AttributeId(from, to[i])] \in Values
  BY <1>4 DEF Tuples
<1>6. row = [i \in 1 .. Len(to) |-> tp[AttributeId(from, to[i])]]
  BY <1>3 DEF ProjectRow
<1>7. row \in Seq(Values) /\ Len(row) = Len(to)
  BY <1>3, <1>5, <1>6
<1> QED
  BY <1>7 DEF Tuples, from, to

(* So do those of a filter and of a projection, which have one child. *)
LEMMA UnaryKeeps ==
  ASSUME IInv, NEW n \in Nodes, UnaryStep(n), UNCHANGED <<plan, data>>
  PROVE  IInv'
<1>1. /\ plan \in Plans /\ Nodes' = Nodes
      /\ p_next_id \in [Nodes -> {NullId} \cup Nat] /\ IdsOK
      /\ l_tp \in [Nodes -> Tuples]
      /\ live \in [Nodes -> BOOLEAN] /\ fetched \in [Nodes -> Nat]
      /\ ret.ok \in BOOLEAN /\ ret.tp \in Tuples
      /\ <<>> \in Tuples
  BY DEF IInv, TypeOK, Nodes, Tuples
<1>2. /\ Kind(n) \in {"Filter", "Projection"} /\ OnTop(n)
      /\ p_next_id' = p_next_id /\ l_tp' = l_tp
  BY DEF UnaryStep, Delegate, DelegateOpened, DelegateEnd, DelegateClosed,
         FilterThrow, FilterPass, FilterReject, ProjectionBuild, At
<1>3. IdsOK'
  BY <1>1, <1>2 DEF IdsOK, TableSize
<1>4. /\ WaitsOf(Kind(n)) = {"opening", "pulling", "closing"}
      /\ \A w \in WaitsOf(Kind(n)) : Callee(n, w) = Child(n)
      /\ Child(n) \in Nodes /\ Child(n) # n
  BY <1>1, <1>2, PlanFacts DEF WaitsOf, Callee
<1>5. pc[n] = "pulling" =>
        /\ live[n] /\ MethodOf(pc[n]) = "get_next"
        /\ live[Child(n)] = ret.ok
        /\ ret.ok => Len(ret.tp) = Len(Schema(Child(n)))
  <2> SUFFICES ASSUME pc[n] = "pulling"
               PROVE  /\ live[n] /\ MethodOf(pc[n]) = "get_next"
                      /\ live[Child(n)] = ret.ok
                      /\ ret.ok => Len(ret.tp) = Len(Schema(Child(n)))
    OBVIOUS
  <2>1. MethodOf(pc[n]) = "get_next" /\ Called(pc[n]) = "get_next" /\ pc[n] \in Waits
    BY DEF MethodOf, Called, Waits
  <2>2. live[n]
    BY <2>1 DEF IInv, PullingOK
  <2>3. Callee(n, pc[n]) = Child(n)
    BY <1>4
  <2> QED
    BY <1>2, <2>1, <2>2, <2>3, ReturnFacts
<1>6. pc'[n] = "idle" /\ (live'[n] => live'[Child(n)]) => ChildrenOK(n)'
  BY <1>2 DEF ChildrenOK, Resting, Kind, Child
<1>7. pc'[n] \in {"opening", "pulling", "closing"} => ChildrenOK(n)'
  BY <1>2 DEF ChildrenOK, Resting, Kind
<1>8. CASE Delegate(n)
  <2> PICK m \in Methods, w \in {"opening", "pulling", "closing"} :
            /\ pc[n] = m /\ MethodOf(m) = m /\ MethodOf(w) = m /\ Called(w) = m
            /\ Call(n, w, Child(n), m)
    BY <1>8 DEF Delegate, At, Methods, MethodOf, Called
  <2>1. m = "get_next" => live[Child(n)]
    <3> SUFFICES ASSUME m = "get_next" PROVE live[Child(n)]
      OBVIOUS
    <3>1. live[n]
      BY DEF IInv, PullingOK
    <3> QED
      BY <1>2, <3>1 DEF IInv, ChildrenOK, Resting
  <2>2. pc'[n] = w
    BY <1>1, <1>4 DEF Call, IInv, TypeOK
  <2> QED
    BY <1>1, <1>2, <1>4, <1>7, <1>8, <2>1, <2>2, CallKeeps DEF Delegate
<1>9. CASE FilterReject(n)
  <2>1. /\ Call(n, "pulling", Child(n), "get_next") /\ pc[n] = "pulling" /\ ret.ok
        /\ Called("pulling") = "get_next"
    BY <1>9 DEF FilterReject, At, Called
  <2>2. pc'[n] = "pulling"
    BY <1>1, <1>4, <2>1 DEF Call, IInv, TypeOK
  <2> QED
    BY <1>1, <1>2, <1>4, <1>5, <1>7, <1>9, <2>1, <2>2, CallKeeps DEF FilterReject
<1>10. CASE DelegateOpened(n)
  <2>1. /\ Return(n, ret.ok, <<>>) /\ live' = [live EXCEPT ![n] = ret.ok]
        /\ fetched' = [fetched EXCEPT ![n] = 0]
        /\ pc[n] = "opening" /\ MethodOf(pc[n]) = "open"
        /\ Called(pc[n]) = "open" /\ pc[n] \in Waits /\ Callee(n, pc[n]) = Child(n)
    BY <1>4, <1>10 DEF DelegateOpened, Opened, At, MethodOf, Called, Waits
  <2>2. live[Child(n)] = ret.ok
    BY <1>2, <2>1, ReturnFacts
  <2>3. live'[n] = ret.ok /\ live'[Child(n)] = live[Child(n)] /\ fetched' \in [Nodes -> Nat]
    BY <1>1, <1>4, <2>1
  <2>4. pc'[n] = "idle"
    BY <2>1 DEF Return, IInv, TypeOK
  <2> QED
    BY <1>1, <1>2, <1>3, <1>6, <2>1, <2>2, <2>3, <2>4, ReturnKeeps
<1>11. CASE DelegateEnd(n) \/ DelegateClosed(n)
  <2>1. /\ Return(n, FALSE, <<>>) /\ live' = [live EXCEPT ![n] = FALSE]
        /\ fetched' = fetched
    BY <1>11 DEF DelegateEnd, DelegateClosed, Closed, Ended
  <2>2. pc'[n] = "idle" /\ ~live'[n]
    BY <1>1, <2>1 DEF Return, IInv, TypeOK
  <2> QED
    BY <1>1, <1>2, <1>3, <1>6, <2>1, <2>2, ReturnKeeps
<1>12. ASSUME NEW tp \in Tuples, Len(tp) = Len(Schema(n)),
              pc[n] = "pulling", ret.ok, Yielded(n, tp)
       PROVE  IInv'
  <2>1. /\ Return(n, TRUE, tp) /\ live' = live
        /\ fetched' = [fetched EXCEPT ![n] = @ + 1]
    BY <1>12 DEF Yielded
  <2>2. live' = [live EXCEPT ![n] = TRUE]
    BY <1>1, <1>5, <1>12, <2>1
  <2>3. pc'[n] = "idle" /\ fetched' \in [Nodes -> Nat]
    BY <1>1, <2>1 DEF Return, IInv, TypeOK
  <2>4. live'[Child(n)]
    BY <1>5, <1>12, <2>1
  <2> QED
    BY <1>1, <1>2, <1>3, <1>5, <1>6, <1>12, <2>1, <2>2, <2>3, <2>4, ReturnKeeps
<1>13. CASE FilterPass(n)
  <2>1. Schema(n) = Schema(Child(n))
    BY <1>1, <1>13, SchemaFacts DEF FilterPass
  <2> QED
    BY <1>1, <1>5, <1>12, <1>13, <2>1 DEF FilterPass, At
<1>14. CASE ProjectionBuild(n)
  <2>1. pc[n] = "pulling" /\ ret.ok /\ Kind(n) = "Projection"
    BY <1>14 DEF ProjectionBuild, At
  <2>2. /\ ProjectRow(ret.tp, Schema(Child(n)), Schema(n)) \in Tuples
        /\ Len(ProjectRow(ret.tp, Schema(Child(n)), Schema(n))) = Len(Schema(n))
    BY <1>1, <1>5, <2>1, ProjectRowFits
  <2> QED
    BY <1>12, <1>14, <2>1, <2>2 DEF ProjectionBuild
<1>15. CASE FilterThrow(n)
  BY <1>2, <1>15, ThrowKeeps DEF FilterThrow
<1> QED
  BY <1>8, <1>9, <1>10, <1>11, <1>13, <1>14, <1>15 DEF UnaryStep

(* So do those of a nested-loop join, which calls two in turn. *)
LEMMA JoinKeeps ==
  ASSUME IInv, NEW n \in Nodes, JoinStep(n), UNCHANGED <<plan, data>>
  PROVE  IInv'
<1> DEFINE L == LeftChild(n)
           R == RightChild(n)
           held == Len(l_tp[n]) = Len(Schema(L))
<1>1. /\ plan \in Plans /\ Nodes' = Nodes
      /\ p_next_id \in [Nodes -> {NullId} \cup Nat] /\ IdsOK
      /\ l_tp \in [Nodes -> Tuples] /\ pc \in [Nodes -> Labels]
      /\ live \in [Nodes -> BOOLEAN] /\ fetched \in [Nodes -> Nat]
      /\ ret.ok \in BOOLEAN /\ ret.tp \in Tuples
      /\ <<>> \in Tuples
  BY DEF IInv, TypeOK, Nodes, Tuples
<1>2. Kind(n) = "BinaryJoin" /\ OnTop(n) /\ p_next_id' = p_next_id
  BY DEF JoinStep, JoinOpen, JoinOpenRight, JoinOpenFirst, JoinOpened, JoinOpenFailed,
         JoinNext, JoinEmit, JoinPullOuter, JoinReopenInner, JoinEnd, JoinPullInner,
         JoinClose, JoinCloseRight, JoinClosed, At
<1>3. IdsOK'
  BY <1>1, <1>2 DEF IdsOK, TableSize
<1>4. L \in Nodes /\ R \in Nodes /\ L # R /\ L # n /\ R # n
  BY <1>1, <1>2, PlanFacts
<1>5. /\ WaitsOf(Kind(n)) = {"open_left", "open_right", "open_first", "pull_right",
                            "pull_left", "reopen_right", "close_left", "close_right"}
      /\ \A w \in {"open_left", "open_first", "pull_left", "close_left"} : Callee(n, w) = L
      /\ \A w \in {"open_right", "pull_right", "reopen_right", "close_right"} : Callee(n, w) = R
  BY <1>2 DEF WaitsOf, Waits, Callee, Child, LeftChild
<1>6. /\ (live[n] /\ Resting(n)) => live[L] /\ live[R] /\ held
      /\ pc[n] \in {"open_right", "pull_right", "reopen_right"} => live[L]
      /\ pc[n] = "open_first" => live[R]
      /\ pc[n] \in {"pull_right", "reopen_right"} => held
  BY <1>2 DEF IInv, ChildrenOK
<1>7. (pc[n] # "idle" /\ MethodOf(pc[n]) = "get_next") => live[n]
  BY DEF IInv, PullingOK
<1>8. /\ pc[n] \in {"open_left", "open_first", "pull_left"} => live[L] = ret.ok
      /\ pc[n] \in {"open_right", "pull_right", "reopen_right"} => live[R] = ret.ok
      /\ (pc[n] \in {"open_first", "pull_left"} /\ ret.ok) => Len(ret.tp) = Len(Schema(L))
      /\ (pc[n] = "pull_right" /\ ret.ok) => Len(ret.tp) = Len(Schema(R))
  <2>1. pc[n] \in Waits =>
          /\ Called(pc[n]) \in {"open", "get_next"} => live[Callee(n, pc[n])] = ret.ok
          /\ (Called(pc[n]) = "get_next" /\ ret.ok) =>
               Len(ret.tp) = Len(Schema(Callee(n, pc[n])))
    BY <1>2, ReturnFacts
  <2> HIDE DEF L, R
  <2> QED
    BY <1>5, <2>1 DEF Waits, Called
\* The join's own part of the invariant after a step, from what it needs there.
<1>9. /\ (live'[n] /\ Resting(n)') => live'[L] /\ live'[R] /\ Len(l_tp'[n]) = Len(Schema(L))
      /\ pc'[n] \in {"open_right", "pull_right", "reopen_right"} => live'[L]
      /\ pc'[n] = "open_first" => live'[R]
      /\ pc'[n] \in {"pull_right", "reopen_right"} => Len(l_tp'[n]) = Len(Schema(L))
      => ChildrenOK(n)'
  BY <1>2 DEF ChildrenOK, Kind, LeftChild, RightChild, Schema
<1> HIDE DEF L, R
\* A call by the join.
<1>10. ASSUME NEW w \in WaitsOf(Kind(n)), NEW c \in {L, R}, c = Callee(n, w),
              NEW m, m = Called(w), Call(n, w, c, m), MethodOf(w) = MethodOf(pc[n]),
              m = "get_next" => live[c],
              UNCHANGED <<p_next_id, ret, live, fetched>>,
              l_tp' \in [Nodes -> Tuples],
              \A k \in Nodes \ {n} : l_tp'[k] = l_tp[k],
              w \in {"open_right", "pull_right", "reopen_right"} => live[L],
              w = "open_first" => live[R],
              w \in {"pull_right", "reopen_right"} => Len(l_tp'[n]) = Len(Schema(L))
       PROVE  IInv'
  <2>1. pc'[n] = w
    BY <1>1, <1>4, <1>10 DEF Call
  <2>2. ~Resting(n)'
    BY <1>5, <1>10, <2>1 DEF Resting
  <2>3. ChildrenOK(n)'
    BY <1>9, <1>10, <2>1, <2>2
  <2> QED
    BY <1>1, <1>2, <1>10, <2>3, CallKeeps
\* A return from the join.
<1>11. ASSUME NEW ok \in BOOLEAN, NEW tp \in Tuples, Return(n, ok, tp),
              NEW x \in BOOLEAN, live' = [live EXCEPT ![n] = x],
              MethodOf(pc[n]) \in {"open", "get_next"} => x = ok,
              (MethodOf(pc[n]) = "get_next" /\ ok) => Len(tp) = Len(Schema(n)),
              fetched' \in [Nodes -> Nat],
              l_tp' \in [Nodes -> Tuples],
              \A k \in Nodes \ {n} : l_tp'[k] = l_tp[k],
              x => live[L] /\ live[R] /\ Len(l_tp'[n]) = Len(Schema(L))
       PROVE  IInv'
  <2>1. pc'[n] = "idle"
    BY <1>1, <1>11 DEF Return
  <2>2. live'[n] = x /\ live'[L] = live[L] /\ live'[R] = live[R]
    BY <1>1, <1>4, <1>11
  <2>3. ChildrenOK(n)'
    BY <1>9, <1>11, <2>1, <2>2
  <2> QED
    BY <1>1, <1>2, <1>3, <1>11, <2>3, ReturnKeeps
<1>12. CASE JoinOpen(n) \/ JoinOpenRight(n) \/ JoinClose(n) \/ JoinCloseRight(n)
  <2>1. l_tp' = l_tp /\ UNCHANGED <<ret, live, fetched>>
    BY <1>12 DEF JoinOpen, JoinOpenRight, JoinClose, JoinCloseRight
  <2>2. CASE JoinOpen(n)
    <3>1. Call(n, "open_left", L, "open") /\ MethodOf("open_left") = MethodOf(pc[n])
          /\ Called("open_left") = "open"
      BY <2>2 DEF JoinOpen, At, MethodOf, Called, L
    <3> QED
      BY <1>1, <1>2, <1>5, <1>10, <2>1, <3>1
  <2>3. CASE JoinOpenRight(n)
    <3>1. Call(n, "open_right", R, "open") /\ MethodOf("open_right") = MethodOf(pc[n])
          /\ Called("open_right") = "open" /\ pc[n] = "open_left" /\ ret.ok
      BY <2>3 DEF JoinOpenRight, At, MethodOf, Called, R
    <3>2. live[L]
      BY <1>8, <3>1
    <3> QED
      BY <1>1, <1>2, <1>5, <1>10, <2>1, <3>1, <3>2
  <2>4. CASE JoinClose(n)
    <3>1. Call(n, "close_left", L, "close") /\ MethodOf("close_left") = MethodOf(pc[n])
          /\ Called("close_left") = "close"
      BY <2>4 DEF JoinClose, At, MethodOf, Called, L
    <3> QED
      BY <1>1, <1>2, <1>5, <1>10, <2>1, <3>1
  <2>5. CASE JoinCloseRight(n)
    <3>1. Call(n, "close_right", R, "close") /\ MethodOf("close_right") = MethodOf(pc[n])
          /\ Called("close_right") = "close"
      BY <2>5 DEF JoinCloseRight, At, MethodOf, Called, R
    <3> QED
      BY <1>1, <1>2, <1>5, <1>10, <2>1, <3>1
  <2> QED
    BY <1>12, <2>2, <2>3, <2>4, <2>5
<1>13. CASE JoinOpenFirst(n)
  <2>1. /\ Call(n, "open_first", L, "get_next") /\ MethodOf("open_first") = MethodOf(pc[n])
        /\ Called("open_first") = "get_next" /\ pc[n] = "open_right" /\ ret.ok
        /\ l_tp' = l_tp /\ UNCHANGED <<ret, live, fetched>>
    BY <1>13 DEF JoinOpenFirst, At, MethodOf, Called, L
  <2>2. live[L] /\ live[R]
    BY <1>6, <1>8, <2>1
  <2> QED
    BY <1>1, <1>2, <1>5, <1>10, <2>1, <2>2
<1>14. CASE JoinOpened(n)
  <2>1. /\ Return(n, TRUE, <<>>) /\ live' = [live EXCEPT ![n] = TRUE]
        /\ fetched' = [fetched EXCEPT ![n] = 0] /\ l_tp' = [l_tp EXCEPT ![n] = ret.tp]
        /\ pc[n] = "open_first" /\ ret.ok /\ MethodOf(pc[n]) = "open"
    BY <1>14 DEF JoinOpened, Opened, At, MethodOf
  <2>2. live[L] /\ live[R] /\ Len(ret.tp) = Len(Schema(L))
    BY <1>6, <1>8, <2>1
  <2>3. /\ l_tp' \in [Nodes -> Tuples] /\ l_tp'[n] = ret.tp /\ fetched' \in [Nodes -> Nat]
        /\ \A k \in Nodes \ {n} : l_tp'[k] = l_tp[k]
    BY <1>1, <2>1
  <2> QED
    BY <1>1, <1>11, <2>1, <2>2, <2>3
<1>15. CASE JoinOpenFailed(n)
  <2>1. /\ Return(n, FALSE, <<>>) /\ live' = [live EXCEPT ![n] = FALSE]
        /\ fetched' = [fetched EXCEPT ![n] = 0] /\ l_tp' = l_tp
    BY <1>15 DEF JoinOpenFailed, Opened
  <2>2. fetched' \in [Nodes -> Nat]
    BY <1>1, <2>1
  <2> QED
    BY <1>1, <1>11, <2>1, <2>2
<1>16. CASE JoinNext(n)
  <2>1. /\ Call(n, "pull_right", R, "get_next") /\ MethodOf("pull_right") = MethodOf(pc[n])
        /\ Called("pull_right") = "get_next" /\ pc[n] = "get_next"
        /\ MethodOf(pc[n]) = "get_next"
        /\ l_tp' = l_tp /\ UNCHANGED <<ret, live, fetched>>
    BY <1>16 DEF JoinNext, At, MethodOf, Called, R
  <2>2. live[n] /\ Resting(n)
    BY <1>7, <2>1 DEF Resting
  <2>3. live[L] /\ live[R] /\ held
    BY <1>6, <2>2
  <2> QED
    BY <1>1, <1>2, <1>5, <1>10, <2>1, <2>3
<1>17. CASE JoinEmit(n)
  <2> DEFINE tp == l_tp[n] \o ret.tp
  <2>1. /\ Return(n, TRUE, tp) /\ live' = live
        /\ fetched' = [fetched EXCEPT ![n] = @ + 1] /\ l_tp' = l_tp
        /\ pc[n] = "pull_right" /\ ret.ok /\ MethodOf(pc[n]) = "get_next"
    BY <1>17 DEF JoinEmit, Yielded, At, MethodOf
  <2>2. live[n] /\ live[L] /\ live[R] /\ held /\ Len(ret.tp) = Len(Schema(R))
    BY <1>6, <1>7, <1>8, <2>1
  <2>3. live' = [live EXCEPT ![n] = TRUE]
    BY <1>1, <2>1, <2>2
  <2>4. l_tp[n] \in Seq(Values) /\ ret.tp \in Seq(Values)
    BY <1>1 DEF Tuples
  <2>5. tp \in Tuples /\ Len(tp) = Len(l_tp[n]) + Len(ret.tp)
    BY <2>4 DEF Tuples
  <2>6. Len(Schema(n)) = Len(Schema(L)) + Len(Schema(R))
    <3>1. Schema(n) = Schema(L) \o Schema(R)
      BY <1>1, <1>2, SchemaFacts DEF L, R
    <3>2. Schema(L) \in Seq(Columns) /\ Schema(R) \in Seq(Columns)
      BY <1>1, <1>4, PlanFacts DEF Schemas
    <3> QED
      BY <3>1, <3>2
  <2>7. fetched' \in [Nodes -> Nat]
    BY <1>1, <2>1
  <2> HIDE DEF tp
  <2>8. Len(tp) = Len(Schema(n))
    BY <2>2, <2>5, <2>6
  <2> QED
    BY <1>1, <1>11, <2>1, <2>2, <2>3, <2>5, <2>7, <2>8
<1>18. CASE JoinPullOuter(n)
  <2>1. /\ Call(n, "pull_left", L, "get_next") /\ MethodOf("pull_left") = MethodOf(pc[n])
        /\ Called("pull_left") = "get_next" /\ pc[n] \in {"pull_right", "reopen_right"}
        /\ l_tp' = l_tp /\ UNCHANGED <<ret, live, fetched>>
    BY <1>18 DEF JoinPullOuter, MethodOf, Called, L
  <2>2. live[L]
    BY <1>6, <2>1
  <2> QED
    BY <1>1, <1>2, <1>5, <1>10, <2>1, <2>2
<1>19. CASE JoinReopenInner(n)
  <2>1. /\ Call(n, "reopen_right", R, "open") /\ MethodOf("reopen_right") = MethodOf(pc[n])
        /\ Called("reopen_right") = "open" /\ pc[n] = "pull_left" /\ ret.ok
        /\ l_tp' = [l_tp EXCEPT ![n] = ret.tp] /\ UNCHANGED <<ret, live, fetched>>
    BY <1>19 DEF JoinReopenInner, At, MethodOf, Called, R
  <2>2. live[L] /\ Len(ret.tp) = Len(Schema(L))
    BY <1>8, <2>1
  <2>3. /\ l_tp' \in [Nodes -> Tuples] /\ l_tp'[n] = ret.tp
        /\ \A k \in Nodes \ {n} : l_tp'[k] = l_tp[k]
    BY <1>1, <2>1
  <2> QED
    BY <1>2, <1>5, <1>10, <2>1, <2>2, <2>3
<1>20. CASE JoinEnd(n) \/ JoinClosed(n)
  <2>1. /\ Return(n, FALSE, <<>>) /\ live' = [live EXCEPT ![n] = FALSE]
        /\ fetched' = fetched /\ l_tp' = l_tp
    BY <1>20 DEF JoinEnd, JoinClosed, Closed, Ended
  <2> QED
    BY <1>1, <1>11, <2>1
<1>21. CASE JoinPullInner(n)
  <2>1. /\ Call(n, "pull_right", R, "get_next") /\ MethodOf("pull_right") = MethodOf(pc[n])
        /\ Called("pull_right") = "get_next" /\ pc[n] = "reopen_right" /\ ret.ok
        /\ l_tp' = l_tp /\ UNCHANGED <<ret, live, fetched>>
    BY <1>21 DEF JoinPullInner, At, MethodOf, Called, R
  <2>2. live[L] /\ live[R] /\ held
    BY <1>6, <1>8, <2>1
  <2> QED
    BY <1>1, <1>2, <1>5, <1>10, <2>1, <2>2
<1> QED
  BY <1>12, <1>13, <1>14, <1>15, <1>16, <1>17, <1>18, <1>19, <1>20, <1>21 DEF JoinStep

-----------------------------------------------------------------------------
(* The theorems *)

(* All operators are closed at first, and nothing is called. *)
LEMMA InitKeeps == OperatorsInit => IInv
<1> SUFFICES ASSUME OperatorsInit PROVE IInv
  OBVIOUS
<1>1. TypeOK
  BY DEF OperatorsInit, TypeOK, Labels, Tuples
<1>2. StackOK
  BY DEF OperatorsInit, StackOK, Idle
<1> QED
  BY <1>1, <1>2 DEF OperatorsInit, IInv, LabelsOK, IdsOK, ChildrenOK, PullingOK, ReturnOK, Idle

(* Every step of the code keeps the invariant. *)
LEMMA OperatorStepKeeps == IInv /\ OperatorStep => IInv'
  BY ScanKeeps, UnaryKeeps, JoinKeeps DEF OperatorStep

(* A client's call of the root, made when nothing executes. *)
LEMMA InvokeKeeps ==
  ASSUME IInv, Idle, NEW m \in Methods, m = "get_next" => live[Root], InvokeRoot(m)
  PROVE  IInv'
<1>1. /\ plan \in Plans /\ Nodes' = Nodes /\ Root' = Root
      /\ pc \in [Nodes -> Labels] /\ stack = <<>>
  BY DEF IInv, TypeOK, Nodes, Root, InvokeRoot, Idle
<1>2. Root \in Nodes
  BY <1>1, PlanFacts
<1>3. \A n \in Nodes : pc[n] = "idle"
  BY <1>1 DEF IInv, StackOK
<1>4. /\ pc' \in [Nodes -> Labels] /\ pc'[Root] = m
      /\ \A n \in Nodes : n # Root => pc'[n] = "idle"
  BY <1>1, <1>2, <1>3 DEF InvokeRoot, Labels
<1>5. stack' = <<Root>> /\ stack' \in Seq(Nodes) /\ Len(stack') = 1 /\ stack'[1] = Root
  BY <1>2 DEF InvokeRoot
<1>6. m \in {"open", "get_next", "close"} /\ MethodOf(m) = m
  BY DEF Methods, MethodOf
<1>7. TypeOK'
  BY <1>1, <1>4, <1>5 DEF IInv, TypeOK, InvokeRoot, Nodes
<1>8. StackOK'
  BY <1>1, <1>4, <1>5, <1>6 DEF StackOK
<1>9. LabelsOK' /\ IdsOK'
  BY <1>1, <1>4 DEF IInv, LabelsOK, IdsOK, InvokeRoot, TableSize, Kind
<1>10. \A n \in Nodes : ChildrenOK(n)'
  BY <1>1, <1>3, <1>4, <1>6
  DEF IInv, ChildrenOK, Resting, InvokeRoot, Kind, Child, LeftChild, RightChild, Schema
<1>11. PullingOK'
  BY <1>1, <1>4, <1>6 DEF PullingOK, InvokeRoot
<1>12. ReturnOK'
  BY <1>4, <1>5, <1>6 DEF ReturnOK, Top, Waits
<1> QED
  BY <1>1, <1>7, <1>8, <1>9, <1>10, <1>11, <1>12 DEF IInv

(* A step of something else keeps it. *)
LEMMA StutterKeeps == IInv /\ UNCHANGED vars => IInv'
<1> SUFFICES ASSUME IInv, UNCHANGED vars PROVE IInv'
  OBVIOUS
<1>1. /\ Nodes' = Nodes /\ Root' = Root /\ Idle' = Idle /\ Top' = Top
      /\ plan' = plan /\ data' = data /\ p_next_id' = p_next_id /\ l_tp' = l_tp
      /\ pc' = pc /\ stack' = stack /\ ret' = ret /\ live' = live /\ fetched' = fetched
  BY DEF vars, Nodes, Root, Idle, Top
<1>2. TypeOK' /\ LabelsOK'
  BY <1>1 DEF IInv, TypeOK, LabelsOK, Kind
<1>3. StackOK'
  BY <1>1 DEF IInv, StackOK, Callee, Child, LeftChild, RightChild
<1>4. IdsOK' /\ PullingOK'
  BY <1>1 DEF IInv, IdsOK, PullingOK, TableSize
<1>5. \A n \in Nodes : ChildrenOK(n)'
  BY <1>1 DEF IInv, ChildrenOK, Resting, Kind, Child, LeftChild, RightChild, Schema
<1>6. ReturnOK'
  BY <1>1 DEF IInv, ReturnOK, Callee, Child, LeftChild, RightChild, Schema
<1> QED
  BY <1>1, <1>2, <1>3, <1>4, <1>5, <1>6 DEF IInv

(* The invariant is inductive. *)
THEOREM Invariance == Spec => []IInv
<1>1. IInv /\ [Next]_vars => IInv'
  BY OperatorStepKeeps, InvokeKeeps, StutterKeeps DEF Next, Invoke
<1> QED
  BY InitKeeps, <1>1, PTL DEF Spec, Init

(* The variables of the operators keep their types. *)
THEOREM TypeCorrect == Spec => []TypeOK
  BY Invariance, PTL DEF IInv

(* No operator is asked for a row unless it is open (nest_loop_join.cpp:10). *)
THEOREM NoPullFromClosed == Spec => []GuardedGetNext
<1>1. IInv => GuardedGetNext
  BY DEF IInv, PullingOK, GuardedGetNext, MethodOf
<1> QED
  BY <1>1, Invariance, PTL

(* Tuples fit the schema of the operator they come from. *)
THEOREM TuplesFitSchemas == Spec => []Aligned
<1>1. IInv => Aligned
  <2> SUFFICES ASSUME IInv, NEW n \in Nodes
               PROVE  /\ (OnTop(n) /\ pc[n] \in Waits /\ Called(pc[n]) = "get_next" /\ ret.ok) =>
                            Len(ret.tp) = Len(Schema(Callee(n, pc[n])))
                      /\ (Kind(n) = "BinaryJoin" /\ live[n] /\ pc[n] = "idle") =>
                            Len(l_tp[n]) = Len(Schema(LeftChild(n)))
    BY DEF Aligned
  <2>1. (Kind(n) = "BinaryJoin" /\ live[n] /\ pc[n] = "idle") =>
          Len(l_tp[n]) = Len(Schema(LeftChild(n)))
    BY DEF IInv, ChildrenOK, Resting
  <2> QED
    BY <2>1, ReturnFacts
<1> QED
  BY <1>1, Invariance, PTL

-----------------------------------------------------------------------------
(* The recursion of RowsOf *)

(* The rows of a node, kind by kind. *)
LEMMA RowsAtIs ==
  ASSUME NEW p, NEW db, NEW n, NEW rows
  PROVE  /\ p[n].kind = "TableScan" =>
              RowsAt(p, db, n, rows) = IF p[n].rel \in DOMAIN db THEN db[p[n].rel] ELSE <<>>
         /\ p[n].kind = "Filter" =>
              RowsAt(p, db, n, rows) =
                FilterRows(rows[p[n].child[1]], p[n].cond, p[p[n].child[1]].schema)
         /\ p[n].kind = "Projection" =>
              RowsAt(p, db, n, rows) =
                ProjectRows(rows[p[n].child[1]], p[p[n].child[1]].schema, p[n].schema)
         /\ p[n].kind = "BinaryJoin" =>
              RowsAt(p, db, n, rows) = Product(rows[p[n].child[1]], rows[p[n].child[2]])
<1> DEFINE multi == LET first[k \in 0 .. Len(p[n].child)] ==
                          IF k = 0 THEN << <<>> >>
                          ELSE Product(first[k - 1], rows[p[n].child[k]])
                    IN  first[Len(p[n].child)]
<1>1. RowsAt(p, db, n, rows) =
        CASE p[n].kind = "TableScan" -> IF p[n].rel \in DOMAIN db THEN db[p[n].rel] ELSE <<>>
          [] p[n].kind = "Filter" ->
               FilterRows(rows[p[n].child[1]], p[n].cond, p[p[n].child[1]].schema)
          [] p[n].kind = "Projection" ->
               ProjectRows(rows[p[n].child[1]], p[p[n].child[1]].schema, p[n].schema)
          [] p[n].kind = "BinaryJoin" -> Product(rows[p[n].child[1]], rows[p[n].child[2]])
          [] p[n].kind = "MultiJoin" -> multi
  BY DEF RowsAt
<1> HIDE DEF multi
<1> QED
  BY <1>1

(* A node's rows are made of those of its children, which stand before it. *)
LEMMA RowsAtIsLocal ==
  ASSUME NEW p \in Plans, NEW db, NEW n \in DOMAIN p, NEW f, NEW g,
         \A m \in 1 .. n - 1 : f[m] = g[m]
  PROVE  RowsAt(p, db, n, f) = RowsAt(p, db, n, g)
<1>1. /\ p[n].kind \in {"TableScan", "Filter", "Projection", "BinaryJoin"}
      /\ p[n].child \in Seq(Nat)
      /\ Len(p[n].child) = Arity(p[n].kind)
      /\ ChildrenOf(p, n) \subseteq 1 .. n - 1
  <2>1. p[n] \in PlanNodes
    BY PlansAssumption
  <2> QED
    BY <2>1, PlansAssumption DEF PlanNodes, WellFormed
<1>2. p[n].kind \in {"Filter", "Projection", "BinaryJoin"} => p[n].child[1] \in 1 .. n - 1
  <2>1. p[n].kind \in {"Filter", "Projection", "BinaryJoin"} => 1 \in DOMAIN p[n].child
    BY <1>1 DEF Arity
  <2> QED
    BY <1>1, <2>1 DEF ChildrenOf
<1>3. p[n].kind = "BinaryJoin" => p[n].child[2] \in 1 .. n - 1
  <2>1. p[n].kind = "BinaryJoin" => 2 \in DOMAIN p[n].child
    BY <1>1 DEF Arity
  <2> QED
    BY <1>1, <2>1 DEF ChildrenOf
<1>4. CASE p[n].kind = "TableScan"
  BY <1>4, RowsAtIs
<1>5. CASE p[n].kind = "Filter"
  <2>1. f[p[n].child[1]] = g[p[n].child[1]]
    BY <1>2, <1>5
  <2> QED
    BY <1>5, <2>1, RowsAtIs
<1>6. CASE p[n].kind = "Projection"
  <2>1. f[p[n].child[1]] = g[p[n].child[1]]
    BY <1>2, <1>6
  <2> QED
    BY <1>6, <2>1, RowsAtIs
<1>7. CASE p[n].kind = "BinaryJoin"
  <2>1. f[p[n].child[1]] = g[p[n].child[1]] /\ f[p[n].child[2]] = g[p[n].child[2]]
    BY <1>2, <1>3, <1>7
  <2> QED
    BY <1>7, <2>1, RowsAtIs
<1> QED
  BY <1>1, <1>4, <1>5, <1>6, <1>7

(* RowsOf is a solution of its recursion. *)
LEMMA RowsOfUnfolds ==
  ASSUME NEW p \in Plans, NEW db
  PROVE  \A n \in DOMAIN p : RowsOf(p, db)[n] = RowsAt(p, db, n, RowsOf(p, db))
<1> DEFINE T == {k \in 0 .. Len(p) : \E f : f = [n \in 1 .. k |-> RowsAt(p, db, n, f)]}
<1>1. DOMAIN p = 1 .. Len(p) /\ Len(p) \in Nat
  BY PlansAssumption
<1>2. 0 \in T
  <2> DEFINE f == [n \in 1 .. 0 |-> 0]
  <2>1. f = [n \in 1 .. 0 |-> RowsAt(p, db, n, f)]
    OBVIOUS
  <2> HIDE DEF f
  <2>2. \E h : h = [n \in 1 .. 0 |-> RowsAt(p, db, n, h)]
    BY <2>1
  <2>3. 0 \in 0 .. Len(p)
    BY <1>1
  <2> QED
    BY <2>2, <2>3
<1>3. ASSUME NEW k \in 0 .. Len(p) - 1, k \in T PROVE k + 1 \in T
  <2>1. PICK f : f = [n \in 1 .. k |-> RowsAt(p, db, n, f)]
    BY <1>3
  <2> DEFINE g == [n \in 1 .. k + 1 |-> IF n = k + 1 THEN RowsAt(p, db, k + 1, f) ELSE f[n]]
  <2>2. \A m \in 1 .. k : f[m] = g[m]
    OBVIOUS
  <2>3. ASSUME NEW n \in 1 .. k + 1 PROVE g[n] = RowsAt(p, db, n, g)
    <3>1. n \in DOMAIN p /\ \A m \in 1 .. n - 1 : f[m] = g[m]
      BY <1>1, <2>2
    <3>2. g[n] = RowsAt(p, db, n, f)
      <4>1. CASE n = k + 1
        BY <4>1
      <4>2. CASE n # k + 1
        <5>1. n \in 1 .. k /\ g[n] = f[n]
          BY <4>2
        <5> HIDE DEF g
        <5> QED
          BY <2>1, <5>1
      <4> QED
        BY <4>1, <4>2
    <3> HIDE DEF g
    <3> QED
      BY <3>1, <3>2, RowsAtIsLocal
  <2>4. g = [n \in 1 .. k + 1 |-> g[n]]
    OBVIOUS
  <2> HIDE DEF g
  <2>5. g = [n \in 1 .. k + 1 |-> RowsAt(p, db, n, g)]
    BY <2>3, <2>4
  <2>6. \E h : h = [n \in 1 .. k + 1 |-> RowsAt(p, db, n, h)]
    BY <2>5
  <2>7. k + 1 \in 0 .. Len(p)
    BY <1>1
  <2> QED
    BY <2>6, <2>7
<1> HIDE DEF T
<1>4. 0 .. Len(p) \subseteq T
  BY <1>1, <1>2, <1>3, IntervalInductionSet
<1>5. \E f : f = [n \in DOMAIN p |-> RowsAt(p, db, n, f)]
  BY <1>1, <1>4 DEF T
<1>6. RowsOf(p, db) = [n \in DOMAIN p |-> RowsAt(p, db, n, RowsOf(p, db))]
  BY <1>5 DEF RowsOf
<1> QED
  BY <1>6

-----------------------------------------------------------------------------
(* The rows a filter keeps *)

(* KeptOf is a solution of its recursion: it keeps rows that were there. *)
LEMMA KeptSteps ==
  ASSUME NEW S, NEW rows \in Seq(S), NEW cond, NEW sch
  PROVE  /\ KeptOf(rows, cond, sch)[0] = <<>>
         /\ \A k \in 1 .. Len(rows) :
              KeptOf(rows, cond, sch)[k] =
                IF Passes(rows[k], cond, sch)
                THEN Append(KeptOf(rows, cond, sch)[k - 1], rows[k])
                ELSE KeptOf(rows, cond, sch)[k - 1]
         /\ \A k \in 0 .. Len(rows) : KeptOf(rows, cond, sch)[k] \in Seq(S)
<1> DEFINE N == Len(rows)
           K == KeptOf(rows, cond, sch)
           next(k, sofar) == IF Passes(rows[k], cond, sch) THEN Append(sofar, rows[k]) ELSE sofar
           val(k, f) == IF k = 0 THEN <<>> ELSE next(k, f[k - 1])
           T == {j \in 0 .. N : \E f : f = [k \in 0 .. j |-> val(k, f)]}
<1>1. N \in Nat /\ \A k \in 1 .. N : rows[k] \in S
  OBVIOUS
<1>2. <<>> \in Seq(S)
  OBVIOUS
<1> HIDE DEF next, N
<1>3. 0 \in T
  <2> DEFINE f == [k \in 0 .. 0 |-> <<>>]
  <2>1. f = [k \in 0 .. 0 |-> val(k, f)]
    OBVIOUS
  <2> HIDE DEF f, val
  <2>2. 0 \in 0 .. N /\ \E h : h = [k \in 0 .. 0 |-> val(k, h)]
    BY <1>1, <2>1
  <2> QED
    BY <2>2
<1>4. ASSUME NEW j \in 0 .. N - 1, j \in T PROVE j + 1 \in T
  <2>1. PICK f : f = [k \in 0 .. j |-> val(k, f)]
    BY <1>4
  <2> DEFINE g == [k \in 0 .. j + 1 |-> IF k = j + 1 THEN val(k, f) ELSE f[k]]
  <2>2. ASSUME NEW k \in 0 .. j + 1 PROVE g[k] = val(k, g)
    <3>1. k # 0 => g[k - 1] = f[k - 1]
      OBVIOUS
    <3>2. g[k] = val(k, f)
      <4>1. CASE k = j + 1
        BY <4>1
      <4>2. CASE k # j + 1
        <5>1. k \in 0 .. j /\ g[k] = f[k]
          BY <4>2
        <5> HIDE DEF g, val
        <5> QED
          BY <2>1, <5>1
      <4> QED
        BY <4>1, <4>2
    <3> HIDE DEF g
    <3> QED
      BY <3>1, <3>2
  <2>3. g = [k \in 0 .. j + 1 |-> g[k]]
    OBVIOUS
  <2> HIDE DEF g, val
  <2>4. g = [k \in 0 .. j + 1 |-> val(k, g)]
    BY <2>2, <2>3
  <2>5. j + 1 \in 0 .. N /\ \E h : h = [k \in 0 .. j + 1 |-> val(k, h)]
    BY <1>1, <2>4
  <2> QED
    BY <2>5
<1>5. N \in T
  <2> HIDE DEF T
  <2>1. 0 .. N \subseteq T
    BY <1>1, <1>3, <1>4, IntervalInductionSet
  <2> QED
    BY <1>1, <2>1
<1>6. PICK f : f = [k \in 0 .. N |-> val(k, f)]
  BY <1>5
<1>7. \E g : g = [k \in 0 .. N |->
                    IF k = 0 THEN <<>>
                    ELSE IF Passes(rows[k], cond, sch) THEN Append(g[k - 1], rows[k])
                         ELSE g[k - 1]]
  BY <1>6 DEF next
<1>8. K = [k \in 0 .. N |->
             IF k = 0 THEN <<>>
             ELSE IF Passes(rows[k], cond, sch) THEN Append(K[k - 1], rows[k]) ELSE K[k - 1]]
  BY <1>7 DEF KeptOf, N
<1> HIDE DEF K, val
<1>9. \A k \in 0 .. N : K[k] = IF k = 0 THEN <<>> ELSE next(k, K[k - 1])
  <2>1. K = [k \in 0 .. N |-> IF k = 0 THEN <<>> ELSE next(k, K[k - 1])]
    BY <1>8 DEF next
  <2> QED
    BY <2>1
<1>10. K[0] = <<>> /\ \A k \in 1 .. N : K[k] = next(k, K[k - 1])
  BY <1>1, <1>9
<1>11. ASSUME NEW k \in 1 .. N, K[k - 1] \in Seq(S) PROVE K[k] \in Seq(S)
  <2>1. K[k] = next(k, K[k - 1]) /\ rows[k] \in S
    BY <1>1, <1>10
  <2> QED
    BY <1>11, <2>1 DEF next
<1>12. \A k \in 0 .. N : K[k] \in Seq(S)
  <2> DEFINE SS == Seq(S)
  <2>1. K[0] \in SS /\ \A k \in 1 .. N : K[k - 1] \in SS => K[k] \in SS
    BY <1>2, <1>10, <1>11
  <2> HIDE DEF SS
  <2>2. \A k \in 0 .. N : K[k] \in SS
    BY <1>1, <2>1, RecursionTyped
  <2> QED
    BY <2>2 DEF SS
<1> QED
  BY <1>10, <1>12 DEF K, N, next

(* The rows kept of the first k are the first of those kept of more. *)
LEMMA KeptGrows ==
  ASSUME NEW S, NEW rows \in Seq(S), NEW cond, NEW sch, NEW k \in 0 .. Len(rows)
  PROVE  /\ Len(KeptOf(rows, cond, sch)[k]) <= Len(FilterRows(rows, cond, sch))
         /\ \A i \in 1 .. Len(KeptOf(rows, cond, sch)[k]) :
              FilterRows(rows, cond, sch)[i] = KeptOf(rows, cond, sch)[k][i]
<1> DEFINE N == Len(rows)
           K == KeptOf(rows, cond, sch)
           T == {d \in 0 .. N - k : /\ Len(K[k]) <= Len(K[k + d])
                                    /\ \A i \in 1 .. Len(K[k]) : K[k + d][i] = K[k][i]}
<1>1. /\ N \in Nat /\ N - k \in Nat
      /\ \A j \in 0 .. N : K[j] \in Seq(S)
      /\ \A j \in 1 .. N : K[j] \in {Append(K[j - 1], rows[j]), K[j - 1]}
  <2>1. \A j \in 0 .. N : K[j] \in Seq(S)
    BY KeptSteps
  <2>2. \A j \in 1 .. N : K[j] = IF Passes(rows[j], cond, sch)
                                 THEN Append(K[j - 1], rows[j]) ELSE K[j - 1]
    BY KeptSteps
  <2> HIDE DEF K
  <2>3. \A j \in 1 .. N : K[j] \in {Append(K[j - 1], rows[j]), K[j - 1]}
    BY <2>2
  <2>4. N \in Nat /\ N - k \in Nat
    OBVIOUS
  <2> QED
    BY <2>1, <2>3, <2>4
<1> HIDE DEF K
<1>2. 0 \in T
  BY <1>1
<1>3. ASSUME NEW d \in 0 .. (N - k) - 1, d \in T PROVE d + 1 \in T
  <2>1. /\ k + d \in 0 .. N /\ k + (d + 1) \in 1 .. N /\ (k + (d + 1)) - 1 = k + d
        /\ d + 1 \in 0 .. N - k
    BY <1>1
  <2>2. /\ Len(K[k]) <= Len(K[k + d])
        /\ \A i \in 1 .. Len(K[k]) : K[k + d][i] = K[k][i]
    BY <1>3
  <2>3. K[k] \in Seq(S) /\ K[k + d] \in Seq(S) /\ rows[k + (d + 1)] \in S
    BY <1>1, <2>1
  <2>4. K[k + (d + 1)] \in {Append(K[k + d], rows[k + (d + 1)]), K[k + d]}
    BY <1>1, <2>1
  <2>5. /\ Len(K[k]) <= Len(K[k + (d + 1)])
        /\ \A i \in 1 .. Len(K[k]) : K[k + (d + 1)][i] = K[k][i]
    <3>1. CASE K[k + (d + 1)] = K[k + d]
      BY <2>2, <3>1
    <3>2. CASE K[k + (d + 1)] = Append(K[k + d], rows[k + (d + 1)])
      <4> DEFINE A == K[k]
                 B == K[k + d]
                 r == rows[k + (d + 1)]
      <4>1. A \in Seq(S) /\ B \in Seq(S) /\ r \in S /\ Len(A) <= Len(B)
        BY <2>2, <2>3
      <4> HIDE DEF A, B, r
      <4>2. Len(A) <= Len(Append(B, r)) /\ \A i \in 1 .. Len(A) : Append(B, r)[i] = B[i]
        BY <4>1
      <4> QED
        BY <2>2, <3>2, <4>2 DEF A, B, r
    <3> QED
      BY <2>4, <3>1, <3>2
  <2> QED
    BY <2>1, <2>5
<1> HIDE DEF T
<1>4. 0 .. N - k \subseteq T
  BY <1>1, <1>2, <1>3, IntervalInductionSet
<1>5. N - k \in T /\ k + (N - k) = N
  <2>1. N - k \in 0 .. N - k /\ k \in Nat
    BY <1>1
  <2> HIDE DEF N
  <2> QED
    BY <1>1, <1>4, <2>1
<1> QED
  BY <1>5 DEF T, K, FilterRows

-----------------------------------------------------------------------------
(* All pairs *)

(* Quotient and remainder ... *)
LEMMA DivMod ==
  ASSUME NEW x \in Nat, NEW m \in Nat, m > 0
  PROVE  x \div m \in Nat /\ x % m \in 0 .. m - 1 /\ x % m = x - m * (x \div m)
  OBVIOUS

(* ... are unique. *)
LEMMA DivModUnique ==
  ASSUME NEW q \in Nat, NEW m \in Nat, m > 0, NEW r \in 0 .. m - 1
  PROVE  (q * m + r) \div m = q /\ (q * m + r) % m = r
<1> DEFINE x == q * m + r
           d == x \div m
           e == x % m
<1>1. x \in Nat
  OBVIOUS
<1> HIDE DEF x
<1>2. d \in Nat /\ e \in 0 .. m - 1 /\ e = x - m * d
  BY <1>1, DivMod
<1> HIDE DEF d, e
<1>3. m * d + e = q * m + r
  BY <1>2 DEF x
<1>4. ASSUME NEW c \in Nat, c > 0 PROVE m * c >= m
  BY <1>4
<1>5. ~ d > q
  <2> SUFFICES ASSUME d > q PROVE FALSE
    OBVIOUS
  <2>1. d - q \in Nat /\ d - q > 0
    BY <1>2
  <2>2. m * (d - q) >= m
    BY <1>4, <2>1
  <2>3. m * (d - q) = m * d - q * m
    BY <1>2
  <2> QED
    BY <1>2, <1>3, <2>2, <2>3
<1>6. ~ q > d
  <2> SUFFICES ASSUME q > d PROVE FALSE
    OBVIOUS
  <2>1. q - d \in Nat /\ q - d > 0
    BY <1>2
  <2>2. m * (q - d) >= m
    BY <1>4, <2>1
  <2>3. m * (q - d) = q * m - m * d
    BY <1>2
  <2> QED
    BY <1>2, <1>3, <2>2, <2>3
<1>7. d = q
  BY <1>2, <1>5, <1>6
<1>8. e = r
  BY <1>2, <1>3, <1>7
<1> QED
  BY <1>7, <1>8 DEF d, e, x

(* Row b of the right side after row a of the left one, in order. *)
LEMMA ProductFacts ==
  ASSUME NEW L \in Seq(Tuples), NEW R \in Seq(Tuples)
  PROVE  /\ Len(L) * Len(R) \in Nat
         /\ Product(L, R) \in Seq(Tuples)
         /\ Len(Product(L, R)) = Len(L) * Len(R)
         /\ \A k \in 1 .. Len(L) * Len(R) : \E a \in 1 .. Len(L), b \in 1 .. Len(R) :
              Product(L, R)[k] = L[a] \o R[b]
         /\ \A a \in 1 .. Len(L), b \in 1 .. Len(R) :
              /\ (a - 1) * Len(R) + b \in 1 .. Len(L) * Len(R)
              /\ Product(L, R)[(a - 1) * Len(R) + b] = L[a] \o R[b]
<1> DEFINE nl == Len(L)
           nr == Len(R)
           size == nl * nr
           A(k) == ((k - 1) \div nr) + 1
           B(k) == ((k - 1) % nr) + 1
           P == Product(L, R)
<1>1. nl \in Nat /\ nr \in Nat /\ size \in Nat
  OBVIOUS
<1>2. /\ \A a \in 1 .. nl : L[a] \in Tuples
      /\ \A b \in 1 .. nr : R[b] \in Tuples
  OBVIOUS
<1>3. \A s, t \in Tuples : s \o t \in Tuples
  BY DEF Tuples
<1>4. P = [k \in 1 .. size |-> L[A(k)] \o R[B(k)]]
  BY DEF Product
<1> HIDE DEF nl, nr, P
<1>5. ASSUME NEW k \in 1 .. size PROVE A(k) \in 1 .. nl /\ B(k) \in 1 .. nr
  <2> DEFINE x == k - 1
             d == x \div nr
             e == x % nr
  <2>1. nr > 0
    <3>1. nr = 0 => size = 0
      BY <1>1
    <3> QED
      BY <1>1, <3>1
  <2>2. x \in Nat /\ x < size
    BY <1>1
  <2>3. d \in Nat /\ e \in 0 .. nr - 1 /\ e = x - nr * d
    <3> HIDE DEF x
    <3> QED
      BY <1>1, <2>1, <2>2, DivMod
  <2> HIDE DEF x, d, e
  <2>4. d < nl
    <3> SUFFICES ASSUME d >= nl PROVE FALSE
      BY <1>1, <2>3
    <3>1. nr * d >= nr * nl
      BY <1>1, <2>3
    <3> QED
      BY <1>1, <2>2, <2>3, <3>1
  <2>5. d + 1 \in 1 .. nl /\ e + 1 \in 1 .. nr
    BY <1>1, <2>3, <2>4
  <2> QED
    BY <2>5 DEF d, e, x
<1>6. ASSUME NEW a \in 1 .. nl, NEW b \in 1 .. nr
      PROVE  /\ (a - 1) * nr + b \in 1 .. size
             /\ A((a - 1) * nr + b) = a /\ B((a - 1) * nr + b) = b
  <2> DEFINE q == a - 1
             r == b - 1
             k == q * nr + b
  <2>1. q \in Nat /\ r \in 0 .. nr - 1 /\ nr > 0 /\ q + 1 <= nl /\ b = r + 1 /\ a = q + 1
    BY <1>1
  <2> HIDE DEF q, r
  <2>2. (q * nr + r) \div nr = q /\ (q * nr + r) % nr = r
    BY <1>1, <2>1, DivModUnique
  <2>3. q * nr \in Nat
    BY <1>1, <2>1
  <2>4. k - 1 = q * nr + r /\ k >= 1
    BY <1>1, <2>1, <2>3
  <2>5. k <= size
    <3>1. (q + 1) * nr <= nl * nr
      BY <1>1, <2>1
    <3>2. (q + 1) * nr = q * nr + nr
      BY <1>1, <2>1
    <3> QED
      BY <1>1, <2>1, <2>3, <3>1, <3>2
  <2>6. k \in 1 .. size
    BY <1>1, <2>1, <2>3, <2>4, <2>5
  <2> QED
    BY <2>1, <2>2, <2>4, <2>6 DEF q
<1> HIDE DEF A, B, size
<1>7. \A k \in 1 .. size : P[k] = L[A(k)] \o R[B(k)]
  BY <1>4
<1>8. \A k \in 1 .. size : P[k] \in Tuples
  BY <1>2, <1>3, <1>5, <1>7
<1>9. P = [k \in 1 .. size |-> P[k]]
  BY <1>4
<1>10. P \in Seq(Tuples) /\ Len(P) = size
  BY <1>1, <1>8, <1>9
<1>11. \A k \in 1 .. size : \E a \in 1 .. nl, b \in 1 .. nr : P[k] = L[a] \o R[b]
  BY <1>5, <1>7
<1>12. \A a \in 1 .. nl, b \in 1 .. nr :
         (a - 1) * nr + b \in 1 .. size /\ P[(a - 1) * nr + b] = L[a] \o R[b]
  BY <1>6, <1>7
<1> QED
  BY <1>1, <1>10, <1>11, <1>12 DEF nl, nr, size, P

-----------------------------------------------------------------------------
(* The rows of a plan's nodes *)

(* Out, kind by kind. *)
LEMMA OutIs ==
  ASSUME plan \in Plans, data \in Databases, NEW n \in Nodes
  PROVE  /\ Kind(n) = "TableScan" =>
              Out(n) = IF plan[n].rel \in DOMAIN data THEN data[plan[n].rel] ELSE <<>>
         /\ Kind(n) = "Filter" =>
              Out(n) = FilterRows(Out(Child(n)), plan[n].cond, Schema(Child(n)))
         /\ Kind(n) = "Projection" =>
              Out(n) = ProjectRows(Out(Child(n)), Schema(Child(n)), Schema(n))
         /\ Kind(n) = "BinaryJoin" =>
              Out(n) = Product(Out(LeftChild(n)), Out(RightChild(n)))
<1> DEFINE rows == RowsOf(plan, data)
<1>1. Denotation[plan][data] = rows
  BY DEF Denotation
<1>2. rows[n] = RowsAt(plan, data, n, rows)
  BY RowsOfUnfolds DEF Nodes
<1> HIDE DEF rows
<1>3. \A m : Out(m) = rows[m]
  BY <1>1 DEF Out
<1> QED
  BY <1>2, <1>3, RowsAtIs DEF Kind, Child, LeftChild, RightChild, Schema

(* Every row of a node has the columns of its schema. *)
LEMMA OutTyped ==
  ASSUME plan \in Plans, data \in Databases
  PROVE  \A n \in Nodes :
           /\ Out(n) \in Seq(Tuples)
           /\ \A i \in 1 .. Len(Out(n)) : Len(Out(n)[i]) = Len(Schema(n))
<1> DEFINE Rows(m) == {tp \in Tuples : Len(tp) = Len(Schema(m))}
           T == {n \in Nat : n \in Nodes => Out(n) \in Seq(Rows(n))}
<1>1. ASSUME NEW n \in Nodes,
             \A m \in Nodes : m < n => Out(m) \in Seq(Rows(m))
      PROVE  Out(n) \in Seq(Rows(n))
  <2>1. CASE Kind(n) = "TableScan"
    <3> DEFINE rel == plan[n].rel
    <3>1. CASE rel \in DOMAIN data
      <4>1. Out(n) = data[rel]
        BY <2>1, <3>1, OutIs
      <4>2. data[rel] \in Seq(Tuples)
        BY <3>1, DatabasesAssumption
      <4>3. \A i \in DOMAIN data[rel] : Len(data[rel][i]) = Len(Schema(n))
        BY <2>1, <3>1, DatabasesAssumption DEF RowsFit, Nodes, Kind, Schema
      <4> HIDE DEF rel
      <4>4. \A i \in 1 .. Len(data[rel]) : data[rel][i] \in Rows(n)
        BY <4>2, <4>3
      <4> HIDE DEF Rows
      <4> QED
        BY <4>1, <4>2, <4>4
    <3>2. CASE rel \notin DOMAIN data
      <4>1. Out(n) = <<>>
        BY <2>1, <3>2, OutIs
      <4> HIDE DEF Rows
      <4> QED
        BY <4>1
    <3> QED
      BY <3>1, <3>2
  <2>2. CASE Kind(n) = "Filter"
    <3> DEFINE c == Child(n)
               S == Rows(n)
               rows == Out(c)
    <3>1. c \in Nodes /\ c < n /\ Schema(n) = Schema(c)
      BY <2>2, PlanFacts, SchemaFacts
    <3>2. rows \in Seq(S)
      <4>1. Rows(c) = Rows(n)
        BY <3>1
      <4> HIDE DEF Rows, c
      <4> QED
        BY <1>1, <3>1, <4>1
    <3>3. Out(n) = KeptOf(rows, plan[n].cond, Schema(c))[Len(rows)]
      BY <2>2, OutIs DEF FilterRows
    <3> HIDE DEF S, rows, c
    <3>4. Len(rows) \in 0 .. Len(rows)
      BY <3>2
    <3>5. Out(n) \in Seq(S)
      BY <3>2, <3>3, <3>4, KeptSteps
    <3> QED
      BY <3>5 DEF S
  <2>3. CASE Kind(n) = "Projection"
    <3> DEFINE c == Child(n)
               rows == Out(c)
    <3>1. c \in Nodes /\ c < n
      BY <2>3, PlanFacts
    <3>2. rows \in Seq(Rows(c))
      BY <1>1, <3>1
    <3>3. Out(n) = [i \in DOMAIN rows |-> ProjectRow(rows[i], Schema(c), Schema(n))]
      BY <2>3, OutIs DEF ProjectRows
    <3> HIDE DEF rows
    <3>4. ASSUME NEW i \in 1 .. Len(rows)
          PROVE  ProjectRow(rows[i], Schema(c), Schema(n)) \in Rows(n)
      <4>1. rows[i] \in Rows(c)
        <5> HIDE DEF Rows
        <5> QED
          BY <3>2
      <4> QED
        BY <2>3, <4>1, ProjectRowFits
    <3>5. Out(n) = [i \in 1 .. Len(rows) |-> ProjectRow(rows[i], Schema(c), Schema(n))]
      BY <3>2, <3>3
    <3> HIDE DEF Rows, c
    <3>6. Len(rows) \in Nat
      BY <3>2
    <3> QED
      BY <3>4, <3>5, <3>6
  <2>4. CASE Kind(n) = "BinaryJoin"
    <3> DEFINE l == LeftChild(n)
               r == RightChild(n)
               A == Out(l)
               B == Out(r)
    <3>1. l \in Nodes /\ l < n /\ r \in Nodes /\ r < n
      BY <2>4, PlanFacts
    <3>2. A \in Seq(Rows(l)) /\ B \in Seq(Rows(r))
      BY <1>1, <3>1
    <3>3. Out(n) = Product(A, B)
      BY <2>4, OutIs
    <3>4. Len(Schema(n)) = Len(Schema(l)) + Len(Schema(r))
      <4>1. Schema(n) = Schema(l) \o Schema(r)
        BY <2>4, SchemaFacts
      <4>2. Schema(l) \in Seq(Columns) /\ Schema(r) \in Seq(Columns)
        BY <3>1, PlanFacts DEF Schemas
      <4> QED
        BY <4>1, <4>2
    <3> HIDE DEF l, r, A, B
    <3>5. A \in Seq(Tuples) /\ B \in Seq(Tuples)
      BY <3>2
    <3>6. /\ \A i \in 1 .. Len(A) : A[i] \in Rows(l)
          /\ \A i \in 1 .. Len(B) : B[i] \in Rows(r)
      <4> HIDE DEF Rows
      <4> QED
        BY <3>2
    <3> DEFINE P == Product(A, B)
    <3>7. P \in Seq(Tuples) /\ \A k \in 1 .. Len(P) : \E a \in 1 .. Len(A), b \in 1 .. Len(B) :
                                                 P[k] = A[a] \o B[b]
      <4> DEFINE size == Len(A) * Len(B)
      <4>1. P \in Seq(Tuples) /\ Len(P) = size
        BY <3>5, ProductFacts
      <4>2. \A k \in 1 .. size : \E a \in 1 .. Len(A), b \in 1 .. Len(B) : P[k] = A[a] \o B[b]
        BY <3>5, ProductFacts
      <4> HIDE DEF size, P
      <4> QED
        BY <4>1, <4>2
    <3> HIDE DEF P
    <3>8. ASSUME NEW k \in 1 .. Len(P) PROVE P[k] \in Rows(n)
      <4>1. PICK a \in 1 .. Len(A), b \in 1 .. Len(B) : P[k] = A[a] \o B[b]
        BY <3>7
      <4>2. A[a] \in Rows(l) /\ B[b] \in Rows(r)
        BY <3>6
      <4> DEFINE s == A[a]
                 t == B[b]
      <4>3. s \in Seq(Values) /\ t \in Seq(Values) /\ Len(s) = Len(Schema(l)) /\ Len(t) = Len(Schema(r))
        BY <4>2 DEF Tuples
      <4> HIDE DEF s, t
      <4>4. s \o t \in Seq(Values) /\ Len(s \o t) = Len(s) + Len(t)
        BY <4>3, ConcatProperties
      <4>5. Len(s \o t) = Len(Schema(n))
        BY <3>4, <4>3, <4>4
      <4>6. s \o t \in Rows(n)
        BY <4>4, <4>5 DEF Tuples
      <4> QED
        BY <4>1, <4>6 DEF s, t
    <3> HIDE DEF Rows
    <3>9. P \in Seq(Rows(n))
      BY <3>7, <3>8
    <3> QED
      BY <3>3, <3>9 DEF P
  <2> QED
    BY <2>1, <2>2, <2>3, <2>4, PlanFacts
<1>2. Nat \subseteq T
  <2>1. ASSUME NEW n \in Nat, \A m \in 0 .. n - 1 : m \in T PROVE n \in T
    <3> SUFFICES ASSUME n \in Nodes PROVE Out(n) \in Seq(Rows(n))
      OBVIOUS
    <3>1. \A m \in Nodes : m < n => m \in 0 .. n - 1
      BY PlanFacts
    <3> HIDE DEF Rows
    <3>2. \A m \in Nodes : m < n => Out(m) \in Seq(Rows(m))
      BY <2>1, <3>1
    <3> QED
      BY <1>1, <3>2
  <2> HIDE DEF T
  <2> QED
    BY <2>1, StrongInductionSet
<1>3. ASSUME NEW n \in Nodes
      PROVE  /\ Out(n) \in Seq(Tuples)
             /\ \A i \in 1 .. Len(Out(n)) : Len(Out(n)[i]) = Len(Schema(n))
  <2>1. n \in Nat
    BY PlanFacts
  <2>2. Out(n) \in Seq(Rows(n))
    BY <1>2, <2>1
  <2>3. \A i \in 1 .. Len(Out(n)) : Out(n)[i] \in Rows(n)
    <3> HIDE DEF Rows
    <3> QED
      BY <2>2
  <2> QED
    BY <2>2, <2>3
<1> QED
  BY <1>3

-----------------------------------------------------------------------------
(* Positions *)

(* Plan, contents and what is derived from them stay. *)
LEMMA FixedParts ==
  ASSUME UNCHANGED <<plan, data>>, NEW k
  PROVE  /\ Kind(k)' = Kind(k) /\ Child(k)' = Child(k) /\ Schema(k)' = Schema(k)
         /\ LeftChild(k)' = LeftChild(k) /\ RightChild(k)' = RightChild(k)
         /\ Out(k)' = Out(k)
BY DEF Kind, Child, LeftChild, RightChild, Schema, Out

(* A node keeps its position as long as only the child it waits for moves,  *)
(* and that one no further than by the row it returns.                      *)
LEMMA PositionFrame ==
  ASSUME IInv, NEW k \in Nodes, PositionOK(k), UNCHANGED <<plan, data>>,
         fetched' \in [Nodes -> Nat],
         live'[k] => live[k], fetched'[k] = fetched[k],
         p_next_id'[k] = p_next_id[k], l_tp'[k] = l_tp[k],
         Resting(k)' => Resting(k) /\ \A c \in ChildrenOf(plan, k) : fetched'[c] = fetched[c],
         pc'[k] \in WaitsOf(Kind(k)) =>
           /\ pc'[k] = pc[k]
           /\ \A c \in ChildrenOf(plan, k) :
                IF c # Callee(k, pc[k]) THEN fetched'[c] = fetched[c]
                ELSE Called(pc[k]) = "get_next" =>
                       fetched'[c] - Pending(k)' = fetched[c] - Pending(k)
  PROVE  PositionOK(k)'
<1>1. /\ plan \in Plans /\ data \in Databases /\ Nodes' = Nodes
      /\ fetched \in [Nodes -> Nat]
  BY DEF IInv, TypeOK, Nodes
<1>2. Pending(k) \in {0, 1} /\ Pending(k)' \in {0, 1}
  BY DEF Pending
<1> DEFINE P == Pending(k)
           Q == Pending(k)'
<1>3. P \in {0, 1} /\ Q \in {0, 1}
  BY <1>2
<1> HIDE DEF P, Q
<1>4. /\ live'[k] => fetched'[k] <= Len(Out(k)')
      /\ ScanPosition(k)'
  BY FixedParts DEF PositionOK, ScanPosition
<1>5. UnaryPosition(k)'
  <2> SUFFICES ASSUME Kind(k) \in {"Filter", "Projection"}
               PROVE  /\ (live'[k] /\ Resting(k)') =>
                           fetched'[k] = Made(k, fetched[Child(k)])'
                      /\ pc'[k] = "pulling" => fetched'[k] = Made(k, fetched[Child(k)] - Pending(k))'
    BY FixedParts DEF UnaryPosition
  <2> DEFINE c == Child(k)
             g == fetched[c]
             h == fetched'[c]
  <2>1. c \in ChildrenOf(plan, k) /\ c \in Nodes
    BY <1>1, PlanFacts
  <2>2. /\ Made(k, fetched[Child(k)])' = Made(k, h)
        /\ Made(k, fetched[Child(k)] - Pending(k))' = Made(k, h - Q)
    BY FixedParts DEF Made, Q
  <2>3. UnaryPosition(k)
    BY DEF PositionOK
  <2>4. (live'[k] /\ Resting(k)') => fetched'[k] = Made(k, h)
    BY <2>1, <2>3 DEF UnaryPosition
  <2>5. ASSUME pc'[k] = "pulling" PROVE fetched'[k] = Made(k, h - Q)
    <3>1. pc'[k] \in WaitsOf(Kind(k)) /\ Called("pulling") = "get_next" /\ Callee(k, "pulling") = c
      BY <2>5 DEF WaitsOf, Called, Callee
    <3>2. pc[k] = "pulling" /\ h - Q = g - P
      BY <2>1, <2>5, <3>1 DEF P, Q
    <3>3. fetched[k] = Made(k, g - P)
      BY <2>3, <3>2 DEF UnaryPosition, P
    <3> QED
      BY <3>2, <3>3
  <2> QED
    BY <2>2, <2>4, <2>5
<1>6. JoinPosition(k)'
  <2> SUFFICES ASSUME Kind(k) = "BinaryJoin" PROVE JoinPosition(k)'
    BY FixedParts DEF JoinPosition
  <2> DEFINE L == LeftChild(k)
             R == RightChild(k)
             nr == Len(Out(R))
             w == pc'[k]
             a == fetched[L]
             b == fetched[R]
             x == fetched'[L]
             y == fetched'[R]
             holds == a \in 1 .. Len(Out(L)) /\ l_tp[k] = Out(L)[a]
  <2>1. /\ L \in ChildrenOf(plan, k) /\ L \in Nodes /\ R \in ChildrenOf(plan, k) /\ R \in Nodes
        /\ L # R
    BY <1>1, PlanFacts
  <2>2. a \in Nat /\ b \in Nat /\ x \in Nat /\ y \in Nat /\ nr \in Nat
    BY <1>1, <2>1, OutTyped
  <2>3. /\ (live[k] /\ Resting(k)) => holds /\ fetched[k] = (a - 1) * nr + b
        /\ pc[k] = "pull_right" => holds /\ fetched[k] = (a - 1) * nr + b - P
        /\ pc[k] = "pull_left" => fetched[k] = (a - P) * nr
        /\ pc[k] = "reopen_right" => holds /\ fetched[k] = (a - 1) * nr
        /\ pc[k] = "open_right" => a = 0
        /\ pc[k] = "open_first" => a = P /\ b = 0
    BY DEF PositionOK, JoinPosition, P
  <2>4. Resting(k)' => Resting(k) /\ x = a /\ y = b
    BY <2>1
  <2>5. w \in WaitsOf(Kind(k)) =>
          /\ w = pc[k]
          /\ w \in {"pull_right", "open_right", "reopen_right"} => x = a
          /\ w = "open_first" => y = b
          /\ w = "pull_right" => y - Q = b - P
          /\ w \in {"pull_left", "open_first"} => x - Q = a - P
    <3>1. ASSUME w \in WaitsOf(Kind(k)) PROVE w = pc[k]
      BY <3>1
    <3>2. ASSUME w \in WaitsOf(Kind(k)), w \in {"pull_right", "open_right", "reopen_right"}
          PROVE  x = a /\ (w = "pull_right" => y - Q = b - P)
      <4>1. Callee(k, w) = R /\ Called("pull_right") = "get_next"
        BY <3>2 DEF Callee, Called
      <4> QED
        BY <2>1, <3>1, <3>2, <4>1 DEF P, Q
    <3>3. ASSUME w \in WaitsOf(Kind(k)), w \in {"pull_left", "open_first"}
          PROVE  y = b /\ x - Q = a - P
      <4>1. Callee(k, w) = L /\ Called(w) = "get_next"
        BY <3>3 DEF Callee, Called, Child, LeftChild
      <4> QED
        BY <2>1, <3>1, <3>3, <4>1 DEF P, Q
    <3> QED
      BY <3>1, <3>2, <3>3
  <2>6. w \in {"pull_right", "pull_left", "reopen_right", "open_right", "open_first"}
          => w \in WaitsOf(Kind(k))
    BY DEF WaitsOf, Waits
  <2> DEFINE holds2 == x \in 1 .. Len(Out(L)) /\ l_tp'[k] = Out(L)[x]
  <2>7. JoinPosition(k)' <=>
          /\ (live'[k] /\ Resting(k)') => holds2 /\ fetched'[k] = (x - 1) * nr + y
          /\ w = "pull_right" => holds2 /\ fetched'[k] = (x - 1) * nr + y - Q
          /\ w = "pull_left" => fetched'[k] = (x - Q) * nr
          /\ w = "reopen_right" => holds2 /\ fetched'[k] = (x - 1) * nr
          /\ w = "open_right" => x = 0
          /\ w = "open_first" => x = Q /\ y = 0
    BY FixedParts DEF JoinPosition, Q
  <2>8. x = a => (holds2 <=> holds)
    OBVIOUS
  <2> HIDE DEF L, R, nr, w, a, b, x, y, holds, holds2
  <2>9. (live'[k] /\ Resting(k)') => holds2 /\ fetched'[k] = (x - 1) * nr + y
    BY <2>3, <2>4, <2>8
  <2>10. w = "pull_right" => holds2 /\ fetched'[k] = (x - 1) * nr + y - Q
    <3> DEFINE o == (a - 1) * nr
    <3>1. o \in Int
      BY <2>2
    <3> SUFFICES ASSUME w = "pull_right" PROVE holds2 /\ fetched'[k] = o + y - Q
      BY <2>5, <2>6
    <3>2. x = a /\ y - Q = b - P /\ holds /\ fetched[k] = o + b - P
      BY <2>3, <2>5, <2>6
    <3> HIDE DEF o
    <3> QED
      BY <1>3, <2>2, <2>8, <3>1, <3>2
  <2>11. w = "pull_left" => fetched'[k] = (x - Q) * nr
    BY <2>3, <2>5, <2>6
  <2>12. w = "reopen_right" => holds2 /\ fetched'[k] = (x - 1) * nr
    BY <2>3, <2>5, <2>6, <2>8
  <2>13. /\ w = "open_right" => x = 0
         /\ w = "open_first" => x = Q /\ y = 0
    BY <1>3, <2>2, <2>3, <2>5, <2>6
  <2> QED
    BY <2>7, <2>9, <2>10, <2>11, <2>12, <2>13
<1> QED
  BY <1>4, <1>5, <1>6 DEF PositionOK

(* What is shown of every step. *)
CursorMoves ==
  /\ \A k \in Nodes : PositionOK(k)'
  /\ AnswerOK'
  /\ \A k \in Nodes : CursorStep(k, Out(k))

(* A call moves nobody. *)
LEMMA CallPositions ==
  ASSUME CursorInv, NEW n \in Nodes, OnTop(n),
         NEW w \in WaitsOf(Kind(n)), NEW c, c = Callee(n, w), NEW m, m = Called(w),
         Call(n, w, c, m),
         UNCHANGED <<plan, data, p_next_id, ret, live, fetched>>,
         \A k \in Nodes \ {n} : l_tp'[k] = l_tp[k],
         PositionOK(n)'
  PROVE  CursorMoves
<1>1. /\ IInv /\ plan \in Plans /\ pc \in [Nodes -> Labels] /\ Nodes' = Nodes
      /\ fetched' \in [Nodes -> Nat]
  BY DEF CursorInv, IInv, TypeOK, Nodes
<1>2. /\ c \in Nodes /\ c < n
      /\ w \in Waits /\ w \notin Methods /\ w # "idle" /\ m \in Methods
  BY <1>1, CalleeFacts
<1>3. /\ Len(stack) \in Nat /\ Len(stack) > 0 /\ stack \in Seq(Nodes)
      /\ stack[Len(stack)] = n
      /\ \A i \in 1 .. Len(stack) - 1 : stack[i] \in Nodes /\ n < stack[i]
  BY <1>1, TopFacts
<1>4. stack' # <<>> /\ Top' = c /\ Top = n
  BY <1>2, <1>3 DEF Call, Top
<1>5. pc[c] = "idle"
  <2>1. Nodes \subseteq Nat
    BY <1>1, PlanFacts
  <2>2. ASSUME NEW i \in 1 .. Len(stack) PROVE c < stack[i]
    <3>1. CASE i = Len(stack)
      BY <1>2, <1>3, <3>1
    <3>2. CASE i # Len(stack)
      <4>1. i \in 1 .. Len(stack) - 1
        BY <1>3, <3>2
      <4>2. stack[i] \in Nat /\ n < stack[i] /\ c \in Nat /\ n \in Nat /\ c < n
        BY <1>2, <1>3, <2>1, <4>1
      <4> QED
        BY <4>2
    <3> QED
      BY <3>1, <3>2
  <2>3. ASSUME NEW i \in 1 .. Len(stack) PROVE stack[i] # c
    <3>1. c \in Nat /\ c < stack[i]
      BY <1>2, <2>1, <2>2
    <3> QED
      BY <3>1
  <2> QED
    BY <1>1, <1>2, <2>3 DEF IInv, StackOK
<1>6. /\ pc'[n] = w /\ pc'[c] = m
      /\ \A k \in Nodes : k # n /\ k # c => pc'[k] = pc[k]
  BY <1>1, <1>2, PlanFacts DEF Call
<1>7. AnswerOK'
  <2>1. pc'[Top'] \notin Waits
    BY <1>2, <1>4, <1>6 DEF Waits, Methods
  <2> QED
    BY <2>1 DEF AnswerOK
<1>8. ASSUME NEW k \in Nodes, k # n PROVE PositionOK(k)'
  <2>1. PositionOK(k)
    BY DEF CursorInv
  <2>2. /\ fetched'[k] = fetched[k] /\ p_next_id'[k] = p_next_id[k] /\ l_tp'[k] = l_tp[k]
        /\ live'[k] => live[k]
    BY <1>8
  <2>3. Resting(k)' => Resting(k)
    BY <1>5, <1>6, <1>8 DEF Resting
  <2>4. ASSUME pc'[k] \in WaitsOf(Kind(k))
        PROVE  pc'[k] = pc[k] /\ Pending(k)' = 0 /\ Pending(k) = 0
    <3>1. pc'[k] \notin Methods
      BY <1>1, <2>4, CalleeFacts
    <3>2. k # c
      BY <1>2, <1>6, <3>1
    <3> QED
      BY <1>4, <1>6, <1>8, <3>2 DEF Pending, OnTop
  <2>5. \A d \in ChildrenOf(plan, k) : fetched'[d] = fetched[d]
    OBVIOUS
  <2> QED
    BY <1>1, <2>1, <2>2, <2>3, <2>4, <2>5, PositionFrame
<1>9. ASSUME NEW k \in Nodes PROVE CursorStep(k, Out(k))
  <2>1. fetched'[k] = fetched[k] /\ fetched[k] \in Nat
    BY <1>1
  <2>2. OnTop(k) => pc'[k] # "idle"
    BY <1>2, <1>4, <1>6 DEF OnTop
  <2> QED
    BY <2>1, <2>2 DEF CursorStep
<1> QED
  BY <1>7, <1>8, <1>9 DEF CursorMoves

(* What n's method returns, given where n stands. *)
Answers(n, ok, tp) ==
  /\ MethodOf(pc[n]) = "open" => fetched'[n] = 0 /\ (ok \/ Out(n) = <<>>)
  /\ MethodOf(pc[n]) = "get_next" =>
       IF ok
       THEN /\ fetched'[n] = fetched[n] + 1
            /\ fetched'[n] <= Len(Out(n))
            /\ tp = Out(n)[fetched'[n]]
       ELSE fetched'[n] = fetched[n] /\ fetched[n] = Len(Out(n))
  /\ MethodOf(pc[n]) = "close" => fetched'[n] = fetched[n]

(* A return moves the node that returns, by what it answers. *)
LEMMA ReturnPositions ==
  ASSUME CursorInv, NEW n \in Nodes, OnTop(n), NEW ok \in BOOLEAN, NEW tp, Return(n, ok, tp),
         UNCHANGED <<plan, data>>, fetched' \in [Nodes -> Nat],
         \A k \in Nodes \ {n} : /\ live'[k] = live[k] /\ fetched'[k] = fetched[k]
                                /\ p_next_id'[k] = p_next_id[k] /\ l_tp'[k] = l_tp[k],
         Answers(n, ok, tp),
         PositionOK(n)'
  PROVE  CursorMoves
<1>1. /\ IInv /\ plan \in Plans /\ data \in Databases /\ pc \in [Nodes -> Labels]
      /\ Nodes' = Nodes /\ fetched \in [Nodes -> Nat]
  BY DEF CursorInv, IInv, TypeOK, Nodes
<1>2. /\ Len(stack) \in Nat /\ Len(stack) > 0 /\ stack \in Seq(Nodes)
      /\ stack[Len(stack)] = n /\ Top = n
      /\ \A i \in 1 .. Len(stack) - 1 : stack[i] \in Nodes /\ n < stack[i]
      /\ \A k \in Nodes : n \in ChildrenOf(plan, k) =>
           /\ Len(stack) > 1 /\ stack[Len(stack) - 1] = k
           /\ pc[k] \in WaitsOf(Kind(k)) /\ Callee(k, pc[k]) = n
  BY <1>1, TopFacts DEF OnTop
<1>3. /\ pc'[n] = "idle" /\ \A k \in Nodes : k # n => pc'[k] = pc[k]
      /\ ret'.ok = ok /\ ret'.tp = tp
  BY <1>1 DEF Return
<1>4. /\ Len(stack') = Len(stack) - 1
      /\ \A i \in 1 .. Len(stack) - 1 : stack'[i] = stack[i]
      /\ stack' = <<>> <=> Len(stack) = 1
  <2>1. Len(stack) \in Nat /\ Len(stack) > 0 /\ stack \in Seq(Nodes)
    BY <1>2
  <2>2. stack' = SubSeq(stack, 1, Len(stack) - 1)
    BY DEF Return
  <2>3. /\ stack' \in Seq(Nodes) /\ Len(stack') = Len(stack) - 1
        /\ \A i \in 1 .. Len(stack) - 1 : stack'[i] = stack[i]
    BY <2>1, <2>2, Popped
  <2>4. stack' = <<>> <=> Len(stack') = 0
    BY <2>3, EmptySeq
  <2>5. Len(stack') = 0 <=> Len(stack) = 1
    <3> DEFINE size == Len(stack)
               rest == Len(stack')
    <3>1. size \in Nat /\ rest = size - 1
      BY <2>1, <2>3
    <3> HIDE DEF size, rest
    <3>2. rest = 0 <=> size = 1
      BY <3>1
    <3> QED
      BY <3>2 DEF size, rest
  <2>6. stack' = <<>> <=> Len(stack) = 1
    BY <2>4, <2>5
  <2> QED
    BY <2>3, <2>6
\* The node that is on top then is the parent, which waits for n.
<1>5. ASSUME ~Idle'
      PROVE  \E q \in Nodes :
               /\ q # n /\ Top' = q /\ q = stack[Len(stack) - 1]
               /\ pc[q] \in WaitsOf(Kind(q)) /\ Callee(q, pc[q]) = n
               /\ n \in ChildrenOf(plan, q)
               /\ MethodOf(pc[n]) = Called(pc[q])
  <2>1. Len(stack) \in Nat /\ Len(stack) > 0 /\ Len(stack) # 1
    BY <1>2, <1>4, <1>5 DEF Idle
  <2> DEFINE i == Len(stack) - 1
             q == stack[i]
  <2>2. i \in 1 .. Len(stack) - 1 /\ i + 1 = Len(stack)
    <3> DEFINE N == Len(stack)
    <3>1. N \in Nat /\ N > 0 /\ N # 1
      BY <2>1
    <3> HIDE DEF N
    <3>2. N - 1 \in 1 .. N - 1 /\ (N - 1) + 1 = N
      BY <3>1
    <3> QED
      BY <3>2 DEF N
  <2>3. q \in Nodes /\ n < q /\ Top' = q
    BY <1>2, <1>4, <2>2 DEF Top
  <2>8. q = stack[Len(stack) - 1] /\ q = stack[i]
    OBVIOUS
  <2> HIDE DEF i, q
  <2>4. pc[q] \in Waits /\ n = Callee(q, pc[q]) /\ MethodOf(pc[n]) = Called(pc[q])
    BY <1>1, <1>2, <2>2, <2>8 DEF IInv, StackOK
  <2>5. pc[q] \in WaitsOf(Kind(q))
    BY <1>1, <2>3, <2>4 DEF IInv, LabelsOK, Waits, Methods
  <2>6. n \in ChildrenOf(plan, q)
    BY <1>1, <2>3, <2>4, <2>5, CalleeFacts
  <2>7. q # n
    BY <1>1, <2>3, PlanFacts
  <2> QED
    BY <2>3, <2>4, <2>5, <2>6, <2>7, <2>8
<1>6. AnswerOK'
  <2> SUFFICES ASSUME ~Idle' PROVE AnswerOK'
    BY DEF AnswerOK
  <2> PICK q \in Nodes : q # n /\ Top' = q /\ Callee(q, pc[q]) = n /\ MethodOf(pc[n]) = Called(pc[q])
    BY <1>5
  <2>1. pc'[q] = pc[q]
    BY <1>3
  <2>2. Callee(q, pc[q])' = n
    BY <2>1 DEF Callee, Child, RightChild
  <2>3. Out(n)' = Out(n)
    BY FixedParts
  <2>4. AnswerOK' <=>
          (pc[q] \in Waits =>
             /\ Called(pc[q]) = "open" => IF ret'.ok THEN fetched'[n] = 0 ELSE Out(n) = <<>>
             /\ Called(pc[q]) = "get_next" =>
                  IF ret'.ok
                  THEN fetched'[n] \in 1 .. Len(Out(n)) /\ ret'.tp = Out(n)[fetched'[n]]
                  ELSE fetched'[n] = Len(Out(n)))
    BY <2>1, <2>2, <2>3 DEF AnswerOK
  <2>5. fetched[n] \in Nat /\ Len(Out(n)) \in Nat
    BY <1>1, OutTyped
  <2>6. /\ Called(pc[q]) = "open" => IF ok THEN fetched'[n] = 0 ELSE Out(n) = <<>>
        /\ Called(pc[q]) = "get_next" =>
             IF ok THEN fetched'[n] \in 1 .. Len(Out(n)) /\ tp = Out(n)[fetched'[n]]
             ELSE fetched'[n] = Len(Out(n))
    BY <2>5 DEF Answers
  <2> QED
    BY <1>3, <2>4, <2>6
<1>7. ASSUME NEW k \in Nodes, k # n PROVE PositionOK(k)'
  <2>1. PositionOK(k)
    BY DEF CursorInv
  <2>2. /\ fetched'[k] = fetched[k] /\ p_next_id'[k] = p_next_id[k] /\ l_tp'[k] = l_tp[k]
        /\ live'[k] => live[k]
    BY <1>7
  <2> pc'[k] = pc[k]
    BY <1>3, <1>7
  <2>3. \A d \in ChildrenOf(plan, k) : d # n => d \in Nodes /\ fetched'[d] = fetched[d]
    <3>1. ChildrenOf(plan, k) \subseteq 1 .. k - 1
      BY <1>1, PlansAssumption DEF WellFormed, Nodes
    <3>2. ChildrenOf(plan, k) \subseteq Nodes
      BY <1>1, <3>1, PlanFacts
    <3> QED
      BY <3>2
  <2>4. CASE n \notin ChildrenOf(plan, k)
    <3>1. Pending(k) = 0
      BY <1>2, <1>7 DEF Pending, OnTop
    <3>2. Pending(k)' = 0
      BY <1>5, <2>4 DEF Pending, OnTop
    <3>3. Resting(k)' => Resting(k)
      BY DEF Resting
    <3>4. \A d \in ChildrenOf(plan, k) : fetched'[d] = fetched[d]
      BY <2>3, <2>4
    <3> QED
      BY <1>1, <2>1, <2>2, <3>1, <3>2, <3>3, <3>4, PositionFrame
  <2>5. CASE n \in ChildrenOf(plan, k)
    <3>1. /\ Len(stack) > 1 /\ stack[Len(stack) - 1] = k
          /\ pc[k] \in WaitsOf(Kind(k)) /\ Callee(k, pc[k]) = n
      BY <1>2, <2>5
    <3>2. ~Idle'
      BY <1>2, <1>4, <3>1 DEF Idle
    <3>3. Pending(k) = 0 /\ Pending(k)' = IF ok THEN 1 ELSE 0
      <4>1. Top' = k
        BY <1>5, <3>1, <3>2
      <4> QED
        BY <1>2, <1>3, <1>7, <3>2, <4>1 DEF Pending, OnTop
    <3>4. Called(pc[k]) = "get_next" => fetched'[n] - Pending(k)' = fetched[n] - Pending(k)
      <4> DEFINE P == Pending(k)
                 Q == Pending(k)'
      <4>1. fetched[n] \in Nat /\ P = 0 /\ Q = IF ok THEN 1 ELSE 0
        BY <1>1, <3>3
      <4>2. MethodOf(pc[n]) = Called(pc[k])
        BY <1>5, <3>1, <3>2
      <4> HIDE DEF P, Q
      <4>3. Called(pc[k]) = "get_next" => fetched'[n] = fetched[n] + IF ok THEN 1 ELSE 0
        BY <4>1, <4>2 DEF Answers
      <4>4. Called(pc[k]) = "get_next" => fetched'[n] - Q = fetched[n] - P
        BY <4>1, <4>3
      <4> QED
        BY <4>4 DEF P, Q
    <3>5. ~Resting(k)'
      <4>1. pc[k] \notin Methods /\ pc[k] # "idle"
        BY <1>1, <3>1, CalleeFacts
      <4> QED
        BY <4>1 DEF Resting, Methods
    <3>6. \A d \in ChildrenOf(plan, k) :
            IF d # Callee(k, pc[k]) THEN fetched'[d] = fetched[d]
            ELSE Called(pc[k]) = "get_next" =>
                   fetched'[d] - Pending(k)' = fetched[d] - Pending(k)
      BY <2>3, <3>1, <3>4
    <3> QED
      BY <1>1, <2>1, <2>2, <3>5, <3>6, PositionFrame
  <2> QED
    BY <2>4, <2>5
<1>8. MethodOf(pc[n]) \in Methods
  <2>1. pc[n] \in Methods \cup WaitsOf(Kind(n))
    BY <1>1, TopFacts DEF IInv, LabelsOK
  <2> QED
    BY <1>1, <2>1, PlanFacts DEF Methods, WaitsOf, Waits, MethodOf
<1>9. ASSUME NEW k \in Nodes PROVE CursorStep(k, Out(k))
  <2>1. fetched[k] \in Nat
    BY <1>1
  <2>2. CASE k # n
    BY <1>2, <2>1, <2>2 DEF CursorStep, OnTop
  <2>3. CASE k = n
    BY <1>3, <1>8, <2>1, <2>3 DEF CursorStep, Answers, Methods
  <2> QED
    BY <2>2, <2>3
<1> QED
  BY <1>6, <1>7, <1>9 DEF CursorMoves

-----------------------------------------------------------------------------
(* The steps *)

(* A scan returns the rows of its relation, one by one. *)
LEMMA ScanMoves ==
  ASSUME CursorInv, NEW n \in Nodes, ScanStep(n), UNCHANGED <<plan, data>>
  PROVE  CursorMoves
<1> DEFINE rel == plan[n].rel
           size == TableSize(rel)
<1>1. /\ IInv /\ plan \in Plans /\ data \in Databases /\ Nodes' = Nodes
      /\ pc \in [Nodes -> Labels] /\ p_next_id \in [Nodes -> {NullId} \cup Nat]
      /\ fetched \in [Nodes -> Nat] /\ live \in [Nodes -> BOOLEAN]
  BY DEF CursorInv, IInv, TypeOK, Nodes
<1>2. Kind(n) = "TableScan" /\ OnTop(n) /\ l_tp' = l_tp
  BY DEF ScanStep, ScanOpen, ScanNext, ScanEnd, ScanClose, At
<1>3. size = Len(Out(n)) /\ size \in Nat /\ Out(n) \in Seq(Tuples)
  <2>1. Out(n) \in Seq(Tuples)
    BY <1>1, OutTyped
  <2>2. rel \in DOMAIN data => Out(n) = data[rel]
    BY <1>1, <1>2, OutIs
  <2>3. rel \notin DOMAIN data => Out(n) = <<>>
    BY <1>1, <1>2, OutIs
  <2> QED
    BY <2>1, <2>2, <2>3 DEF TableSize
<1>4. \A off \in Nat : off < size => TupleAt(rel, off) = Out(n)[off + 1]
  <2>1. rel \notin DOMAIN data => size = 0
    BY DEF TableSize
  <2>2. rel \in DOMAIN data => Out(n) = data[rel]
    BY <1>1, <1>2, OutIs
  <2> QED
    BY <1>3, <2>1, <2>2 DEF TupleAt
<1>5. /\ live[n] => fetched[n] <= size
      /\ live[n] => p_next_id[n] = IF fetched[n] < size THEN fetched[n] ELSE NullId
  BY <1>2, <1>3 DEF CursorInv, PositionOK, ScanPosition
<1>6. /\ live'[n] => fetched'[n] <= size
      /\ live'[n] => p_next_id'[n] = IF fetched'[n] < size THEN fetched'[n] ELSE NullId
      => PositionOK(n)'
  <2>1. Kind(n)' = "TableScan" /\ Out(n)' = Out(n)
    BY <1>2, FixedParts
  <2> QED
    BY <1>3, <2>1 DEF PositionOK, ScanPosition, UnaryPosition, JoinPosition
<1>7. (pc[n] # "idle" /\ MethodOf(pc[n]) = "get_next") => live[n]
  BY <1>1 DEF IInv, PullingOK
<1>8. NullId \notin Nat
  BY DEF NullId
<1>9. CASE ScanOpen(n)
  <2> DEFINE ok == p_next_id'[n] # NullId
  <2>1. /\ Return(n, ok, <<>>) /\ live' = [live EXCEPT ![n] = ok]
        /\ fetched' = [fetched EXCEPT ![n] = 0]
        /\ p_next_id' = [p_next_id EXCEPT ![n] = StartId(rel)]
        /\ MethodOf(pc[n]) = "open"
    BY <1>9 DEF ScanOpen, Opened, At, MethodOf
  <2>2. /\ fetched'[n] = 0 /\ fetched' \in [Nodes -> Nat] /\ live'[n] = ok
        /\ p_next_id'[n] = StartId(rel)
        /\ \A k \in Nodes \ {n} : /\ live'[k] = live[k] /\ fetched'[k] = fetched[k]
                                  /\ p_next_id'[k] = p_next_id[k] /\ l_tp'[k] = l_tp[k]
    BY <1>1, <1>2, <2>1
  <2>3. StartId(rel) = IF size = 0 THEN NullId ELSE 0
    BY DEF StartId
  <2>4. ok \in BOOLEAN /\ (ok <=> size # 0)
    BY <1>8, <2>2, <2>3
  <2>5. PositionOK(n)'
    BY <1>3, <1>6, <2>2, <2>3, <2>4
  <2>6. Answers(n, ok, <<>>)
    BY <1>3, <2>1, <2>2, <2>4, EmptySeq DEF Answers
  <2> HIDE DEF ok
  <2> QED
    BY <1>2, <2>1, <2>2, <2>4, <2>5, <2>6, ReturnPositions
<1>10. CASE ScanNext(n)
  <2> DEFINE off == p_next_id[n]
             tp == TupleAt(rel, off)
  <2>1. /\ Return(n, TRUE, tp) /\ live' = live
        /\ fetched' = [fetched EXCEPT ![n] = @ + 1]
        /\ p_next_id' = [p_next_id EXCEPT ![n] = NextId(rel, off)]
        /\ off # NullId /\ pc[n] = "get_next" /\ MethodOf(pc[n]) = "get_next"
    BY <1>10 DEF ScanNext, Yielded, At, MethodOf
  <2>2. /\ fetched'[n] = fetched[n] + 1 /\ fetched' \in [Nodes -> Nat]
        /\ p_next_id'[n] = NextId(rel, off)
        /\ \A k \in Nodes \ {n} : /\ live'[k] = live[k] /\ fetched'[k] = fetched[k]
                                  /\ p_next_id'[k] = p_next_id[k] /\ l_tp'[k] = l_tp[k]
    BY <1>1, <1>2, <2>1
  <2>3. live[n]
    BY <1>7, <2>1
  <2>4. off = fetched[n] /\ fetched[n] < size /\ fetched[n] \in Nat
    BY <1>1, <1>5, <2>1, <2>3
  <2>5. tp = Out(n)[fetched'[n]]
    BY <1>4, <2>2, <2>4
  <2>6. NextId(rel, off) = IF off + 1 >= size THEN NullId ELSE off + 1
    BY DEF NextId
  <2> HIDE DEF off, tp, size
  <2>7. PositionOK(n)'
    BY <1>3, <1>6, <2>2, <2>4, <2>6
  <2>8. Answers(n, TRUE, tp)
    BY <1>3, <2>1, <2>2, <2>4, <2>5 DEF Answers
  <2> QED
    BY <1>2, <2>1, <2>2, <2>7, <2>8, ReturnPositions
<1>11. CASE ScanEnd(n) \/ ScanClose(n)
  <2>1. /\ Return(n, FALSE, <<>>) /\ live' = [live EXCEPT ![n] = FALSE]
        /\ fetched' = fetched
        /\ p_next_id' = p_next_id \/ p_next_id' = [p_next_id EXCEPT ![n] = NullId]
    BY <1>11 DEF ScanEnd, ScanClose, Closed, Ended
  <2>2. /\ fetched' \in [Nodes -> Nat] /\ ~live'[n]
        /\ \A k \in Nodes \ {n} : /\ live'[k] = live[k] /\ fetched'[k] = fetched[k]
                                  /\ p_next_id'[k] = p_next_id[k] /\ l_tp'[k] = l_tp[k]
    BY <1>1, <1>2, <2>1
  <2>3. PositionOK(n)'
    BY <1>6, <2>2
  <2>4. \/ MethodOf(pc[n]) = "get_next" /\ pc[n] # "idle" /\ p_next_id[n] = NullId
        \/ MethodOf(pc[n]) = "close"
    BY <1>11 DEF ScanEnd, ScanClose, At, MethodOf
  <2>5. Answers(n, FALSE, <<>>)
    <3>1. CASE MethodOf(pc[n]) = "get_next" /\ pc[n] # "idle" /\ p_next_id[n] = NullId
      <4>1. fetched[n] = size
        BY <1>1, <1>3, <1>5, <1>7, <1>8, <3>1
      <4> QED
        BY <1>3, <2>1, <3>1, <4>1 DEF Answers
    <3>2. CASE MethodOf(pc[n]) = "close"
      BY <2>1, <3>2 DEF Answers
    <3> QED
      BY <2>4, <3>1, <3>2
  <2> QED
    BY <1>2, <2>1, <2>2, <2>3, <2>5, ReturnPositions
<1> QED
  BY <1>9, <1>10, <1>11 DEF ScanStep

(* How the rows of a filter or a projection grow with those of its child. *)
LEMMA MadeFacts ==
  ASSUME plan \in Plans, data \in Databases, NEW n \in Nodes,
         Kind(n) \in {"Filter", "Projection"}
  PROVE  /\ Out(Child(n)) \in Seq(Tuples) /\ Out(n) \in Seq(Tuples)
         /\ Made(n, 0) = 0
         /\ Made(n, Len(Out(Child(n)))) = Len(Out(n))
         /\ \A k \in 1 .. Len(Out(Child(n))) :
              LET tp == Out(Child(n))[k]
              IN  /\ Made(n, k) \in Nat /\ Made(n, k - 1) \in Nat
                  /\ Made(n, k) <= Len(Out(n))
                  /\ Kind(n) = "Filter" =>
                       IF Passes(tp, plan[n].cond, Schema(Child(n)))
                       THEN Made(n, k) = Made(n, k - 1) + 1 /\ Out(n)[Made(n, k)] = tp
                       ELSE Made(n, k) = Made(n, k - 1)
                  /\ Kind(n) = "Projection" =>
                       /\ Made(n, k) = Made(n, k - 1) + 1
                       /\ Out(n)[Made(n, k)] = ProjectRow(tp, Schema(Child(n)), Schema(n))
<1> DEFINE c == Child(n)
           rows == Out(c)
           cond == plan[n].cond
           sch == Schema(c)
           N == Len(rows)
           all == Out(n)
<1>1. /\ c \in Nodes /\ rows \in Seq(Tuples) /\ all \in Seq(Tuples)
      /\ N \in Nat /\ \A k \in 1 .. N : rows[k] \in Tuples
  BY PlanFacts, OutTyped
<1>2. CASE Kind(n) = "Filter"
  <2> DEFINE K == KeptOf(rows, cond, sch)
  <2>1. all = FilterRows(rows, cond, sch) /\ all = K[N]
    BY <1>2, OutIs DEF FilterRows
  <2>2. \A k : Made(n, k) = Len(K[k])
    BY <1>2 DEF Made
  <2> HIDE DEF c, rows, cond, sch, N, all
  <2>3. /\ K[0] = <<>>
        /\ \A k \in 0 .. Len(rows) : K[k] \in Seq(Tuples)
    BY <1>1, KeptSteps
  <2>4. \A k \in 1 .. Len(rows) : K[k] = IF Passes(rows[k], cond, sch)
                                         THEN Append(K[k - 1], rows[k]) ELSE K[k - 1]
    BY <1>1, KeptSteps
  <2>5. \A k \in 0 .. Len(rows) :
          /\ Len(K[k]) <= Len(all)
          /\ \A i \in 1 .. Len(K[k]) : all[i] = K[k][i]
    <3> DEFINE F == FilterRows(rows, cond, sch)
    <3>1. ASSUME NEW k \in 0 .. Len(rows)
          PROVE  Len(K[k]) <= Len(F) /\ \A i \in 1 .. Len(K[k]) : F[i] = K[k][i]
      BY <1>1, KeptGrows
    <3>2. all = F
      BY <2>1
    <3> HIDE DEF F, K
    <3> QED
      BY <3>1, <3>2
  <2> HIDE DEF K
  <2>6. ASSUME NEW k \in 1 .. N
        PROVE  /\ Made(n, k) \in Nat /\ Made(n, k - 1) \in Nat
               /\ Made(n, k) <= Len(all)
               /\ IF Passes(rows[k], cond, sch)
                  THEN Made(n, k) = Made(n, k - 1) + 1 /\ all[Made(n, k)] = rows[k]
                  ELSE Made(n, k) = Made(n, k - 1)
    <3>1. k \in 0 .. Len(rows) /\ k - 1 \in 0 .. Len(rows) /\ k \in 1 .. Len(rows)
      BY <1>1 DEF N
    <3>2. /\ K[k] \in Seq(Tuples) /\ K[k - 1] \in Seq(Tuples) /\ Len(K[k]) <= Len(all)
          /\ \A i \in 1 .. Len(K[k]) : all[i] = K[k][i]
      BY <2>3, <2>5, <3>1
    <3>3. CASE Passes(rows[k], cond, sch)
      <4> DEFINE s == K[k - 1]
                 t == rows[k]
      <4>1. K[k] = Append(s, t) /\ s \in Seq(Tuples) /\ t \in Tuples
        BY <1>1, <2>4, <3>1, <3>2, <3>3
      <4> HIDE DEF s, t
      <4>2. Len(K[k]) = Len(s) + 1 /\ K[k][Len(s) + 1] = t /\ Len(s) \in Nat
        BY <4>1
      <4>3. Len(K[k]) \in 1 .. Len(K[k]) /\ all[Len(K[k])] = t
        BY <3>2, <4>2
      <4> QED
        BY <2>2, <3>2, <3>3, <4>2, <4>3 DEF s, t
    <3>4. CASE ~Passes(rows[k], cond, sch)
      <4>1. K[k] = K[k - 1]
        BY <2>4, <3>1, <3>4
      <4> QED
        BY <2>2, <3>2, <3>4, <4>1
    <3> QED
      BY <3>3, <3>4
  <2>7. Made(n, 0) = 0 /\ Made(n, N) = Len(all)
    BY <2>1, <2>2, <2>3
  <2> QED
    BY <1>1, <1>2, <2>6, <2>7 DEF c, rows, cond, sch, N, all
<1>3. CASE Kind(n) = "Projection"
  <2>1. all = [k \in 1 .. N |-> ProjectRow(rows[k], sch, Schema(n))]
    BY <1>1, <1>3, OutIs DEF ProjectRows
  <2>2. \A k : Made(n, k) = k
    BY <1>3 DEF Made
  <2> HIDE DEF c, rows, sch, N, all
  <2>3. Len(all) = N /\ \A k \in 1 .. N : all[k] = ProjectRow(rows[k], sch, Schema(n))
    BY <1>1, <2>1
  <2> QED
    BY <1>1, <1>3, <2>2, <2>3 DEF c, rows, sch, N, all
<1> QED
  BY <1>2, <1>3

(* An exception closes every operator. *)
LEMMA ThrowMoves ==
  ASSUME CursorInv, Throw, UNCHANGED <<plan, data>>
  PROVE  CursorMoves
<1>1. \A k \in Nodes : fetched[k] \in Nat
  BY DEF CursorInv, IInv, TypeOK
<1>2. \A k \in Nodes : ~live'[k] /\ pc'[k] = "idle" /\ fetched'[k] = fetched[k]
  BY DEF Throw
<1>3. stack' = <<>> /\ ret'.threw
  BY DEF Throw
<1>4. ASSUME NEW k \in Nodes PROVE PositionOK(k)'
  BY <1>2 DEF PositionOK, ScanPosition, UnaryPosition, JoinPosition
<1>5. AnswerOK'
  BY <1>3 DEF AnswerOK, Idle
<1>6. ASSUME NEW k \in Nodes PROVE CursorStep(k, Out(k))
  BY <1>1, <1>2, <1>3 DEF CursorStep
<1> QED
  BY <1>4, <1>5, <1>6 DEF CursorMoves

(* What was returned to the node on top, with the child it called. *)
LEMMA AnswerFacts ==
  ASSUME CursorInv, NEW n \in Nodes, OnTop(n), pc[n] \in Waits,
         NEW c, c = Callee(n, pc[n])
  PROVE  /\ Called(pc[n]) = "open" => IF ret.ok THEN fetched[c] = 0 ELSE Out(c) = <<>>
         /\ Called(pc[n]) = "get_next" =>
              IF ret.ok
              THEN fetched[c] \in 1 .. Len(Out(c)) /\ ret.tp = Out(c)[fetched[c]]
              ELSE fetched[c] = Len(Out(c))
BY DEF CursorInv, AnswerOK, OnTop

(* Filters and projections. *)
LEMMA UnaryMoves ==
  ASSUME CursorInv, NEW n \in Nodes, UnaryStep(n), UNCHANGED <<plan, data>>
  PROVE  CursorMoves
<1> DEFINE c == Child(n)
           rows == Out(c)
           N == Len(rows)
           g == fetched[c]
<1>1. /\ IInv /\ plan \in Plans /\ data \in Databases /\ Nodes' = Nodes
      /\ pc \in [Nodes -> Labels] /\ fetched \in [Nodes -> Nat] /\ live \in [Nodes -> BOOLEAN]
      /\ ret.ok \in BOOLEAN
  BY DEF CursorInv, IInv, TypeOK, Nodes
<1>2. /\ Kind(n) \in {"Filter", "Projection"} /\ OnTop(n)
      /\ p_next_id' = p_next_id /\ l_tp' = l_tp
  BY DEF UnaryStep, Delegate, DelegateOpened, DelegateEnd, DelegateClosed,
         FilterThrow, FilterPass, FilterReject, ProjectionBuild, At
<1>3. /\ WaitsOf(Kind(n)) = {"opening", "pulling", "closing"}
      /\ \A w \in WaitsOf(Kind(n)) : Callee(n, w) = c
      /\ c \in Nodes /\ c # n /\ c < n
  BY <1>1, <1>2, PlanFacts DEF WaitsOf, Callee
<1>4. /\ rows \in Seq(Tuples) /\ Out(n) \in Seq(Tuples) /\ N \in Nat
      /\ Made(n, 0) = 0 /\ Made(n, N) = Len(Out(n))
  BY <1>1, <1>2, MadeFacts
<1>5. /\ live[n] => fetched[n] <= Len(Out(n))
      /\ (live[n] /\ Resting(n)) => fetched[n] = Made(n, g)
      /\ pc[n] = "pulling" => fetched[n] = Made(n, g - IF ret.ok THEN 1 ELSE 0)
  BY <1>2 DEF CursorInv, PositionOK, UnaryPosition, Pending
<1>6. (pc[n] # "idle" /\ MethodOf(pc[n]) = "get_next") => live[n]
  BY <1>1 DEF IInv, PullingOK
\* A row of the child is there.
<1>7. ASSUME pc[n] = "pulling", ret.ok
      PROVE  /\ live[n] /\ g \in 1 .. N /\ ret.tp = rows[g] /\ fetched[n] = Made(n, g - 1)
  <2>1. pc[n] \in Waits /\ Called(pc[n]) = "get_next" /\ MethodOf(pc[n]) = "get_next"
        /\ Callee(n, pc[n]) = c
    BY <1>3, <1>7 DEF Waits, Called, MethodOf
  <2>2. g \in 1 .. N /\ ret.tp = rows[g]
    BY <1>2, <1>7, <2>1, AnswerFacts
  <2> QED
    BY <1>5, <1>6, <1>7, <2>1, <2>2
\* A call by the node.
<1>8. ASSUME NEW w \in WaitsOf(Kind(n)), NEW m, m = Called(w), Call(n, w, c, m),
             UNCHANGED <<ret, live, fetched>>,
             w = "pulling" => fetched[n] = Made(n, g)
      PROVE  CursorMoves
  <2>1. pc'[n] = w /\ Top' = c
    <3>1. Len(stack) \in Nat /\ stack \in Seq(Nodes)
      BY <1>1 DEF IInv, TypeOK
    <3> QED
      BY <1>1, <1>3, <1>8, <3>1 DEF Call, Top
  <2>2. Pending(n)' = 0 /\ ~Resting(n)'
    BY <1>3, <2>1 DEF Pending, OnTop, Resting
  <2>3. \A k : Made(n, k)' = Made(n, k)
    BY FixedParts DEF Made
  <2>4. UnaryPosition(n)'
    <3>1. g - 0 = g
      BY <1>1, <1>3
    <3>2. Made(n, fetched[Child(n)] - Pending(n))' = Made(n, g - 0)
      BY <1>8, <2>2, FixedParts DEF Made
    <3> QED
      BY <1>8, <2>1, <2>2, <3>1, <3>2 DEF UnaryPosition
  <2>5. PositionOK(n)'
    <3>1. Kind(n)' = Kind(n) /\ Out(n)' = Out(n)
      BY FixedParts
    <3>2. live'[n] => fetched'[n] <= Len(Out(n)')
      BY <1>5, <1>8, <3>1
    <3> QED
      BY <1>2, <2>4, <3>1, <3>2 DEF PositionOK, ScanPosition, JoinPosition
  <2> QED
    BY <1>2, <1>3, <1>8, <2>5, CallPositions
\* A return from the node.
<1>9. ASSUME NEW ok \in BOOLEAN, NEW tp, Return(n, ok, tp), NEW x \in BOOLEAN,
             live' = [live EXCEPT ![n] = x], NEW v \in Nat, fetched' = [fetched EXCEPT ![n] = v],
             x => v <= Len(Out(n)) /\ v = Made(n, g),
             Answers(n, ok, tp)
      PROVE  CursorMoves
  <2>1. pc'[n] = "idle" /\ live'[n] = x /\ fetched'[n] = v /\ fetched'[c] = g
        /\ fetched' \in [Nodes -> Nat]
    BY <1>1, <1>3, <1>9 DEF Return
  <2>2. \A k \in Nodes \ {n} : /\ live'[k] = live[k] /\ fetched'[k] = fetched[k]
                               /\ p_next_id'[k] = p_next_id[k] /\ l_tp'[k] = l_tp[k]
    BY <1>1, <1>2, <1>9
  <2>3. UnaryPosition(n)'
    <3>1. Made(n, fetched[Child(n)])' = Made(n, g)
      BY <2>1, FixedParts DEF Made
    <3> QED
      BY <1>9, <2>1, <3>1 DEF UnaryPosition
  <2>4. PositionOK(n)'
    <3>1. Kind(n)' = Kind(n) /\ Out(n)' = Out(n)
      BY FixedParts
    <3>2. live'[n] => fetched'[n] <= Len(Out(n)')
      BY <1>9, <2>1, <3>1
    <3> QED
      BY <1>2, <2>3, <3>1, <3>2 DEF PositionOK, ScanPosition, JoinPosition
  <2> QED
    BY <1>2, <1>9, <2>1, <2>2, <2>4, ReturnPositions
<1> HIDE DEF c, rows, N, g
<1>10. CASE Delegate(n)
  <2>1. PICK m \in Methods, w \in {"opening", "pulling", "closing"} :
            /\ pc[n] = m /\ MethodOf(m) = m /\ Called(w) = m
            /\ w = "pulling" => m = "get_next"
            /\ Call(n, w, c, m)
    BY <1>10 DEF Delegate, At, Methods, MethodOf, Called, c
  <2>2. w = "pulling" => fetched[n] = Made(n, g)
    BY <1>5, <1>6, <2>1 DEF Resting
  <2> QED
    BY <1>3, <1>8, <1>10, <2>1, <2>2 DEF Delegate
<1>11. CASE FilterReject(n)
  <2>1. /\ Call(n, "pulling", c, "get_next") /\ pc[n] = "pulling" /\ ret.ok
        /\ Called("pulling") = "get_next" /\ Kind(n) = "Filter"
        /\ ~Passes(ret.tp, plan[n].cond, Schema(c))
        /\ UNCHANGED <<ret, live, fetched>>
    BY <1>11 DEF FilterReject, At, Called, c, Passes
  <2>2. g \in 1 .. N /\ ret.tp = rows[g] /\ fetched[n] = Made(n, g - 1)
    BY <1>7, <2>1
  <2>3. Made(n, g) = Made(n, g - 1)
    BY <1>1, <1>2, <2>1, <2>2, MadeFacts DEF c, rows, N
  <2> QED
    BY <1>3, <1>8, <2>1, <2>2, <2>3
<1>12. CASE DelegateOpened(n)
  <2>1. /\ Return(n, ret.ok, <<>>) /\ live' = [live EXCEPT ![n] = ret.ok]
        /\ fetched' = [fetched EXCEPT ![n] = 0]
        /\ pc[n] = "opening" /\ MethodOf(pc[n]) = "open"
        /\ Called(pc[n]) = "open" /\ pc[n] \in Waits /\ Callee(n, pc[n]) = c
    BY <1>3, <1>12 DEF DelegateOpened, Opened, At, MethodOf, Called, Waits
  <2>2. IF ret.ok THEN g = 0 ELSE rows = <<>>
    BY <1>2, <2>1, AnswerFacts DEF g, rows
  <2>3. ret.ok => 0 <= Len(Out(n)) /\ 0 = Made(n, g)
    BY <1>4, <2>2
  <2>4. ~ret.ok => Out(n) = <<>>
    <3>1. rows = <<>> => N = 0
      BY DEF N
    <3>2. N = 0 => Len(Out(n)) = 0
      BY <1>4
    <3> QED
      BY <1>4, <2>2, <3>1, <3>2, EmptySeq
  <2>5. fetched'[n] = 0
    BY <1>1, <2>1
  <2>6. Answers(n, ret.ok, <<>>)
    BY <2>1, <2>4, <2>5 DEF Answers
  <2> QED
    BY <1>1, <1>9, <2>1, <2>3, <2>6
<1>13. CASE DelegateEnd(n) \/ DelegateClosed(n)
  <2>1. /\ Return(n, FALSE, <<>>) /\ live' = [live EXCEPT ![n] = FALSE]
        /\ fetched' = fetched
    BY <1>13 DEF DelegateEnd, DelegateClosed, Closed, Ended
  <2>2. fetched' = [fetched EXCEPT ![n] = fetched[n]] /\ fetched[n] \in Nat
    BY <1>1, <2>1
  <2>3. CASE DelegateEnd(n)
    <3>1. /\ pc[n] = "pulling" /\ ~ret.ok /\ MethodOf(pc[n]) = "get_next"
          /\ Called(pc[n]) = "get_next" /\ pc[n] \in Waits /\ Callee(n, pc[n]) = c
      BY <1>3, <2>3 DEF DelegateEnd, At, MethodOf, Called, Waits
    <3>2. g = N
      BY <1>2, <3>1, AnswerFacts DEF g, N, rows
    <3>3. fetched[n] = Len(Out(n))
      <4>1. N - 0 = N
        BY <1>4
      <4> QED
        BY <1>4, <1>5, <3>1, <3>2, <4>1
    <3>4. Answers(n, FALSE, <<>>)
      BY <2>1, <3>1, <3>3 DEF Answers
    <3> QED
      BY <1>9, <2>1, <2>2, <3>4
  <2>4. CASE DelegateClosed(n)
    <3>1. MethodOf(pc[n]) = "close"
      BY <2>4 DEF DelegateClosed, At, MethodOf
    <3>2. Answers(n, FALSE, <<>>)
      BY <2>1, <3>1 DEF Answers
    <3> QED
      BY <1>9, <2>1, <2>2, <3>2
  <2> QED
    BY <1>13, <2>3, <2>4
\* A row made of the child's.
<1>14. ASSUME NEW tp, Yielded(n, tp), pc[n] = "pulling", ret.ok,
              Made(n, g) = Made(n, g - 1) + 1, Out(n)[Made(n, g)] = tp
       PROVE  CursorMoves
  <2>1. /\ Return(n, TRUE, tp) /\ live' = live /\ fetched' = [fetched EXCEPT ![n] = @ + 1]
        /\ MethodOf(pc[n]) = "get_next"
    BY <1>14 DEF Yielded, MethodOf
  <2>2. live[n] /\ g \in 1 .. N /\ fetched[n] = Made(n, g - 1)
    BY <1>7, <1>14
  <2>3. Made(n, g) <= Len(Out(n))
    BY <1>1, <1>2, <2>2, MadeFacts DEF c, rows, N
  <2> DEFINE v == fetched[n] + 1
  <2>4. v \in Nat /\ fetched' = [fetched EXCEPT ![n] = v] /\ fetched'[n] = v /\ v = Made(n, g)
    BY <1>1, <1>14, <2>1, <2>2
  <2>5. live' = [live EXCEPT ![n] = TRUE]
    BY <1>1, <2>1, <2>2
  <2>6. Answers(n, TRUE, tp)
    BY <1>14, <2>1, <2>3, <2>4 DEF Answers
  <2> HIDE DEF v
  <2> QED
    BY <1>9, <2>1, <2>3, <2>4, <2>5, <2>6
<1>15. CASE FilterPass(n)
  <2>1. /\ Yielded(n, ret.tp) /\ pc[n] = "pulling" /\ ret.ok /\ Kind(n) = "Filter"
        /\ Passes(ret.tp, plan[n].cond, Schema(c))
    BY <1>15 DEF FilterPass, At, Passes, c
  <2>2. g \in 1 .. N /\ ret.tp = rows[g]
    BY <1>7, <2>1
  <2>3. Made(n, g) = Made(n, g - 1) + 1 /\ Out(n)[Made(n, g)] = ret.tp
    BY <1>1, <1>2, <2>1, <2>2, MadeFacts DEF c, rows, N
  <2> QED
    BY <1>14, <2>1, <2>3
<1>16. CASE ProjectionBuild(n)
  <2> DEFINE tp == ProjectRow(ret.tp, Schema(c), Schema(n))
  <2>1. Yielded(n, tp) /\ pc[n] = "pulling" /\ ret.ok /\ Kind(n) = "Projection"
    BY <1>16 DEF ProjectionBuild, At, c
  <2>2. g \in 1 .. N /\ ret.tp = rows[g]
    BY <1>7, <2>1
  <2>3. Made(n, g) = Made(n, g - 1) + 1 /\ Out(n)[Made(n, g)] = tp
    BY <1>1, <1>2, <2>1, <2>2, MadeFacts DEF c, rows, N
  <2> HIDE DEF tp
  <2> QED
    BY <1>14, <2>1, <2>3
<1>17. CASE FilterThrow(n)
  BY <1>17, ThrowMoves DEF FilterThrow
<1> QED
  BY <1>10, <1>11, <1>12, <1>13, <1>15, <1>16, <1>17 DEF UnaryStep

(* Joins. *)
LEMMA JoinMoves ==
  ASSUME CursorInv, NEW n \in Nodes, JoinStep(n), UNCHANGED <<plan, data>>
  PROVE  CursorMoves
<1> DEFINE L == LeftChild(n)
           R == RightChild(n)
           nl == Len(Out(L))
           nr == Len(Out(R))
           a == fetched[L]
           b == fetched[R]
           outer == (a - 1) * nr
           holds == a \in 1 .. nl /\ l_tp[n] = Out(L)[a]
           holds2 == a \in 1 .. nl /\ l_tp'[n] = Out(L)[a]
           P == IF ret.ok THEN 1 ELSE 0
<1>1. /\ IInv /\ plan \in Plans /\ data \in Databases /\ Nodes' = Nodes
      /\ pc \in [Nodes -> Labels] /\ fetched \in [Nodes -> Nat] /\ live \in [Nodes -> BOOLEAN]
      /\ l_tp \in [Nodes -> Tuples] /\ ret.ok \in BOOLEAN
  BY DEF CursorInv, IInv, TypeOK, Nodes
<1>2. Kind(n) = "BinaryJoin" /\ OnTop(n) /\ p_next_id' = p_next_id
  BY DEF JoinStep, JoinOpen, JoinOpenRight, JoinOpenFirst, JoinOpened, JoinOpenFailed,
         JoinNext, JoinEmit, JoinPullOuter, JoinReopenInner, JoinEnd, JoinPullInner,
         JoinClose, JoinCloseRight, JoinClosed, At
<1>3. L \in Nodes /\ R \in Nodes /\ L # R /\ L # n /\ R # n
  BY <1>1, <1>2, PlanFacts
<1>4. /\ WaitsOf(Kind(n)) = {"open_left", "open_right", "open_first", "pull_right",
                            "pull_left", "reopen_right", "close_left", "close_right"}
      /\ \A w \in {"open_left", "open_first", "pull_left", "close_left"} : Callee(n, w) = L
      /\ \A w \in {"open_right", "pull_right", "reopen_right", "close_right"} : Callee(n, w) = R
  BY <1>2 DEF WaitsOf, Waits, Callee, Child, LeftChild
<1>5. /\ Out(L) \in Seq(Tuples) /\ Out(R) \in Seq(Tuples) /\ Out(n) \in Seq(Tuples)
      /\ nl \in Nat /\ nr \in Nat /\ a \in Nat /\ b \in Nat
  BY <1>1, <1>3, OutTyped
<1>6. /\ Len(Out(n)) = nl * nr
      /\ \A i \in 1 .. nl, j \in 1 .. nr :
           /\ (i - 1) * nr + j \in 1 .. nl * nr
           /\ Out(n)[(i - 1) * nr + j] = Out(L)[i] \o Out(R)[j]
  <2>1. Out(n) = Product(Out(L), Out(R))
    BY <1>1, <1>2, OutIs
  <2> DEFINE A == Out(L)
             B == Out(R)
  <2>2. A \in Seq(Tuples) /\ B \in Seq(Tuples) /\ Out(n) = Product(A, B)
    BY <1>5, <2>1
  <2> HIDE DEF A, B
  <2>3. Len(Out(n)) = Len(A) * Len(B)
    BY <2>2, ProductFacts
  <2>4. \A i \in 1 .. Len(A), j \in 1 .. Len(B) :
          /\ (i - 1) * Len(B) + j \in 1 .. Len(A) * Len(B)
          /\ Out(n)[(i - 1) * Len(B) + j] = A[i] \o B[j]
    <3>1. A \in Seq(Tuples) /\ B \in Seq(Tuples)
      BY <2>2
    <3>2. \A i \in 1 .. Len(A), j \in 1 .. Len(B) :
            /\ (i - 1) * Len(B) + j \in 1 .. Len(A) * Len(B)
            /\ Product(A, B)[(i - 1) * Len(B) + j] = A[i] \o B[j]
      BY <3>1, ProductFacts
    <3> QED
      BY <2>2, <3>2
  <2> QED
    BY <2>3, <2>4 DEF A, B
<1>7. /\ live[n] => fetched[n] <= Len(Out(n))
      /\ (live[n] /\ Resting(n)) => holds /\ fetched[n] = outer + b
      /\ pc[n] = "pull_right" => holds /\ fetched[n] = outer + b - P
      /\ pc[n] = "pull_left" => fetched[n] = (a - P) * nr
      /\ pc[n] = "reopen_right" => holds /\ fetched[n] = outer
      /\ pc[n] = "open_right" => a = 0
      /\ pc[n] = "open_first" => a = P /\ b = 0
  BY <1>2 DEF CursorInv, PositionOK, JoinPosition, Pending
<1>8. (pc[n] # "idle" /\ MethodOf(pc[n]) = "get_next") => live[n]
  BY <1>1 DEF IInv, PullingOK
<1>9. /\ pc[n] = "open_left" => IF ret.ok THEN a = 0 ELSE Out(L) = <<>>
      /\ pc[n] \in {"open_right", "reopen_right"} => IF ret.ok THEN b = 0 ELSE Out(R) = <<>>
      /\ pc[n] \in {"open_first", "pull_left"} =>
           IF ret.ok THEN a \in 1 .. nl /\ ret.tp = Out(L)[a] ELSE a = nl
      /\ pc[n] = "pull_right" =>
           IF ret.ok THEN b \in 1 .. nr /\ ret.tp = Out(R)[b] ELSE b = nr
  <2>1. ASSUME pc[n] = "open_left" PROVE IF ret.ok THEN a = 0 ELSE Out(L) = <<>>
    <3>1. Callee(n, pc[n]) = L /\ pc[n] \in Waits /\ Called(pc[n]) = "open"
      BY <1>4, <2>1 DEF Waits, Called
    <3> QED
      BY <1>2, <3>1, AnswerFacts
  <2>2. ASSUME pc[n] \in {"open_right", "reopen_right"}
        PROVE  IF ret.ok THEN b = 0 ELSE Out(R) = <<>>
    <3>1. Callee(n, pc[n]) = R /\ pc[n] \in Waits /\ Called(pc[n]) = "open"
      BY <1>4, <2>2 DEF Waits, Called
    <3> QED
      BY <1>2, <3>1, AnswerFacts
  <2>3. ASSUME pc[n] \in {"open_first", "pull_left"}
        PROVE  IF ret.ok THEN a \in 1 .. nl /\ ret.tp = Out(L)[a] ELSE a = nl
    <3>1. Callee(n, pc[n]) = L /\ pc[n] \in Waits /\ Called(pc[n]) = "get_next"
      BY <1>4, <2>3 DEF Waits, Called
    <3> QED
      BY <1>2, <3>1, AnswerFacts
  <2>4. ASSUME pc[n] = "pull_right"
        PROVE  IF ret.ok THEN b \in 1 .. nr /\ ret.tp = Out(R)[b] ELSE b = nr
    <3>1. Callee(n, pc[n]) = R /\ pc[n] \in Waits /\ Called(pc[n]) = "get_next"
      BY <1>4, <2>4 DEF Waits, Called
    <3> QED
      BY <1>2, <3>1, AnswerFacts
  <2> QED
    BY <2>1, <2>2, <2>3, <2>4
\* A call by the join.
<1>10. ASSUME NEW w \in WaitsOf(Kind(n)), NEW c \in {L, R}, c = Callee(n, w),
              NEW m, m = Called(w), Call(n, w, c, m),
              UNCHANGED <<ret, live, fetched>>,
              \A k \in Nodes \ {n} : l_tp'[k] = l_tp[k],
              w = "pull_right" => holds2 /\ fetched[n] = outer + b,
              w = "pull_left" => fetched[n] = a * nr,
              w = "reopen_right" => holds2 /\ fetched[n] = outer,
              w = "open_right" => a = 0,
              w = "open_first" => a = 0 /\ b = 0
       PROVE  CursorMoves
  <2>1. pc'[n] = w /\ Top' = c
    <3>1. Len(stack) \in Nat /\ stack \in Seq(Nodes)
      BY <1>1 DEF IInv, TypeOK
    <3> QED
      BY <1>1, <1>3, <1>10, <3>1 DEF Call, Top
  <2>2. Pending(n)' = 0 /\ ~Resting(n)'
    BY <1>3, <1>4, <1>10, <2>1 DEF Pending, OnTop, Resting
  <2>3. JoinPosition(n)' <=>
          /\ w = "pull_right" => holds2 /\ fetched[n] = outer + b - 0
          /\ w = "pull_left" => fetched[n] = (a - 0) * nr
          /\ w = "reopen_right" => holds2 /\ fetched[n] = outer
          /\ w = "open_right" => a = 0
          /\ w = "open_first" => a = 0 /\ b = 0
    BY <1>2, <1>10, <2>1, <2>2, FixedParts DEF JoinPosition
  <2>4. JoinPosition(n)'
    <3>1. a - 0 = a /\ outer \in Int
      BY <1>5
    <3> HIDE DEF outer, holds2, a, b, nr, L, R
    <3>2. outer + b - 0 = outer + b
      BY <1>5, <3>1
    <3> QED
      BY <1>10, <2>3, <3>1, <3>2
  <2>5. PositionOK(n)'
    <3>1. Kind(n)' = Kind(n) /\ Out(n)' = Out(n)
      BY FixedParts
    <3>2. live'[n] => fetched'[n] <= Len(Out(n)')
      BY <1>7, <1>10, <3>1
    <3> QED
      BY <1>2, <2>4, <3>1, <3>2 DEF PositionOK, ScanPosition, UnaryPosition
  <2> HIDE DEF L, R
  <2> QED
    BY <1>2, <1>10, <2>5, CallPositions
\* A return from the join.
<1>11. ASSUME NEW ok \in BOOLEAN, NEW tp, Return(n, ok, tp), NEW x \in BOOLEAN,
              live' = [live EXCEPT ![n] = x], NEW v \in Nat, fetched' = [fetched EXCEPT ![n] = v],
              \A k \in Nodes \ {n} : l_tp'[k] = l_tp[k],
              x => v <= Len(Out(n)) /\ holds2 /\ v = outer + b,
              Answers(n, ok, tp)
       PROVE  CursorMoves
  <2>1. /\ pc'[n] = "idle" /\ live'[n] = x /\ fetched'[n] = v
        /\ fetched'[L] = a /\ fetched'[R] = b /\ fetched' \in [Nodes -> Nat]
    BY <1>1, <1>3, <1>11 DEF Return
  <2>2. \A k \in Nodes \ {n} : /\ live'[k] = live[k] /\ fetched'[k] = fetched[k]
                               /\ p_next_id'[k] = p_next_id[k] /\ l_tp'[k] = l_tp[k]
    BY <1>1, <1>2, <1>11
  <2>3. JoinPosition(n)'
    BY <1>11, <2>1, FixedParts DEF JoinPosition
  <2>4. PositionOK(n)'
    <3>1. Kind(n)' = Kind(n) /\ Out(n)' = Out(n)
      BY FixedParts
    <3>2. live'[n] => fetched'[n] <= Len(Out(n)')
      BY <1>11, <2>1, <3>1
    <3> QED
      BY <1>2, <2>3, <3>1, <3>2 DEF PositionOK, ScanPosition, UnaryPosition
  <2> HIDE DEF L, R
  <2> QED
    BY <1>2, <1>11, <2>1, <2>2, <2>4, ReturnPositions
<1>12. holds /\ l_tp' = l_tp => holds2
  OBVIOUS
<1>13. /\ outer \in Int /\ a * nr \in Nat
       /\ outer + nr = a * nr
       /\ nl = 0 \/ nr = 0 => nl * nr = 0
  BY <1>5
<1> HIDE DEF L, R, nl, nr, a, b, holds, holds2, P
<1>14. CASE JoinOpen(n) \/ JoinClose(n) \/ JoinCloseRight(n)
  <2>1. l_tp' = l_tp /\ UNCHANGED <<ret, live, fetched>>
    BY <1>14 DEF JoinOpen, JoinClose, JoinCloseRight
  <2>2. PICK w \in {"open_left", "close_left", "close_right"}, c \in {L, R}, m \in Methods :
           c = Callee(n, w) /\ m = Called(w) /\ Call(n, w, c, m)
    BY <1>4, <1>14 DEF JoinOpen, JoinClose, JoinCloseRight, Called, Methods, L, R
  <2> QED
    BY <1>4, <1>10, <2>1, <2>2
<1>15. CASE JoinOpenRight(n)
  <2>1. /\ Call(n, "open_right", R, "open") /\ Called("open_right") = "open"
        /\ pc[n] = "open_left" /\ ret.ok /\ l_tp' = l_tp /\ UNCHANGED <<ret, live, fetched>>
    BY <1>15 DEF JoinOpenRight, At, Called, R
  <2>2. a = 0
    BY <1>9, <2>1
  <2> QED
    BY <1>4, <1>10, <2>1, <2>2
<1>16. CASE JoinOpenFirst(n)
  <2>1. /\ Call(n, "open_first", L, "get_next") /\ Called("open_first") = "get_next"
        /\ pc[n] = "open_right" /\ ret.ok /\ l_tp' = l_tp /\ UNCHANGED <<ret, live, fetched>>
    BY <1>16 DEF JoinOpenFirst, At, Called, L
  <2>2. a = 0 /\ b = 0
    BY <1>7, <1>9, <2>1
  <2> QED
    BY <1>4, <1>10, <2>1, <2>2
<1>17. CASE JoinOpened(n)
  <2>1. /\ Return(n, TRUE, <<>>) /\ live' = [live EXCEPT ![n] = TRUE]
        /\ fetched' = [fetched EXCEPT ![n] = 0] /\ l_tp' = [l_tp EXCEPT ![n] = ret.tp]
        /\ pc[n] = "open_first" /\ ret.ok /\ MethodOf(pc[n]) = "open"
    BY <1>17 DEF JoinOpened, Opened, At, MethodOf
  <2>2. a = 1 /\ b = 0 /\ a \in 1 .. nl /\ ret.tp = Out(L)[a]
    BY <1>7, <1>9, <2>1 DEF P
  <2>3. /\ l_tp'[n] = ret.tp /\ fetched'[n] = 0
        /\ \A k \in Nodes \ {n} : l_tp'[k] = l_tp[k]
    BY <1>1, <2>1
  <2>4. holds2
    BY <2>2, <2>3 DEF holds2
  <2>5. outer + b = 0
    BY <1>5, <2>2
  <2>6. Answers(n, TRUE, <<>>)
    BY <2>1, <2>3 DEF Answers
  <2> DEFINE v == 0
  <2>7. v \in Nat /\ v <= Len(Out(n)) /\ v = outer + b /\ fetched' = [fetched EXCEPT ![n] = v]
    BY <1>5, <2>1, <2>5
  <2> HIDE DEF outer, v
  <2> QED
    BY <1>11, <2>1, <2>3, <2>4, <2>6, <2>7
<1>18. CASE JoinOpenFailed(n)
  <2>1. /\ Return(n, FALSE, <<>>) /\ live' = [live EXCEPT ![n] = FALSE]
        /\ fetched' = [fetched EXCEPT ![n] = 0] /\ l_tp' = l_tp
        /\ pc[n] \in {"open_left", "open_right", "open_first"} /\ ~ret.ok
    BY <1>18 DEF JoinOpenFailed, Opened
  <2>2. fetched'[n] = 0
    BY <1>1, <2>1
  <2>3. nl = 0 \/ nr = 0
    <3>1. CASE pc[n] = "open_left"
      BY <1>9, <2>1, <3>1 DEF nl
    <3>2. CASE pc[n] = "open_right"
      BY <1>9, <2>1, <3>2 DEF nr
    <3>3. CASE pc[n] = "open_first"
      BY <1>7, <1>9, <2>1, <3>3 DEF P
    <3> QED
      BY <2>1, <3>1, <3>2, <3>3
  <2>4. Out(n) = <<>>
    BY <1>5, <1>6, <1>13, <2>3, EmptySeq
  <2>5. Answers(n, FALSE, <<>>)
    <3>1. MethodOf(pc[n]) = "open"
      BY <2>1 DEF MethodOf
    <3> QED
      BY <2>2, <2>4, <3>1 DEF Answers
  <2> QED
    BY <1>11, <2>1, <2>5
<1>19. CASE JoinNext(n)
  <2>1. /\ Call(n, "pull_right", R, "get_next") /\ Called("pull_right") = "get_next"
        /\ pc[n] = "get_next" /\ MethodOf(pc[n]) = "get_next"
        /\ l_tp' = l_tp /\ UNCHANGED <<ret, live, fetched>>
    BY <1>19 DEF JoinNext, At, MethodOf, Called, R
  <2>2. holds2 /\ fetched[n] = outer + b
    BY <1>7, <1>8, <1>12, <2>1 DEF Resting
  <2> HIDE DEF outer
  <2> QED
    BY <1>4, <1>10, <2>1, <2>2
<1>20. CASE JoinEmit(n)
  <2> DEFINE tp == l_tp[n] \o ret.tp
             v == fetched[n] + 1
  <2>1. /\ Return(n, TRUE, tp) /\ live' = live
        /\ fetched' = [fetched EXCEPT ![n] = @ + 1] /\ l_tp' = l_tp
        /\ pc[n] = "pull_right" /\ ret.ok /\ MethodOf(pc[n]) = "get_next"
    BY <1>20 DEF JoinEmit, Yielded, At, MethodOf
  <2>2. /\ holds /\ fetched[n] = outer + b - 1 /\ b \in 1 .. nr /\ ret.tp = Out(R)[b]
    BY <1>7, <1>9, <2>1 DEF P
  <2>3. live[n] /\ live' = [live EXCEPT ![n] = TRUE]
    BY <1>1, <1>8, <2>1
  <2>4. a \in 1 .. nl /\ l_tp[n] = Out(L)[a]
    BY <2>2 DEF holds
  <2>5. outer + b \in 1 .. Len(Out(n)) /\ Out(n)[outer + b] = tp
    BY <1>6, <2>2, <2>4
  <2>6. /\ v \in Nat /\ v = outer + b /\ fetched'[n] = v
        /\ fetched' = [fetched EXCEPT ![n] = v]
    <3>1. fetched[n] \in Nat
      BY <1>1
    <3>2. b \in Int
      BY <1>5
    <3> HIDE DEF outer
    <3> QED
      BY <1>1, <1>13, <2>1, <2>2, <3>1, <3>2
  <2>7. v <= Len(Out(n))
    BY <2>5, <2>6
  <2>8. Answers(n, TRUE, tp)
    <3> HIDE DEF v, outer
    <3>1. fetched'[n] = fetched[n] + 1
      BY <2>6 DEF v
    <3>2. tp = Out(n)[fetched'[n]]
      BY <2>5, <2>6
    <3>3. fetched'[n] <= Len(Out(n))
      BY <2>6, <2>7
    <3> HIDE DEF tp
    <3> QED
      BY <2>1, <3>1, <3>2, <3>3 DEF Answers
  <2>9. holds2
    BY <1>12, <2>1, <2>2
  <2> HIDE DEF tp, v, outer
  <2> QED
    BY <1>11, <2>1, <2>3, <2>6, <2>7, <2>8, <2>9
<1>21. CASE JoinPullOuter(n)
  <2>1. /\ Call(n, "pull_left", L, "get_next") /\ Called("pull_left") = "get_next"
        /\ pc[n] \in {"pull_right", "reopen_right"} /\ ~ret.ok
        /\ l_tp' = l_tp /\ UNCHANGED <<ret, live, fetched>>
    BY <1>21 DEF JoinPullOuter, Called, L
  <2>2. fetched[n] = a * nr
    <3>1. CASE pc[n] = "pull_right"
      <4>1. fetched[n] = outer + b - 0 /\ b = nr
        BY <1>7, <1>9, <2>1, <3>1 DEF P
      <4> HIDE DEF outer
      <4>2. fetched[n] = outer + nr
        BY <1>5, <1>13, <4>1
      <4> QED
        BY <1>13, <4>2
    <3>2. CASE pc[n] = "reopen_right"
      <4>1. fetched[n] = outer /\ Out(R) = <<>>
        BY <1>7, <1>9, <2>1, <3>2
      <4>2. nr = 0
        BY <4>1 DEF nr
      <4> HIDE DEF outer
      <4> QED
        BY <1>5, <1>13, <4>1, <4>2
    <3> QED
      BY <2>1, <3>1, <3>2
  <2> QED
    BY <1>4, <1>10, <2>1, <2>2
<1>22. CASE JoinReopenInner(n)
  <2>1. /\ Call(n, "reopen_right", R, "open") /\ Called("reopen_right") = "open"
        /\ pc[n] = "pull_left" /\ ret.ok
        /\ l_tp' = [l_tp EXCEPT ![n] = ret.tp] /\ UNCHANGED <<ret, live, fetched>>
    BY <1>22 DEF JoinReopenInner, At, Called, R
  <2>2. fetched[n] = (a - 1) * nr /\ a \in 1 .. nl /\ ret.tp = Out(L)[a]
    BY <1>7, <1>9, <2>1 DEF P
  <2>3. /\ l_tp'[n] = ret.tp /\ \A k \in Nodes \ {n} : l_tp'[k] = l_tp[k]
    BY <1>1, <2>1
  <2>4. holds2 /\ fetched[n] = outer
    BY <2>2, <2>3 DEF holds2
  <2> HIDE DEF outer
  <2> QED
    BY <1>4, <1>10, <2>1, <2>3, <2>4
<1>23. CASE JoinEnd(n) \/ JoinClosed(n)
  <2>1. /\ Return(n, FALSE, <<>>) /\ live' = [live EXCEPT ![n] = FALSE]
        /\ fetched' = fetched /\ l_tp' = l_tp
    BY <1>23 DEF JoinEnd, JoinClosed, Closed, Ended
  <2>2. fetched' = [fetched EXCEPT ![n] = fetched[n]] /\ fetched[n] \in Nat
    BY <1>1, <2>1
  <2>3. Answers(n, FALSE, <<>>)
    <3>1. CASE JoinEnd(n)
      <4>1. pc[n] = "pull_left" /\ ~ret.ok /\ MethodOf(pc[n]) = "get_next"
        BY <3>1 DEF JoinEnd, At, MethodOf
      <4>2. fetched[n] = (a - 0) * nr /\ a = nl
        BY <1>7, <1>9, <4>1 DEF P
      <4>3. fetched[n] = Len(Out(n))
        BY <1>5, <1>6, <4>2
      <4> QED
        BY <2>1, <4>1, <4>3 DEF Answers
    <3>2. CASE JoinClosed(n)
      <4>1. MethodOf(pc[n]) = "close"
        BY <3>2 DEF JoinClosed, At, MethodOf
      <4> QED
        BY <2>1, <4>1 DEF Answers
    <3> QED
      BY <1>23, <3>1, <3>2
  <2> QED
    BY <1>11, <2>1, <2>2, <2>3
<1>24. CASE JoinPullInner(n)
  <2>1. /\ Call(n, "pull_right", R, "get_next") /\ Called("pull_right") = "get_next"
        /\ pc[n] = "reopen_right" /\ ret.ok /\ l_tp' = l_tp /\ UNCHANGED <<ret, live, fetched>>
    BY <1>24 DEF JoinPullInner, At, Called, R
  <2>2. holds2 /\ fetched[n] = outer /\ b = 0
    BY <1>7, <1>9, <1>12, <2>1
  <2>3. fetched[n] = outer + b
    <3> HIDE DEF outer
    <3> QED
      BY <1>13, <2>2
  <2> HIDE DEF outer
  <2> QED
    BY <1>4, <1>10, <2>1, <2>2, <2>3
<1> QED
  BY <1>14, <1>15, <1>16, <1>17, <1>18, <1>19, <1>20, <1>21, <1>22, <1>23, <1>24 DEF JoinStep

-----------------------------------------------------------------------------
(* The theorems *)

(* Operators that were just built are not open. *)
LEMMA CursorInit == OperatorsInit => CursorInv
<1> SUFFICES ASSUME OperatorsInit PROVE CursorInv
  OBVIOUS
<1>1. IInv
  BY InitKeeps
<1>2. \A k \in Nodes : ~live[k] /\ pc[k] = "idle"
  BY DEF OperatorsInit
<1>3. \A k \in Nodes : PositionOK(k)
  BY <1>2 DEF PositionOK, ScanPosition, UnaryPosition, JoinPosition
<1>4. AnswerOK
  BY DEF OperatorsInit, AnswerOK, Idle
<1> QED
  BY <1>1, <1>3, <1>4 DEF CursorInv

(* The client's call moves nobody. *)
LEMMA InvokeMoves ==
  ASSUME CursorInv, Idle, NEW m \in Methods, m = "get_next" => live[Root], InvokeRoot(m)
  PROVE  CursorMoves
<1>1. /\ IInv /\ plan \in Plans /\ pc \in [Nodes -> Labels] /\ fetched \in [Nodes -> Nat]
  BY DEF CursorInv, IInv, TypeOK
<1>2. Root \in Nodes
  BY <1>1, PlanFacts
<1>3. \A k \in Nodes : pc[k] = "idle"
  BY <1>1 DEF IInv, StackOK, Idle
<1>4. /\ pc'[Root] = m /\ \A k \in Nodes : k # Root => pc'[k] = pc[k]
      /\ stack' = <<Root>>
      /\ UNCHANGED <<plan, data, p_next_id, l_tp, ret, live, fetched>>
  BY <1>1, <1>2 DEF InvokeRoot
<1>5. \A k \in Nodes : pc'[k] \notin Waits
  BY <1>3, <1>4 DEF Waits, Methods
<1>6. ASSUME NEW k \in Nodes PROVE PositionOK(k)'
  <2>1. PositionOK(k)
    BY DEF CursorInv
  <2>2. Resting(k)
    BY <1>3 DEF Resting
  <2>3. pc'[k] \notin WaitsOf(Kind(k))
    BY <1>1, <1>5, CalleeFacts
  <2> QED
    BY <1>1, <1>4, <2>1, <2>2, <2>3, PositionFrame
<1>7. AnswerOK'
  <2>1. Top' = Root
    BY <1>4 DEF Top
  <2> QED
    BY <1>2, <1>5, <2>1 DEF AnswerOK
<1>8. ASSUME NEW k \in Nodes PROVE CursorStep(k, Out(k))
  BY <1>1, <1>4 DEF CursorStep, OnTop
<1> QED
  BY <1>6, <1>7, <1>8 DEF CursorMoves

(* Every step of the program moves each cursor as it should. *)
LEMMA StepMoves ==
  ASSUME CursorInv, Next
  PROVE  CursorMoves
<1>1. CASE OperatorStep
  BY <1>1, ScanMoves, UnaryMoves, JoinMoves DEF OperatorStep
<1>2. ASSUME NEW m \in Methods, Invoke(m) PROVE CursorMoves
  BY <1>2, InvokeMoves DEF Invoke
<1> QED
  BY <1>1, <1>2 DEF Next

(* The strengthened invariant is inductive. *)
LEMMA CursorKept == CursorInv /\ [Next]_vars => CursorInv'
<1> SUFFICES ASSUME CursorInv, [Next]_vars PROVE CursorInv'
  OBVIOUS
<1>1. CASE Next
  <2>1. IInv'
    BY <1>1, OperatorStepKeeps, InvokeKeeps DEF Next, Invoke, CursorInv
  <2>2. CursorMoves
    BY <1>1, StepMoves
  <2>3. Nodes' = Nodes
    BY <1>1 DEF Next, OperatorStep, Invoke, InvokeRoot, Nodes
  <2> QED
    BY <2>1, <2>2, <2>3 DEF CursorInv, CursorMoves
<1>2. CASE UNCHANGED vars
  <2>1. IInv'
    BY <1>2, StutterKeeps DEF CursorInv
  <2>2. /\ UNCHANGED <<plan, data>> /\ pc' = pc /\ stack' = stack /\ ret' = ret
        /\ live' = live /\ fetched' = fetched /\ p_next_id' = p_next_id /\ l_tp' = l_tp
    BY <1>2 DEF vars
  <2>3. Nodes' = Nodes /\ fetched' \in [Nodes -> Nat] /\ IInv
    BY <2>2 DEF Nodes, CursorInv, IInv, TypeOK
  <2>4. ASSUME NEW k \in Nodes PROVE PositionOK(k)'
    <3>1. PositionOK(k) /\ Resting(k)' = Resting(k) /\ Pending(k)' = Pending(k)
      BY <2>2 DEF CursorInv, Resting, Pending, OnTop, Idle, Top
    <3> QED
      BY <2>2, <2>3, <3>1, PositionFrame
  <2>5. AnswerOK'
    <3>1. Top' = Top /\ \A k : Out(k)' = Out(k)
      BY <2>2, FixedParts DEF Top
    <3>2. Callee(Top, pc[Top])' = Callee(Top, pc[Top])
      BY <2>2, <3>1 DEF Callee, Child, RightChild
    <3> QED
      BY <2>2, <3>1, <3>2 DEF CursorInv, AnswerOK, Idle
  <2> QED
    BY <2>1, <2>3, <2>4, <2>5 DEF CursorInv
<1> QED
  BY <1>1, <1>2

(* Where an operator stands among its rows follows from where its children  *)
(* stand among theirs.                                                      *)
THEOREM PositionsAgree == Spec => []CursorInv
  BY CursorInit, CursorKept, PTL DEF Spec, Init

(* Every operator, at every depth and however often it is reopened, returns *)
(* the rows its plan node stands for, in their order and to the last one.   *)
THEOREM OperatorsAreCursors == Spec => EveryOperatorIsACursor
<1>1. CursorInv /\ [Next]_vars
        => [\A n \in Nodes : CursorStep(n, Denotation[plan][data][n])]_vars
  <2> SUFFICES ASSUME CursorInv, Next
               PROVE  \A n \in Nodes : CursorStep(n, Denotation[plan][data][n])
    OBVIOUS
  <2> QED
    BY StepMoves DEF CursorMoves, Out
<1> QED
  BY <1>1, PositionsAgree, PTL DEF Spec, EveryOperatorIsACursor

-----------------------------------------------------------------------------
(* The refinement of Cursor *)

(* What is called by a method that closes is a close. *)
LEMMA CloseSpreads ==
  ASSUME IInv, NEW i \in 1 .. Len(stack), MethodOf(pc[stack[i]]) = "close"
  PROVE  MethodOf(pc[stack[Len(stack)]]) = "close"
<1> DEFINE N == Len(stack)
           T == {d \in 0 .. N - i : MethodOf(pc[stack[i + d]]) = "close"}
<1>1. N \in Nat /\ i \in 1 .. N /\ N - i \in Nat
  BY DEF IInv, TypeOK
<1>2. \A j \in 1 .. N - 1 :
        pc[stack[j]] \in Waits /\ MethodOf(pc[stack[j + 1]]) = Called(pc[stack[j]])
  BY DEF IInv, StackOK
<1>3. \A w \in Waits : MethodOf(w) = "close" => Called(w) = "close"
  BY DEF Waits, MethodOf, Called
<1> HIDE DEF N
<1>4. 0 \in T
  BY <1>1
<1>5. ASSUME NEW d \in 0 .. (N - i) - 1, d \in T PROVE d + 1 \in T
  <2>1. i + d \in 1 .. N - 1 /\ (i + d) + 1 = i + (d + 1) /\ d + 1 \in 0 .. N - i
    BY <1>1
  <2>2. MethodOf(pc[stack[(i + d) + 1]]) = "close"
    BY <1>2, <1>3, <1>5, <2>1
  <2> QED
    BY <2>1, <2>2
<1> HIDE DEF T
<1>6. N - i \in T
  <2>1. 0 .. N - i \subseteq T
    BY <1>1, <1>4, <1>5, IntervalInductionSet
  <2> QED
    BY <1>1, <2>1
<1>7. i + (N - i) = N
  BY <1>1
<1> QED
  BY <1>6, <1>7 DEF T, N

(* The three things a step of an operator can do: call a child, ... *)
Calls(n) ==
  /\ \E w \in WaitsOf(Kind(n)) :
       /\ MethodOf(w) = MethodOf(pc[n])
       /\ Call(n, w, Callee(n, w), Called(w))
  /\ UNCHANGED <<ret, live, fetched>>

(* ... return from its method, leaving behind what that method promises, ... *)
Result(n, ok, tp) ==
  CASE MethodOf(pc[n]) = "open" -> live'[n] = ok /\ tp = <<>> /\ fetched'[n] = 0
    [] MethodOf(pc[n]) = "get_next" ->
         IF ok THEN live'[n] = live[n] /\ fetched'[n] = fetched[n] + 1
         ELSE ~live'[n] /\ tp = <<>> /\ fetched'[n] = fetched[n]
    [] MethodOf(pc[n]) = "close" ->
         ~ok /\ ~live'[n] /\ tp = <<>> /\ fetched'[n] = fetched[n]

Returns(n) ==
  /\ \E ok \in BOOLEAN : \E tp : Return(n, ok, tp) /\ Result(n, ok, tp)
  /\ \A k \in Nodes \ {n} : live'[k] = live[k] /\ fetched'[k] = fetched[k]

(* ... or throw, which a filter that its input does not satisfy does. *)
Throws(n) == Throw /\ Faulty(plan) /\ MethodOf(pc[n]) = "get_next"

(* A method that returns leaves its history as Opened, Yielded and Ended say. *)
LEMMA ReturnShape ==
  ASSUME IInv, NEW n \in Nodes, NEW ok \in BOOLEAN, NEW tp,
         \/ MethodOf(pc[n]) = "open" /\ Opened(n, ok)
         \/ MethodOf(pc[n]) = "get_next" /\ Yielded(n, tp)
         \/ MethodOf(pc[n]) \in {"get_next", "close"} /\ Ended(n)
  PROVE  Returns(n)
<1>1. live \in [Nodes -> BOOLEAN] /\ fetched \in [Nodes -> Nat]
  BY DEF IInv, TypeOK
<1>2. CASE MethodOf(pc[n]) = "open" /\ Opened(n, ok)
  <2>1. Return(n, ok, <<>>) /\ live'[n] = ok /\ fetched'[n] = 0
    BY <1>1, <1>2 DEF Opened
  <2>2. \A k \in Nodes \ {n} : live'[k] = live[k] /\ fetched'[k] = fetched[k]
    BY <1>1, <1>2 DEF Opened
  <2>3. Result(n, ok, <<>>)
    BY <1>2, <2>1 DEF Result
  <2> QED
    BY <2>1, <2>2, <2>3 DEF Returns
<1>3. CASE MethodOf(pc[n]) = "get_next" /\ Yielded(n, tp)
  <2>1. Return(n, TRUE, tp) /\ live' = live /\ fetched'[n] = fetched[n] + 1
    BY <1>1, <1>3 DEF Yielded
  <2>2. \A k \in Nodes \ {n} : live'[k] = live[k] /\ fetched'[k] = fetched[k]
    BY <1>1, <1>3 DEF Yielded
  <2>3. Result(n, TRUE, tp)
    BY <1>3, <2>1 DEF Result
  <2> QED
    BY <2>1, <2>2, <2>3 DEF Returns
<1>4. CASE MethodOf(pc[n]) \in {"get_next", "close"} /\ Ended(n)
  <2>1. Return(n, FALSE, <<>>) /\ ~live'[n] /\ fetched' = fetched
    BY <1>1, <1>4 DEF Ended
  <2>2. \A k \in Nodes \ {n} : live'[k] = live[k] /\ fetched'[k] = fetched[k]
    BY <1>1, <1>4 DEF Ended
  <2>3. Result(n, FALSE, <<>>)
    BY <1>4, <2>1 DEF Result
  <2> QED
    BY <2>1, <2>2, <2>3 DEF Returns
<1> QED
  BY <1>2, <1>3, <1>4

(* No step of an operator does anything else. *)
LEMMA StepShape ==
  ASSUME IInv, NEW n \in Nodes, ScanStep(n) \/ UnaryStep(n) \/ JoinStep(n)
  PROVE  OnTop(n) /\ (Calls(n) \/ Returns(n) \/ Throws(n))
<1>1. ret.ok \in BOOLEAN
  BY DEF IInv, TypeOK
<1>2. ASSUME ScanStep(n) PROVE OnTop(n) /\ Returns(n)
  <2>1. OnTop(n)
    BY <1>2 DEF ScanStep, ScanOpen, ScanNext, ScanEnd, ScanClose, At
  <2>2. CASE ScanOpen(n)
    <3>1. MethodOf(pc[n]) = "open" /\ Opened(n, p_next_id'[n] # NullId)
      BY <2>2 DEF ScanOpen, At, MethodOf
    <3> QED
      BY <2>1, <3>1, ReturnShape
  <2>3. CASE ScanNext(n)
    <3>1. MethodOf(pc[n]) = "get_next"
      BY <2>3 DEF ScanNext, At, MethodOf
    <3>2. Yielded(n, TupleAt(plan[n].rel, p_next_id[n]))
      BY <2>3 DEF ScanNext
    <3> QED
      BY <2>1, <3>1, <3>2, ReturnShape
  <2>4. CASE ScanEnd(n)
    <3>1. MethodOf(pc[n]) = "get_next" /\ Ended(n)
      BY <2>4 DEF ScanEnd, At, MethodOf
    <3> QED
      BY <2>1, <3>1, ReturnShape
  <2>5. CASE ScanClose(n)
    <3>1. MethodOf(pc[n]) = "close" /\ Ended(n)
      BY <2>5 DEF ScanClose, At, MethodOf, Closed
    <3> QED
      BY <2>1, <3>1, ReturnShape
  <2> QED
    BY <1>2, <2>1, <2>2, <2>3, <2>4, <2>5 DEF ScanStep
<1>3. ASSUME UnaryStep(n) PROVE OnTop(n) /\ (Calls(n) \/ Returns(n) \/ Throws(n))
  <2>1. OnTop(n)
    BY <1>3 DEF UnaryStep, Delegate, DelegateOpened, DelegateEnd, DelegateClosed,
                FilterThrow, FilterPass, FilterReject, ProjectionBuild, At
  <2>2. CASE Delegate(n) \/ FilterReject(n)
    <3>1. PICK w \in {"opening", "pulling", "closing"} :
            MethodOf(w) = MethodOf(pc[n]) /\ Call(n, w, Child(n), Called(w))
      BY <2>2 DEF Delegate, FilterReject, At, MethodOf, Called
    <3>2. w \in WaitsOf(Kind(n)) /\ Callee(n, w) = Child(n)
      BY <2>2, <3>1 DEF Delegate, FilterReject, WaitsOf, Callee
    <3> QED
      BY <2>1, <2>2, <3>1, <3>2 DEF Calls, Delegate, FilterReject
  <2>3. CASE DelegateOpened(n)
    <3>1. MethodOf(pc[n]) = "open" /\ Opened(n, ret.ok)
      BY <2>3 DEF DelegateOpened, At, MethodOf
    <3> QED
      BY <1>1, <2>1, <3>1, ReturnShape
  <2>4. CASE DelegateEnd(n) \/ DelegateClosed(n)
    <3>1. MethodOf(pc[n]) \in {"get_next", "close"} /\ Ended(n)
      BY <2>4 DEF DelegateEnd, DelegateClosed, At, MethodOf, Closed
    <3> QED
      BY <2>1, <3>1, ReturnShape
  <2>5. CASE FilterThrow(n)
    <3>1. MethodOf(pc[n]) = "get_next" /\ Throw
      BY <2>5 DEF FilterThrow, At, MethodOf
    <3>2. Faulty(plan)
      BY <2>5 DEF FilterThrow, Faulty, Nodes, Kind, Schema, Child
    <3> QED
      BY <2>1, <3>1, <3>2 DEF Throws
  <2>6. CASE FilterPass(n)
    <3>1. MethodOf(pc[n]) = "get_next" /\ Yielded(n, ret.tp)
      BY <2>6 DEF FilterPass, At, MethodOf
    <3> QED
      BY <2>1, <3>1, ReturnShape
  <2>7. CASE ProjectionBuild(n)
    <3>1. MethodOf(pc[n]) = "get_next"
      BY <2>7 DEF ProjectionBuild, At, MethodOf
    <3>2. Yielded(n, ProjectRow(ret.tp, Schema(Child(n)), Schema(n)))
      BY <2>7 DEF ProjectionBuild
    <3> QED
      BY <2>1, <3>1, <3>2, ReturnShape
  <2> QED
    BY <1>3, <2>2, <2>3, <2>4, <2>5, <2>6, <2>7 DEF UnaryStep
<1>4. ASSUME JoinStep(n) PROVE OnTop(n) /\ (Calls(n) \/ Returns(n) \/ Throws(n))
  <2>1. OnTop(n) /\ Kind(n) = "BinaryJoin"
    BY <1>4 DEF JoinStep, JoinOpen, JoinOpenRight, JoinOpenFirst, JoinOpened, JoinOpenFailed,
                JoinNext, JoinEmit, JoinPullOuter, JoinReopenInner, JoinEnd, JoinPullInner,
                JoinClose, JoinCloseRight, JoinClosed, At
  <2>2. CASE \/ JoinOpen(n) \/ JoinOpenRight(n) \/ JoinOpenFirst(n) \/ JoinNext(n)
             \/ JoinPullOuter(n) \/ JoinReopenInner(n) \/ JoinPullInner(n)
             \/ JoinClose(n) \/ JoinCloseRight(n)
    <3>1. PICK w \in Waits \ {"opening", "pulling", "closing"} :
            MethodOf(w) = MethodOf(pc[n]) /\ Call(n, w, Callee(n, w), Called(w))
      BY <2>2 DEF JoinOpen, JoinOpenRight, JoinOpenFirst, JoinNext, JoinPullOuter,
                  JoinReopenInner, JoinPullInner, JoinClose, JoinCloseRight,
                  At, MethodOf, Called, Callee, LeftChild, Child, Waits
    <3>2. w \in WaitsOf(Kind(n))
      BY <2>1, <3>1 DEF WaitsOf
    <3>3. UNCHANGED <<ret, live, fetched>>
      BY <2>2 DEF JoinOpen, JoinOpenRight, JoinOpenFirst, JoinNext, JoinPullOuter,
                  JoinReopenInner, JoinPullInner, JoinClose, JoinCloseRight
    <3> QED
      BY <2>1, <3>1, <3>2, <3>3 DEF Calls
  <2>3. CASE JoinOpened(n) \/ JoinOpenFailed(n)
    <3>1. MethodOf(pc[n]) = "open" /\ \E ok \in BOOLEAN : Opened(n, ok)
      BY <2>3 DEF JoinOpened, JoinOpenFailed, At, MethodOf
    <3> QED
      BY <2>1, <3>1, ReturnShape
  <2>4. CASE JoinEmit(n)
    <3>1. MethodOf(pc[n]) = "get_next" /\ Yielded(n, l_tp[n] \o ret.tp)
      BY <2>4 DEF JoinEmit, At, MethodOf
    <3> QED
      BY <2>1, <3>1, ReturnShape
  <2>5. CASE JoinEnd(n) \/ JoinClosed(n)
    <3>1. MethodOf(pc[n]) \in {"get_next", "close"} /\ Ended(n)
      BY <2>5 DEF JoinEnd, JoinClosed, At, MethodOf, Closed
    <3> QED
      BY <2>1, <3>1, ReturnShape
  <2> QED
    BY <1>4, <2>2, <2>3, <2>4, <2>5 DEF JoinStep
<1> QED
  BY <1>2, <1>3, <1>4

(* The root is where the stack starts, and it is active until the stack is empty. *)
LEMMA RootFacts ==
  ASSUME IInv, NEW n \in Nodes, OnTop(n)
  PROVE  /\ Root \in Nodes
         /\ n = Root => Len(stack) = 1
         /\ n # Root => Len(stack) > 1
         /\ MethodOf(pc[Root]) \in Methods
         /\ MethodOf(pc[Root]) = "close" => MethodOf(pc[n]) = "close"
<1> DEFINE N == Len(stack)
<1>1. /\ N \in Nat /\ N > 0
      /\ stack[N] = n
      /\ \A i \in 1 .. N - 1 : stack[i] \in Nodes /\ n < stack[i]
  BY TopFacts
<1>2. plan \in Plans /\ pc \in [Nodes -> Labels] /\ ~Idle
  BY DEF IInv, TypeOK, OnTop
<1>3. stack[1] = Root /\ Root \in Nodes /\ Root \in Nat
  BY <1>2, PlanFacts DEF IInv, StackOK
<1>4. n = Root => N = 1
  <2> SUFFICES ASSUME n = Root, N # 1 PROVE FALSE
    OBVIOUS
  <2> HIDE DEF N
  <2>1. 1 \in 1 .. N - 1
    BY <1>1
  <2> QED
    BY <1>1, <1>3, <2>1
<1>5. n # Root => N > 1
  BY <1>1, <1>3
<1>6. 1 \in 1 .. N
  BY <1>1
<1>7. pc[Root] \in Labels \ {"idle"}
  BY <1>2, <1>3, <1>6 DEF IInv, StackOK
<1>8. MethodOf(pc[Root]) \in Methods
  BY <1>7 DEF Labels, Methods, Waits, MethodOf
<1>9. MethodOf(pc[Root]) = "close" => MethodOf(pc[n]) = "close"
  BY <1>1, <1>3, <1>6, CloseSpreads
<1> QED
  BY <1>3, <1>4, <1>5, <1>8, <1>9

(* What a step leaves as it is when the root goes on executing its method. *)
LEMMA RootWaits ==
  ASSUME UNCHANGED <<plan, data>>, ~Idle, ~Idle',
         MethodOf(pc'[Root]) = MethodOf(pc[Root]),
         live'[Root] = live[Root], fetched'[Root] = fetched[Root]
  PROVE  UNCHANGED C!vars
<1>1. Root' = Root /\ Denotation' = Denotation /\ Faulty(plan)' = Faulty(plan)
  BY DEF Root, Denotation
<1> QED
  BY <1>1 DEF C!vars

(* What the root returns to the client is what a cursor over its rows answers. *)
LEMMA RootAnswers ==
  ASSUME CursorInv, CursorMoves, UNCHANGED <<plan, data>>,
         OnTop(Root), Returns(Root)
  PROVE  Idle' /\ C!Respond
<1> DEFINE rows == Out(Root)
<1>1. IInv /\ ~Idle /\ Root \in Nodes
  BY RootFacts, PlanFacts DEF CursorInv, OnTop, IInv, TypeOK
<1>2. PICK ok \in BOOLEAN : \E tp : Return(Root, ok, tp) /\ Result(Root, ok, tp)
  BY DEF Returns
<1>3. PICK tp : Return(Root, ok, tp) /\ Result(Root, ok, tp)
  BY <1>2
<1>4. /\ ret' = [ok |-> ok, tp |-> tp, threw |-> FALSE]
      /\ pc'[Root] = "idle"
  BY <1>1, <1>3 DEF Return, IInv, TypeOK
<1>5. Idle'
  <2>1. Len(stack) = 1 /\ stack \in Seq(Nodes)
    BY <1>1, RootFacts DEF IInv, TypeOK
  <2> QED
    BY <1>3, <2>1 DEF Return, Idle
<1>6. /\ fetched[Root] \in Nat /\ live[Root] \in BOOLEAN
      /\ rows \in Seq(Tuples)
  BY <1>1, OutTyped DEF IInv, TypeOK
<1>7. /\ fetched'[Root] > fetched[Root] =>
           fetched'[Root] <= Len(rows) /\ ret'.tp = rows[fetched'[Root]]
      /\ (pc'[Root] = "idle" /\ ~ret'.ok /\ ~ret'.threw) =>
           CASE MethodOf(pc[Root]) = "get_next" -> fetched[Root] = Len(rows)
             [] MethodOf(pc[Root]) = "open"     -> rows = <<>>
             [] OTHER                           -> TRUE
  BY <1>1 DEF CursorMoves, CursorStep
<1>8. Root' = Root /\ rows' = rows /\ Faulty(plan)' = Faulty(plan)
  BY DEF Root, Out, Denotation
<1>9. MethodOf(pc[Root]) \in Methods
  BY <1>1, RootFacts
<1> DEFINE busy == MethodOf(pc[Root])
<1>10. CASE busy = "open"
  <2>1. live'[Root] = ok /\ tp = <<>> /\ fetched'[Root] = 0
    BY <1>3, <1>10 DEF Result
  <2>2. ok \/ rows = <<>>
    BY <1>4, <1>7, <1>10
  <2>3. C!Open
    BY <1>1, <1>4, <1>5, <1>8, <1>10, <2>1, <2>2 DEF C!Open, C!Reply, Out
  <2> QED
    BY <1>5, <2>3 DEF C!Respond
<1>11. CASE busy = "get_next" /\ ok
  <2>1. live'[Root] = live[Root] /\ fetched'[Root] = fetched[Root] + 1
    BY <1>3, <1>11 DEF Result
  <2>2. fetched[Root] < Len(rows) /\ tp = rows[fetched[Root] + 1]
    BY <1>4, <1>6, <1>7, <2>1
  <2>3. C!NextRow
    BY <1>1, <1>4, <1>5, <1>8, <1>11, <2>1, <2>2 DEF C!NextRow, C!Reply, Out
  <2> QED
    BY <1>5, <2>3 DEF C!Respond
<1>12. CASE busy = "get_next" /\ ~ok
  <2>1. live'[Root] = FALSE /\ tp = <<>> /\ fetched'[Root] = fetched[Root]
    BY <1>3, <1>12 DEF Result
  <2>2. fetched[Root] = Len(rows)
    BY <1>4, <1>7, <1>12
  <2>3. C!NextEnd
    BY <1>1, <1>4, <1>5, <1>8, <1>12, <2>1, <2>2 DEF C!NextEnd, C!Reply, Out
  <2> QED
    BY <1>5, <2>3 DEF C!Respond
<1>13. CASE busy = "close"
  <2>1. ok = FALSE /\ live'[Root] = FALSE /\ tp = <<>> /\ fetched'[Root] = fetched[Root]
    BY <1>3, <1>13 DEF Result
  <2>2. C!Close
    BY <1>1, <1>4, <1>5, <1>8, <1>13, <2>1 DEF C!Close, C!Reply, Out
  <2> QED
    BY <1>5, <2>2 DEF C!Respond
<1> QED
  BY <1>9, <1>10, <1>11, <1>12, <1>13 DEF Methods

(* A step of the tree either leaves the root in the method it executes, or  *)
(* is the answer of a Cursor.                                               *)
LEMMA RootSteps ==
  ASSUME CursorInv, OperatorStep
  PROVE  /\ ~Idle /\ MethodOf(pc[Root]) \in Methods
         /\ \/ Idle' /\ C!Respond
            \/ /\ ~Idle' /\ MethodOf(pc'[Root]) = MethodOf(pc[Root])
               /\ UNCHANGED C!vars
<1>1. IInv /\ plan \in Plans /\ Root \in Nodes /\ Root \in Nat
  BY PlanFacts DEF CursorInv, IInv, TypeOK
<1>2. ASSUME NEW n \in Nodes, ScanStep(n) \/ UnaryStep(n) \/ JoinStep(n)
      PROVE  /\ ~Idle /\ MethodOf(pc[Root]) \in Methods
             /\ \/ Idle' /\ C!Respond
                \/ /\ ~Idle' /\ MethodOf(pc'[Root]) = MethodOf(pc[Root])
                   /\ UNCHANGED C!vars
  <2>1. /\ OnTop(n) /\ (Calls(n) \/ Returns(n) \/ Throws(n)) /\ ~Idle
        /\ MethodOf(pc[Root]) \in Methods
    BY <1>1, <1>2, StepShape, RootFacts DEF OnTop
  <2>2. UNCHANGED <<plan, data>> /\ Next
    BY DEF OperatorStep, Next
  <2>3. /\ stack \in Seq(Nodes) /\ Len(stack) \in Nat /\ pc \in [Nodes -> Labels]
        /\ n = Root => Len(stack) = 1
        /\ n # Root => Len(stack) > 1
    BY <1>1, <2>1, RootFacts DEF IInv, TypeOK
  <2>4. CASE Calls(n)
    <3>1. PICK w \in WaitsOf(Kind(n)) :
            MethodOf(w) = MethodOf(pc[n]) /\ Call(n, w, Callee(n, w), Called(w))
      BY <2>4 DEF Calls
    <3>2. Callee(n, w) \in Nodes /\ Callee(n, w) # Root
      BY <1>1, CalleeFacts, PlanFacts
    <3>3. pc'[Root] = IF n = Root THEN w ELSE pc[Root]
      BY <1>1, <2>3, <3>1, <3>2 DEF Call
    <3>4. ~Idle'
      BY <2>3, <3>1, <3>2 DEF Call, Idle
    <3>5. live' = live /\ fetched' = fetched
      BY <2>4 DEF Calls
    <3> QED
      BY <2>1, <2>2, <3>1, <3>3, <3>4, <3>5, RootWaits
  <2>5. CASE Returns(n) /\ n # Root
    <3>1. PICK ok \in BOOLEAN : \E tp : Return(n, ok, tp)
      BY <2>5 DEF Returns
    <3>2. pc'[Root] = pc[Root] /\ stack' = SubSeq(stack, 1, Len(stack) - 1)
      BY <1>1, <2>3, <2>5, <3>1 DEF Return
    <3>3. ~Idle'
      <4>1. Len(stack') = Len(stack) - 1 /\ Len(stack) > 1
        BY <2>3, <2>5, <3>2, Popped
      <4> QED
        BY <2>3, <4>1 DEF Idle
    <3>4. live'[Root] = live[Root] /\ fetched'[Root] = fetched[Root]
      BY <1>1, <2>5 DEF Returns
    <3> QED
      BY <2>1, <2>2, <3>2, <3>3, <3>4, RootWaits
  <2>6. CASE Returns(n) /\ n = Root
    BY <2>1, <2>2, <2>6, StepMoves, RootAnswers
  <2>7. CASE Throws(n)
    <3>1. /\ Idle' /\ Faulty(plan)
          /\ ret' = [ok |-> FALSE, tp |-> <<>>, threw |-> TRUE]
          /\ live'[Root] = FALSE /\ fetched' = fetched
      BY <1>1, <2>7 DEF Throws, Throw, Idle
    <3>2. MethodOf(pc[Root]) \in {"open", "get_next"}
      <4>1. MethodOf(pc[n]) # "close" /\ MethodOf(pc[Root]) \in Methods
        BY <1>1, <2>1, <2>7, RootFacts DEF Throws
      <4> QED
        BY <1>1, <2>1, <4>1, RootFacts DEF Methods
    <3>3. Root' = Root /\ Denotation' = Denotation /\ Faulty(plan)' = Faulty(plan)
      BY <2>2 DEF Root, Denotation
    <3>4. C!Fail
      BY <2>1, <2>2, <3>1, <3>2, <3>3 DEF C!Fail, C!Reply
    <3> QED
      BY <2>1, <3>1, <3>4 DEF C!Respond
  <2> QED
    BY <2>1, <2>4, <2>5, <2>6, <2>7
<1> QED
  BY <1>2 DEF OperatorStep

(* A call by the client, a step below the root and a throw map to a step of *)
(* Cursor or to a stutter.                                                  *)
LEMMA RootMoves ==
  ASSUME CursorInv, [Next]_vars
  PROVE  [C!Next]_(C!vars)
<1>1. IInv /\ plan \in Plans /\ Root \in Nodes
  BY PlanFacts DEF CursorInv, IInv, TypeOK
<1>2. CASE UNCHANGED vars
  <2>1. UNCHANGED <<plan, data, pc, stack, ret, live, fetched>>
    BY <1>2 DEF vars
  <2>2. UNCHANGED C!vars
    <3>1. Root' = Root /\ Denotation' = Denotation /\ Faulty(plan)' = Faulty(plan)
          /\ Idle' = Idle
      BY <2>1 DEF Root, Denotation, Idle
    <3> QED
      BY <2>1, <3>1 DEF C!vars
  <2> QED
    BY <2>2
<1>3. ASSUME NEW m \in Methods, Invoke(m) PROVE C!Next
  <2>1. /\ Idle /\ (m = "get_next" => live[Root])
        /\ stack' = <<Root>> /\ pc' = [pc EXCEPT ![Root] = m]
        /\ UNCHANGED <<plan, data, ret, live, fetched>>
    BY <1>3 DEF Invoke, InvokeRoot
  <2>2. Root' = Root /\ Denotation' = Denotation /\ Faulty(plan)' = Faulty(plan) /\ ~Idle'
    BY <2>1 DEF Root, Denotation, Idle
  <2>3. MethodOf(pc'[Root]) = m
    BY <1>1, <2>1 DEF IInv, TypeOK, Methods, MethodOf
  <2>4. C!Invoke(m)
    BY <2>1, <2>2, <2>3 DEF C!Invoke, C!Pending
  <2> QED
    BY <2>4 DEF C!Next, C!Methods, Methods
<1>4. CASE OperatorStep
  BY <1>4, RootSteps DEF C!Next
<1> QED
  BY <1>2, <1>3, <1>4 DEF Next

(* The operator at the root refines Cursor: every behaviour of the tree,    *)
(* seen from the root, is one that Cursor allows.  (Cursor's fairness, that *)
(* every call is answered, is left to ImplementsCursor.)                    *)
THEOREM RootRefinesCursor == Spec => C!Init /\ [][C!Next]_(C!vars)
<1>1. OperatorsInit => C!Init
  <2> SUFFICES ASSUME OperatorsInit PROVE C!Init
    OBVIOUS
  <2>1. /\ plan \in Plans /\ data \in Databases /\ Idle
        /\ ret = [ok |-> FALSE, tp |-> <<>>, threw |-> FALSE]
        /\ live = [n \in Nodes |-> FALSE] /\ fetched = [n \in Nodes |-> 0]
    BY DEF OperatorsInit, Idle
  <2>2. Root \in Nodes
    BY <2>1, PlanFacts
  <2>3. Denotation[plan][data][Root] \in Seq(Tuples)
    BY <2>1, <2>2, OutTyped DEF Out
  <2>4. Faulty(plan) \in BOOLEAN
    BY DEF Faulty
  <2> QED
    BY <2>1, <2>2, <2>3, <2>4 DEF C!Init, C!Pending
<1>2. CursorInv /\ [Next]_vars => [C!Next]_(C!vars)
  BY RootMoves
<1> QED
  BY <1>1, <1>2, PositionsAgree, PTL DEF Spec, Init

-----------------------------------------------------------------------------
(* Closing *)

(* Only a scan moves a tuple id, its own; it drops it when it is closed.  A *)
(* join goes on to its right child when its left child has been closed.     *)
LEMMA IdsMove ==
  ASSUME IInv, NEW n \in Nodes, ScanStep(n) \/ UnaryStep(n) \/ JoinStep(n)
  PROVE  /\ Kind(n) # "TableScan" => p_next_id' = p_next_id
         /\ \A k \in Nodes \ {n} : p_next_id'[k] = p_next_id[k]
         /\ (Kind(n) = "TableScan" /\ MethodOf(pc[n]) = "close") => p_next_id'[n] = NullId
         /\ pc'[n] = "close_right" => pc[n] = "close_left"
<1>1. /\ plan \in Plans /\ p_next_id \in [Nodes -> {NullId} \cup Nat]
      /\ pc \in [Nodes -> Labels]
  BY DEF IInv, TypeOK
<1>2. CASE ScanStep(n)
  <2>1. Kind(n) = "TableScan" /\ pc'[n] = "idle"
    BY <1>1, <1>2 DEF ScanStep, ScanOpen, ScanNext, ScanEnd, ScanClose,
                      Opened, Yielded, Ended, Closed, Return
  <2>2. \A k \in Nodes \ {n} : p_next_id'[k] = p_next_id[k]
    BY <1>1, <1>2 DEF ScanStep, ScanOpen, ScanNext, ScanEnd, ScanClose
  <2>3. MethodOf(pc[n]) = "close" => p_next_id'[n] = NullId
    BY <1>1, <1>2 DEF ScanStep, ScanOpen, ScanNext, ScanEnd, ScanClose, At, MethodOf
  <2> QED
    BY <2>1, <2>2, <2>3
<1>3. CASE UnaryStep(n)
  <2>1. Kind(n) \in {"Filter", "Projection"} /\ p_next_id' = p_next_id
    BY <1>3 DEF UnaryStep, Delegate, DelegateOpened, DelegateEnd, DelegateClosed,
                FilterThrow, FilterPass, FilterReject, ProjectionBuild
  <2>2. Child(n) \in Nodes /\ Child(n) # n
    BY <1>1, <2>1, PlanFacts
  <2>3. pc'[n] # "close_right"
    BY <1>1, <1>3, <2>2
    DEF UnaryStep, Delegate, DelegateOpened, DelegateEnd, DelegateClosed,
        FilterThrow, FilterPass, FilterReject, ProjectionBuild,
        Opened, Yielded, Ended, Closed, Return, Throw, Call
  <2> QED
    BY <2>1, <2>3
<1>4. CASE JoinStep(n)
  <2>1. Kind(n) = "BinaryJoin" /\ p_next_id' = p_next_id
    BY <1>4 DEF JoinStep, JoinOpen, JoinOpenRight, JoinOpenFirst, JoinOpened, JoinOpenFailed,
                JoinNext, JoinEmit, JoinPullOuter, JoinReopenInner, JoinEnd, JoinPullInner,
                JoinClose, JoinCloseRight, JoinClosed
  <2>2. LeftChild(n) \in Nodes /\ LeftChild(n) # n /\ RightChild(n) \in Nodes /\ RightChild(n) # n
    BY <1>1, <2>1, PlanFacts
  <2>3. pc'[n] = "close_right" => pc[n] = "close_left"
    <3>1. CASE JoinCloseRight(n)
      BY <3>1 DEF JoinCloseRight, At
    <3>2. CASE \/ JoinOpen(n) \/ JoinOpenRight(n) \/ JoinOpenFirst(n) \/ JoinNext(n)
               \/ JoinPullOuter(n) \/ JoinReopenInner(n) \/ JoinPullInner(n) \/ JoinClose(n)
      BY <1>1, <2>2, <3>2
      DEF JoinOpen, JoinOpenRight, JoinOpenFirst, JoinNext, JoinPullOuter,
          JoinReopenInner, JoinPullInner, JoinClose, Call
    <3>3. CASE JoinOpened(n) \/ JoinOpenFailed(n) \/ JoinEmit(n) \/ JoinEnd(n) \/ JoinClosed(n)
      BY <1>1, <3>3
      DEF JoinOpened, JoinOpenFailed, JoinEmit, JoinEnd, JoinClosed,
          Opened, Yielded, Ended, Closed, Return
    <3> QED
      BY <1>4, <3>1, <3>2, <3>3 DEF JoinStep
  <2> QED
    BY <2>1, <2>3
<1> QED
  BY <1>2, <1>3, <1>4

(* A node has no other children than the ones its kind gives it. *)
LEMMA ChildrenAre ==
  ASSUME plan \in Plans, NEW n \in Nodes
  PROVE  /\ Kind(n) = "TableScan" => ChildrenOf(plan, n) = {}
         /\ Kind(n) \in {"Filter", "Projection"} => ChildrenOf(plan, n) \subseteq {Child(n)}
         /\ Kind(n) = "BinaryJoin" =>
              ChildrenOf(plan, n) \subseteq {LeftChild(n), RightChild(n)}
<1>1. plan \in Seq(PlanNodes) /\ WellFormed(plan)
  BY PlansAssumption
<1>2. plan[n] \in PlanNodes
  BY <1>1 DEF Nodes
<1>3. plan[n].child \in Seq(Nat) /\ Len(plan[n].child) = Arity(Kind(n))
  BY <1>1, <1>2 DEF WellFormed, PlanNodes, Kind, Nodes
<1>4. DOMAIN plan[n].child = 1 .. Arity(Kind(n))
  BY <1>3
<1>5. CASE Kind(n) = "TableScan"
  <2>1. DOMAIN plan[n].child = {}
    BY <1>4, <1>5 DEF Arity
  <2> QED
    BY <1>5, <2>1 DEF ChildrenOf
<1>6. CASE Kind(n) \in {"Filter", "Projection"}
  <2>1. \A i \in DOMAIN plan[n].child : i = 1
    BY <1>4, <1>6 DEF Arity
  <2> QED
    BY <1>6, <2>1 DEF ChildrenOf, Child
<1>7. CASE Kind(n) = "BinaryJoin"
  <2>1. \A i \in DOMAIN plan[n].child : i = 1 \/ i = 2
    BY <1>4, <1>7 DEF Arity
  <2> QED
    BY <1>7, <2>1 DEF ChildrenOf, LeftChild, RightChild
<1> QED
  BY <1>1, <1>5, <1>6, <1>7, PlanFacts

(* While ids are only dropped, what is closed stays closed. *)
LEMMA ClosedStays ==
  ASSUME UNCHANGED plan, NEW n, ClosedBelow(n),
         \A m \in Nodes : p_next_id[m] = NullId => p_next_id'[m] = NullId
  PROVE  ClosedBelow(n)'
BY DEF ClosedBelow, Nodes

(* A close that returns has closed its node and all there is below. *)
LEMMA CloseReturns ==
  ASSUME IInv, ClosingOK, UNCHANGED <<plan, data>>,
         NEW n \in Nodes, ScanStep(n) \/ UnaryStep(n) \/ JoinStep(n),
         MethodOf(pc[n]) = "close"
  PROVE  Calls(n) \/ ClosedBelow(n)'
<1>1. plan \in Plans /\ Nodes' = Nodes /\ OnTop(n)
  BY StepShape DEF IInv, TypeOK, Nodes
<1>2. CASE Calls(n)
  BY <1>2
<1>3. CASE ScanStep(n)
  <2>1. Kind(n) = "TableScan"
    BY <1>3 DEF ScanStep, ScanOpen, ScanNext, ScanEnd, ScanClose
  <2>2. ChildrenOf(plan, n) = {}
    BY <1>1, <2>1, ChildrenAre
  <2>3. {n} \in SUBSET Nodes /\ p_next_id'[n] = NullId
    BY <2>1, IdsMove
  <2> QED
    BY <1>1, <2>2, <2>3 DEF ClosedBelow
<1>4. CASE UnaryStep(n) /\ ~Calls(n)
  <2>1. Kind(n) \in {"Filter", "Projection"} /\ (pc[n] = "closing" \/ At(n, "close"))
    BY <1>4 DEF UnaryStep, Delegate, DelegateOpened, DelegateEnd, DelegateClosed,
                FilterThrow, FilterPass, FilterReject, ProjectionBuild, At, MethodOf
  <2>2. pc[n] = "closing"
    <3> SUFFICES ASSUME At(n, "close") PROVE FALSE
      BY <2>1
    <3>1. Call(n, "closing", Child(n), "close") /\ UNCHANGED <<ret, live, fetched>>
      BY <1>4 DEF UnaryStep, Delegate, DelegateOpened, DelegateEnd, DelegateClosed,
                  FilterThrow, FilterPass, FilterReject, ProjectionBuild, At
    <3>2. /\ "closing" \in WaitsOf(Kind(n)) /\ MethodOf("closing") = MethodOf(pc[n])
          /\ Callee(n, "closing") = Child(n) /\ Called("closing") = "close"
      BY <2>1 DEF WaitsOf, MethodOf, Callee, Called
    <3> QED
      BY <1>4, <3>1, <3>2 DEF Calls
  <2>3. ClosedBelow(Child(n))
    BY <1>1, <2>2 DEF ClosingOK, OnTop, Waits, Called, Callee
  <2>4. PICK below \in SUBSET Nodes :
          /\ Child(n) \in below
          /\ \A m \in below : ChildrenOf(plan, m) \subseteq below /\ p_next_id[m] = NullId
    BY <2>3 DEF ClosedBelow
  <2>5. ChildrenOf(plan, n) \subseteq {Child(n)}
    BY <1>1, <2>1, ChildrenAre
  <2>6. p_next_id' = p_next_id /\ p_next_id[n] = NullId
    BY <2>1, IdsMove DEF ClosingOK
  <2> DEFINE all == below \cup {n}
  <2>7. all \in SUBSET Nodes /\ n \in all
    OBVIOUS
  <2>8. \A m \in all : ChildrenOf(plan, m) \subseteq all /\ p_next_id[m] = NullId
    BY <2>4, <2>5, <2>6
  <2> HIDE DEF all
  <2> QED
    BY <1>1, <2>6, <2>7, <2>8 DEF ClosedBelow
<1>5. CASE JoinStep(n) /\ ~Calls(n)
  <2>1. Kind(n) = "BinaryJoin"
        /\ (pc[n] = "close_right" \/ At(n, "close") \/ At(n, "close_left"))
    BY <1>5 DEF JoinStep, JoinOpen, JoinOpenRight, JoinOpenFirst, JoinOpened, JoinOpenFailed,
                JoinNext, JoinEmit, JoinPullOuter, JoinReopenInner, JoinEnd, JoinPullInner,
                JoinClose, JoinCloseRight, JoinClosed, At, MethodOf
  <2>2. pc[n] = "close_right"
    <3>1. CASE At(n, "close")
      <4>1. Call(n, "close_left", LeftChild(n), "close") /\ UNCHANGED <<ret, live, fetched>>
        BY <1>5, <3>1
        DEF JoinStep, JoinOpen, JoinOpenRight, JoinOpenFirst, JoinOpened, JoinOpenFailed,
            JoinNext, JoinEmit, JoinPullOuter, JoinReopenInner, JoinEnd, JoinPullInner,
            JoinClose, JoinCloseRight, JoinClosed, At
      <4>2. /\ "close_left" \in WaitsOf(Kind(n)) /\ MethodOf("close_left") = MethodOf(pc[n])
            /\ Callee(n, "close_left") = LeftChild(n) /\ Called("close_left") = "close"
        BY <2>1 DEF WaitsOf, Waits, MethodOf, Callee, Called, LeftChild, Child
      <4> QED
        BY <1>5, <4>1, <4>2 DEF Calls
    <3>2. CASE At(n, "close_left")
      <4>1. Call(n, "close_right", RightChild(n), "close") /\ UNCHANGED <<ret, live, fetched>>
        BY <1>5, <3>2
        DEF JoinStep, JoinOpen, JoinOpenRight, JoinOpenFirst, JoinOpened, JoinOpenFailed,
            JoinNext, JoinEmit, JoinPullOuter, JoinReopenInner, JoinEnd, JoinPullInner,
            JoinClose, JoinCloseRight, JoinClosed, At
      <4>2. /\ "close_right" \in WaitsOf(Kind(n)) /\ MethodOf("close_right") = MethodOf(pc[n])
            /\ Callee(n, "close_right") = RightChild(n) /\ Called("close_right") = "close"
        BY <2>1 DEF WaitsOf, Waits, MethodOf, Callee, Called
      <4> QED
        BY <1>5, <4>1, <4>2 DEF Calls
    <3> QED
      BY <2>1, <3>1, <3>2
  <2>3. ClosedBelow(LeftChild(n)) /\ ClosedBelow(RightChild(n))
    BY <1>1, <2>2 DEF ClosingOK, OnTop, Waits, Called, Callee
  <2>4. PICK left \in SUBSET Nodes :
          /\ LeftChild(n) \in left
          /\ \A m \in left : ChildrenOf(plan, m) \subseteq left /\ p_next_id[m] = NullId
    BY <2>3 DEF ClosedBelow
  <2>5. PICK right \in SUBSET Nodes :
          /\ RightChild(n) \in right
          /\ \A m \in right : ChildrenOf(plan, m) \subseteq right /\ p_next_id[m] = NullId
    BY <2>3 DEF ClosedBelow
  <2>6. ChildrenOf(plan, n) \subseteq {LeftChild(n), RightChild(n)}
    BY <1>1, <2>1, ChildrenAre
  <2>7. p_next_id' = p_next_id /\ p_next_id[n] = NullId
    BY <2>1, IdsMove DEF ClosingOK
  <2> DEFINE below == left \cup right \cup {n}
  <2>8. below \in SUBSET Nodes /\ n \in below
    OBVIOUS
  <2>9. \A m \in below : ChildrenOf(plan, m) \subseteq below /\ p_next_id[m] = NullId
    BY <2>4, <2>5, <2>6, <2>7
  <2> HIDE DEF below
  <2> QED
    BY <1>1, <2>7, <2>8, <2>9 DEF ClosedBelow
<1> QED
  BY <1>2, <1>3, <1>4, <1>5

(* A step of an operator keeps what is known of the close in progress. *)
LEMMA ClosingKept ==
  ASSUME IInv, ClosingOK, UNCHANGED <<plan, data>>,
         NEW n \in Nodes, ScanStep(n) \/ UnaryStep(n) \/ JoinStep(n)
  PROVE  ClosingOK'
<1> DEFINE N == Len(stack)
<1>1. /\ plan \in Plans /\ Nodes' = Nodes /\ OnTop(n)
      /\ pc \in [Nodes -> Labels] /\ stack \in Seq(Nodes)
      /\ Calls(n) \/ Returns(n) \/ Throws(n)
  BY StepShape DEF IInv, TypeOK, Nodes
<1>2. /\ N \in Nat /\ N > 0 /\ stack[N] = n
      /\ \A i \in 1 .. N - 1 : stack[i] \in Nodes /\ n < stack[i]
  BY <1>1, TopFacts
<1>3. \A k \in Nodes : Kind(k)' = Kind(k) /\ LeftChild(k)' = LeftChild(k)
  BY DEF Kind, LeftChild
<1>4. ASSUME NEW k \in Nodes, Kind(k) # "TableScan" PROVE p_next_id'[k] = NullId
  BY <1>4, IdsMove DEF ClosingOK
<1>5. MethodOf(pc[n]) = "close" =>
        \A m \in Nodes : p_next_id[m] = NullId => p_next_id'[m] = NullId
  BY IdsMove
<1>6. CASE Calls(n)
  <2>1. PICK w \in WaitsOf(Kind(n)) : Call(n, w, Callee(n, w), Called(w))
    BY <1>6 DEF Calls
  <2> DEFINE c == Callee(n, w)
  <2>2. c \in Nodes /\ c # n /\ Called(w) \in Methods
    BY <1>1, CalleeFacts, PlanFacts
  <2>3. /\ pc'[n] = w /\ pc'[c] = Called(w)
        /\ \A k \in Nodes \ {n, c} : pc'[k] = pc[k]
        /\ stack' = Append(stack, c)
    BY <1>1, <2>1, <2>2 DEF Call
  <2>4. p_next_id' = p_next_id
    <3>1. Kind(n) # "TableScan"
      BY DEF WaitsOf
    <3> QED
      BY <3>1, IdsMove
  <2>5. \A k : ClosedBelow(k) => ClosedBelow(k)'
    BY <2>4, ClosedStays
  <2> HIDE DEF c
  <2>6. ASSUME NEW k \in Nodes, pc'[k] = "close_right" PROVE ClosedBelow(LeftChild(k))
    <3>1. k # c
      BY <2>2, <2>3, <2>6 DEF Methods
    <3>2. CASE k = n
      <4>1. pc[n] = "close_left"
        BY <2>6, <3>2, IdsMove
      <4> QED
        BY <1>1, <3>2, <4>1 DEF ClosingOK, OnTop, Waits, Called, Callee, Child, LeftChild
    <3>3. CASE k # n
      BY <2>3, <2>6, <3>1, <3>3 DEF ClosingOK
    <3> QED
      BY <3>2, <3>3
  <2>7. Top' = c
    <3>1. Len(stack') = N + 1 /\ stack'[N + 1] = c
      BY <1>1, <1>2, <2>2, <2>3
    <3> QED
      BY <3>1 DEF Top
  <2>8. pc'[c] \notin Waits
    BY <2>2, <2>3 DEF Methods, Waits
  <2> QED
    BY <1>1, <1>3, <1>4, <2>5, <2>6, <2>7, <2>8 DEF ClosingOK
<1>7. CASE Returns(n) /\ ~Calls(n)
  <2>1. PICK ok \in BOOLEAN : \E tp : Return(n, ok, tp)
    BY <1>7 DEF Returns
  <2>2. /\ pc'[n] = "idle" /\ stack' = SubSeq(stack, 1, N - 1)
        /\ \A k \in Nodes \ {n} : pc'[k] = pc[k]
    BY <1>1, <2>1 DEF Return
  <2>3. stack' \in Seq(Nodes) /\ Len(stack') = N - 1 /\ \A i \in 1 .. N - 1 : stack'[i] = stack[i]
    BY <1>1, <1>2, <2>2, Popped
  <2>4. ASSUME NEW k \in Nodes, pc'[k] = "close_right" PROVE ClosedBelow(LeftChild(k))'
    <3>1. pc[k] = "close_right"
      BY <2>2, <2>4
    <3>2. ClosedBelow(LeftChild(k))
      BY <3>1 DEF ClosingOK
    <3>3. PICK i \in 1 .. N : stack[i] = k
      BY <3>1 DEF IInv, StackOK
    <3>4. MethodOf(pc[n]) = "close"
      BY <1>2, <3>1, <3>3, CloseSpreads DEF MethodOf
    <3>5. LeftChild(k)' = LeftChild(k)
      BY <1>3
    <3> QED
      BY <1>5, <3>2, <3>4, <3>5, ClosedStays
  <2>5. ASSUME ~Idle', pc'[Top'] \in Waits, Called(pc'[Top']) = "close"
        PROVE  ClosedBelow(Callee(Top, pc[Top]))'
    <3> DEFINE q == stack[N - 1]
    <3>1. N - 1 \in 1 .. N - 1
      BY <1>2, <2>3, <2>5 DEF Idle
    <3>2. Top' = q /\ q \in Nodes /\ pc'[q] = pc[q]
      <4>1. q \in Nodes /\ n < q /\ n \in Nat
        BY <1>1, <1>2, <3>1, PlanFacts
      <4>2. q # n
        BY <1>1, <4>1, PlanFacts
      <4>3. Top' = q
        BY <2>3, <3>1 DEF Top
      <4> QED
        BY <2>2, <4>1, <4>2, <4>3
    <3>3. n = Callee(q, pc[q]) /\ MethodOf(pc[n]) = Called(pc[q])
      <4>1. /\ stack[(N - 1) + 1] = Callee(stack[N - 1], pc[stack[N - 1]])
            /\ MethodOf(pc[stack[(N - 1) + 1]]) = Called(pc[stack[N - 1]])
        BY <3>1 DEF IInv, StackOK
      <4>2. (N - 1) + 1 = N
        BY <1>2
      <4> QED
        BY <1>2, <4>1, <4>2
    <3>4. Callee(Top, pc[Top])' = n
      BY <3>2, <3>3 DEF Callee, Child, RightChild
    <3>5. ClosedBelow(n)'
      BY <1>7, <2>5, <3>2, <3>3, CloseReturns
    <3> QED
      BY <3>4, <3>5
  <2> QED
    BY <1>1, <1>3, <1>4, <2>4, <2>5 DEF ClosingOK
<1>8. CASE Throws(n)
  <2>1. Idle' /\ \A k \in Nodes : pc'[k] = "idle"
    BY <1>8 DEF Throws, Throw, Idle
  <2> QED
    BY <1>1, <1>3, <1>4, <2>1 DEF ClosingOK
<1> QED
  BY <1>1, <1>6, <1>7, <1>8

(* A set of nodes that holds the root and the children of its members holds *)
(* them all.                                                                *)
LEMMA BelowTheRoot ==
  ASSUME plan \in Plans, NEW below \in SUBSET Nodes, Root \in below,
         \A m \in below : ChildrenOf(plan, m) \subseteq below
  PROVE  Nodes \subseteq below
<1>2. /\ Root \in Nat /\ Nodes = 1 .. Root
      /\ \A n \in Nodes \ {Root} : \E m \in Nodes : n \in ChildrenOf(plan, m) /\ n < m
  <2>1. WellFormed(plan) /\ Root \in Nat /\ Nodes = 1 .. Root
    BY PlansAssumption, PlanFacts
  <2>2. ASSUME NEW n \in Nodes \ {Root} PROVE \E m \in Nodes : n \in ChildrenOf(plan, m) /\ n < m
    <3>1. n \in 1 .. Len(plan) - 1
      BY <2>1 DEF Root, RootOf
    <3>2. PICK m \in Nodes : n \in ChildrenOf(plan, m)
      BY <2>1, <3>1 DEF WellFormed, Nodes
    <3>3. ChildrenOf(plan, m) \subseteq 1 .. m - 1
      BY <2>1 DEF WellFormed, Nodes
    <3> QED
      BY <2>1, <3>2, <3>3
  <2> QED
    BY <2>1, <2>2
<1> DEFINE T == {d \in Nat : d < Root => Root - d \in below}
<1>3. ASSUME NEW d \in Nat, \A e \in 0 .. d - 1 : e \in T PROVE d \in T
  <2> SUFFICES ASSUME d < Root, d # 0 PROVE Root - d \in below
    BY <1>2
  <2>1. PICK m \in Nodes : Root - d \in ChildrenOf(plan, m) /\ Root - d < m
    BY <1>2
  <2>2. Root - m \in 0 .. d - 1 /\ Root - (Root - m) = m /\ Root - m < Root
    BY <1>2, <2>1
  <2>3. m \in below
    BY <1>3, <2>2
  <2> QED
    BY <2>1, <2>3
<1>4. Nat \subseteq T
  <2> HIDE DEF T
  <2> QED
    BY <1>3, StrongInductionSet
<1>5. ASSUME NEW n \in Nodes PROVE n \in below
  <2>1. Root - n \in Nat /\ Root - n < Root /\ Root - (Root - n) = n
    BY <1>2
  <2> QED
    BY <1>4, <2>1
<1> QED
  BY <1>5

(* What is known of the close in progress. *)
LEMMA ClosingInvariant == IInv /\ ClosingOK /\ [Next]_vars => ClosingOK'
<1> SUFFICES ASSUME IInv, ClosingOK, [Next]_vars PROVE ClosingOK'
  OBVIOUS
<1>1. CASE OperatorStep
  BY <1>1, ClosingKept DEF OperatorStep
<1>2. ASSUME NEW m \in Methods, Invoke(m) PROVE ClosingOK'
  <2>1. /\ UNCHANGED <<plan, p_next_id>> /\ Nodes' = Nodes
        /\ stack' = <<Root>> /\ pc' = [pc EXCEPT ![Root] = m]
    BY <1>2 DEF Invoke, InvokeRoot, Nodes
  <2>2. pc \in [Nodes -> Labels] /\ Root \in Nodes
    BY PlanFacts DEF IInv, TypeOK
  <2>3. pc'[Root] = m /\ Top' = Root /\ m \notin Waits /\ m # "close_right"
    BY <2>1, <2>2 DEF Top, Methods, Waits
  <2>4. ASSUME NEW k \in Nodes, pc'[k] = "close_right" PROVE ClosedBelow(LeftChild(k))'
    <3>1. pc[k] = "close_right"
      BY <2>1, <2>2, <2>3, <2>4
    <3>2. ClosedBelow(LeftChild(k)) /\ LeftChild(k)' = LeftChild(k)
      BY <2>1, <3>1 DEF ClosingOK, LeftChild
    <3> QED
      BY <2>1, <3>2, ClosedStays
  <2> QED
    BY <2>1, <2>3, <2>4 DEF ClosingOK, Kind
<1>3. CASE UNCHANGED vars
  BY <1>3 DEF vars, ClosingOK, ClosedBelow, Nodes, Kind, LeftChild, Idle, Top,
              Callee, Child, RightChild
<1> QED
  BY <1>1, <1>2, <1>3 DEF Next

(* All that is known of a reachable state. *)
THEOREM TreeInvariance == Spec => []TreeInv
<1>1. OperatorsInit => ClosingOK
  BY DEF OperatorsInit, ClosingOK, Idle
<1>2. ClosingOK /\ CursorInv /\ [Next]_vars => ClosingOK'
  BY ClosingInvariant DEF CursorInv
<1>3. CursorInv /\ ClosingOK => TreeInv
  BY DEF TreeInv
<1> QED
  BY <1>1, <1>2, <1>3, PositionsAgree, PTL DEF Spec, Init

(* When a close() of the root returns, no scan of the tree holds a tuple id. *)
THEOREM CloseIsComplete == Spec => CloseReachesEveryScan
<1> DEFINE A == (OnTop(Root) /\ MethodOf(pc[Root]) = "close" /\ Idle') =>
                  \A n \in Nodes : p_next_id'[n] = NullId
<1>1. ASSUME TreeInv, Next PROVE A
  <2> SUFFICES ASSUME OnTop(Root), MethodOf(pc[Root]) = "close", Idle'
               PROVE  \A n \in Nodes : p_next_id'[n] = NullId
    OBVIOUS
  <2>1. IInv /\ ClosingOK /\ ~Idle
    BY <1>1 DEF TreeInv, CursorInv, OnTop
  <2>2. CASE OperatorStep
    <3>1. PICK n \in Nodes : ScanStep(n) \/ UnaryStep(n) \/ JoinStep(n)
      BY <2>2 DEF OperatorStep
    <3>2. n = Root /\ UNCHANGED <<plan, data>>
      BY <2>1, <2>2, <3>1, StepShape DEF OperatorStep, OnTop
    <3>3. ~Calls(n)
      <4> SUFFICES ASSUME Calls(n) PROVE FALSE
        OBVIOUS
      <4>1. stack \in Seq(Nodes) /\ plan \in Plans
        BY <2>1 DEF IInv, TypeOK
      <4>2. PICK w \in WaitsOf(Kind(n)) : stack' = Append(stack, Callee(n, w))
        BY DEF Calls, Call
      <4>3. Callee(n, w) \in Nodes
        BY <4>1, CalleeFacts
      <4> DEFINE N == Len(stack)
      <4>4. Len(stack') = N + 1 /\ N \in Nat
        BY <4>1, <4>2, <4>3
      <4>5. Len(stack') = 0
        BY DEF Idle
      <4> HIDE DEF N
      <4>6. N + 1 = 0 /\ N \in Nat
        BY <4>4, <4>5
      <4> QED
        BY <4>6
    <3>4. plan \in Plans /\ Nodes' = Nodes /\ Root' = Root
      BY <2>1, <3>2 DEF IInv, TypeOK, Nodes, Root
    <3>5. ClosedBelow(n)'
      BY <2>1, <3>1, <3>2, <3>3, CloseReturns
    <3>6. PICK below \in SUBSET Nodes :
            /\ Root \in below
            /\ \A m \in below : ChildrenOf(plan, m) \subseteq below /\ p_next_id'[m] = NullId
      BY <3>2, <3>4, <3>5 DEF ClosedBelow
    <3> QED
      BY <3>4, <3>6, BelowTheRoot
  <2>3. CASE \E m \in Methods : Invoke(m)
    BY <2>1, <2>3 DEF Invoke
  <2> QED
    BY <1>1, <2>2, <2>3 DEF Next
<1>2. TreeInv /\ [Next]_vars => [A]_vars
  BY <1>1
<1> QED
  BY <1>2, TreeInvariance, PTL DEF Spec, CloseReachesEveryScan

-----------------------------------------------------------------------------
(***************************************************************************)
(* Executor: whatever the plan and the database, and however often the     *)
(* same operators were executed before, execute() returns the rows of the  *)
(* plan.  Of the operators only two things are used: that the root is a    *)
(* Cursor (RootSteps) and their invariant.                                 *)
(***************************************************************************)

(* A row is added to the rows returned so far. *)
LEMMA PrefixGrows ==
  ASSUME NEW S, NEW rows \in Seq(S), NEW k \in 1 .. Len(rows)
  PROVE  Append(SubSeq(rows, 1, k - 1), rows[k]) = SubSeq(rows, 1, k)
<1>1. Len(rows) \in Nat /\ k \in Nat /\ k - 1 \in Nat
  OBVIOUS
<1> QED
  BY <1>1, SMTT(60)

(* What starts a method of the root. *)
LEMMA InvokeRootKeeps ==
  ASSUME CursorInv, Idle, NEW m \in Methods, m = "get_next" => live[Root], InvokeRoot(m)
  PROVE  /\ CursorInv' /\ Root' = Root /\ ~Idle'
         /\ Denotation[plan][data][Root]' = Denotation[plan][data][Root]
         /\ UNCHANGED <<plan, live, fetched>>
         /\ MethodOf(pc'[Root]) = m
<1>1. Next
  BY DEF Next, Invoke
<1>2. /\ UNCHANGED <<plan, data, live, fetched>> /\ stack' = <<Root>>
      /\ pc' = [pc EXCEPT ![Root] = m]
  BY DEF InvokeRoot
<1>3. Root \in Nodes /\ pc \in [Nodes -> Labels]
  BY PlanFacts DEF CursorInv, IInv, TypeOK
<1>4. Root' = Root /\ ~Idle' /\ Denotation' = Denotation /\ MethodOf(pc'[Root]) = m
  BY <1>2, <1>3 DEF Root, Idle, Denotation, Methods, MethodOf
<1> QED
  BY <1>1, <1>2, <1>4, CursorKept

(* Before the first execution nothing was collected. *)
LEMMA ExecutorInitKeeps == ExecutorInit => ExecutorInv
<1> SUFFICES ASSUME ExecutorInit PROVE ExecutorInv
  OBVIOUS
<1>1. CursorInv /\ Idle /\ exec = "ready" /\ result = <<>>
  BY CursorInit DEF ExecutorInit, OperatorsInit, Idle
<1> QED
  BY <1>1 DEF ExecutorInv, ResultIsTheAnswer

(* The invariant is inductive: each pull adds the row that the cursor was at. *)
LEMMA ExecutorStepKeeps == ExecutorInv /\ [ExecutorNext]_allVars => ExecutorInv'
<1> SUFFICES ASSUME ExecutorInv, [ExecutorNext]_allVars PROVE ExecutorInv'
  OBVIOUS
<1> DEFINE rows == Denotation[plan][data][Root]
           k == fetched[Root]
<1>1. /\ CursorInv /\ IInv /\ plan \in Plans /\ data \in Databases
      /\ Root \in Nodes /\ fetched[Root] \in Nat
      /\ ret.ok \in BOOLEAN /\ ret.threw \in BOOLEAN /\ live[Root] \in BOOLEAN
      /\ rows \in Seq(Tuples)
  <2>1. CursorInv /\ IInv /\ TypeOK
    BY DEF ExecutorInv, CursorInv, IInv
  <2>2. Root \in Nodes
    BY <2>1, PlanFacts DEF TypeOK
  <2> QED
    BY <2>1, <2>2, OutTyped DEF TypeOK, Out
<1>2. CASE Execute
  <2>1. Idle /\ InvokeRoot("open") /\ exec' = "open" /\ result' = <<>>
    BY <1>2 DEF Execute, ExecutorInv
  <2>2. /\ CursorInv' /\ Root' = Root /\ ~Idle'
        /\ MethodOf(pc'[Root]) = "open"
    BY <1>1, <2>1, InvokeRootKeeps DEF Methods
  <2> QED
    BY <2>1, <2>2 DEF ExecutorInv, ResultIsTheAnswer
<1>3. CASE Pull
  <2>1. /\ exec \in {"open", "get_next"} /\ Idle /\ ret.ok
        /\ InvokeRoot("get_next") /\ exec' = "get_next"
        /\ result' = IF exec = "get_next" THEN Append(result, ret.tp) ELSE result
    BY <1>3 DEF Pull
  <2>2. ~ret.threw /\ live[Root]
    BY <2>1 DEF ExecutorInv
  <2>3. /\ CursorInv' /\ Root' = Root /\ ~Idle' /\ rows' = rows /\ k' = k
        /\ MethodOf(pc'[Root]) = "get_next"
    BY <1>1, <2>1, <2>2, InvokeRootKeeps DEF Methods
  <2>4. result' = SubSeq(rows, 1, k)
    <3>1. CASE exec = "open"
      <4>1. result' = <<>> /\ k = 0
        BY <2>1, <2>2, <3>1 DEF ExecutorInv
      <4>2. SubSeq(rows, 1, 0) = <<>>
        BY <1>1
      <4> QED
        BY <4>1, <4>2
    <3>2. CASE exec = "get_next"
      <4>1. k \in 1 .. Len(rows) /\ ret.tp = rows[k] /\ result = SubSeq(rows, 1, k - 1)
        BY <2>1, <2>2, <3>2 DEF ExecutorInv
      <4>2. result' = Append(result, ret.tp)
        BY <2>1, <3>2
      <4>3. Append(SubSeq(rows, 1, k - 1), rows[k]) = SubSeq(rows, 1, k)
        BY <1>1, <4>1, PrefixGrows
      <4> HIDE DEF rows, k
      <4> QED
        BY <4>1, <4>2, <4>3
    <3> QED
      BY <2>1, <3>1, <3>2
  <2> QED
    BY <2>1, <2>3, <2>4 DEF ExecutorInv, ResultIsTheAnswer
<1>4. CASE Finish
  <2>1. /\ exec \in {"open", "get_next"} /\ Idle /\ ~ret.ok /\ ~ret.threw
        /\ exec' = "done" /\ result' = result /\ UNCHANGED vars
    BY <1>4 DEF Finish
  <2>2. CursorInv' /\ Idle'
    BY <1>1, <2>1, CursorKept DEF vars, Idle
  <2>3. rows' = rows
    BY <2>1 DEF vars, Denotation, Root
  <2>4. result = rows
    BY <2>1 DEF ExecutorInv
  <2> QED
    BY <2>1, <2>2, <2>3, <2>4 DEF ExecutorInv, ResultIsTheAnswer
<1>5. CASE Propagate
  <2>1. /\ exec \in {"open", "get_next"} /\ Idle /\ ret.threw
        /\ exec' = "threw" /\ result' = <<>> /\ UNCHANGED vars
    BY <1>5 DEF Propagate
  <2>2. CursorInv' /\ Idle'
    BY <1>1, <2>1, CursorKept DEF vars, Idle
  <2>3. Faulty(plan)'
    BY <2>1 DEF ExecutorInv, vars
  <2> QED
    BY <2>1, <2>2, <2>3 DEF ExecutorInv, ResultIsTheAnswer
<1>6. CASE OperatorStep /\ UNCHANGED execVars
  <2>1. /\ CursorInv' /\ UNCHANGED <<plan, data>> /\ exec' = exec /\ result' = result
    BY <1>1, <1>6, CursorKept DEF Next, OperatorStep, execVars
  <2>2. /\ ~Idle /\ MethodOf(pc[Root]) \in Methods
        /\ \/ Idle' /\ C!Respond
           \/ /\ ~Idle' /\ MethodOf(pc'[Root]) = MethodOf(pc[Root])
              /\ UNCHANGED C!vars
    BY <1>1, <1>6, RootSteps
  <2>3. Root' = Root /\ rows' = rows /\ Faulty(plan)' = Faulty(plan)
    BY <2>1 DEF Root, Denotation
  <2>4. exec \in {"open", "get_next"} /\ MethodOf(pc[Root]) = exec
    BY <2>2 DEF ExecutorInv
  <2>5. exec = "get_next" => live[Root]
    <3>1. 1 \in 1 .. Len(stack) /\ stack[1] = Root
      <4>1. stack \in Seq(Nodes) /\ stack # <<>> /\ StackOK
        BY <1>1, <2>2 DEF IInv, TypeOK, Idle
      <4> QED
        BY <4>1 DEF StackOK, Idle
    <3>2. pc[Root] # "idle"
      BY <1>1, <3>1 DEF IInv, StackOK
    <3> QED
      BY <1>1, <2>4, <3>2 DEF IInv, PullingOK
  <2>6. CASE ~Idle'
    <3>1. live'[Root] = live[Root] /\ fetched'[Root] = fetched[Root]
          /\ MethodOf(pc'[Root]) = exec
      BY <2>2, <2>3, <2>4, <2>6 DEF C!vars
    <3> QED
      BY <2>1, <2>2, <2>3, <2>4, <2>6, <3>1 DEF ExecutorInv, ResultIsTheAnswer
  <2>7. CASE Idle' /\ exec = "open"
    <3>1. ret'.threw => Faulty(plan) /\ ~ret'.ok
      BY <2>2, <2>3, <2>4, <2>7
      DEF C!Respond, C!Open, C!NextRow, C!NextEnd, C!Close, C!Fail, C!Reply
    <3>2. ~ret'.threw => IF ret'.ok THEN live'[Root] /\ fetched'[Root] = 0 ELSE rows = <<>>
      BY <2>2, <2>3, <2>4, <2>7
      DEF C!Respond, C!Open, C!NextRow, C!NextEnd, C!Close, C!Fail, C!Reply
    <3> QED
      BY <2>1, <2>3, <2>4, <2>7, <3>1, <3>2 DEF ExecutorInv, ResultIsTheAnswer
  <2>8. CASE Idle' /\ exec = "get_next"
    <3>1. ret'.threw => Faulty(plan) /\ ~ret'.ok
      BY <2>2, <2>3, <2>4, <2>8
      DEF C!Respond, C!Open, C!NextRow, C!NextEnd, C!Close, C!Fail, C!Reply
    <3>2. result = SubSeq(rows, 1, k)
      BY <2>2, <2>8 DEF ExecutorInv
    <3>3. ~ret'.threw =>
            IF ret'.ok
            THEN live'[Root] /\ k < Len(rows) /\ k' = k + 1 /\ ret'.tp = rows[k + 1]
            ELSE k = Len(rows)
      BY <2>2, <2>3, <2>4, <2>5, <2>8
      DEF C!Respond, C!Open, C!NextRow, C!NextEnd, C!Close, C!Fail, C!Reply
    <3>4. (~ret'.threw /\ ret'.ok) =>
            k' \in 1 .. Len(rows) /\ ret'.tp = rows[k'] /\ result = SubSeq(rows, 1, k' - 1)
      <4> SUFFICES ASSUME ~ret'.threw, ret'.ok
                   PROVE  k' \in 1 .. Len(rows) /\ ret'.tp = rows[k']
                          /\ result = SubSeq(rows, 1, k' - 1)
        OBVIOUS
      <4>1. k < Len(rows) /\ k' = k + 1 /\ ret'.tp = rows[k + 1]
        BY <3>3
      <4>2. k \in Nat /\ Len(rows) \in Nat
        BY <1>1
      <4>3. k' \in 1 .. Len(rows) /\ k' - 1 = k
        BY <4>1, <4>2
      <4> QED
        BY <3>2, <4>1, <4>3
    <3>5. (~ret'.threw /\ ~ret'.ok) => result = rows
      <4>1. SubSeq(rows, 1, Len(rows)) = rows
        BY <1>1
      <4> QED
        BY <3>2, <3>3, <4>1
    <3> QED
      BY <2>1, <2>3, <2>4, <2>8, <3>1, <3>3, <3>4, <3>5 DEF ExecutorInv, ResultIsTheAnswer
  <2> QED
    BY <2>4, <2>6, <2>7, <2>8
<1>7. CASE UNCHANGED allVars
  <2>1. UNCHANGED vars /\ UNCHANGED execVars
    BY <1>7 DEF allVars
  <2>2. CursorInv'
    BY <1>1, <2>1, CursorKept
  <2>3. /\ UNCHANGED <<plan, pc, ret, live, fetched, exec, result>>
        /\ Root' = Root /\ Idle' = Idle /\ rows' = rows
    BY <2>1 DEF vars, execVars, Root, Idle, Denotation
  <2> QED
    BY <2>2, <2>3 DEF ExecutorInv, ResultIsTheAnswer
<1> QED
  BY <1>2, <1>3, <1>4, <1>5, <1>6, <1>7 DEF ExecutorNext, ExecuteLoop

(* What is known of an execution in progress. *)
THEOREM ExecutorInvariance == ExecutorSpec => []ExecutorInv
  BY ExecutorInitKeeps, ExecutorStepKeeps, PTL DEF ExecutorSpec

(* execute() returns all the rows of the plan, in order and once each, also *)
(* when the operators were executed before and never closed; only a plan    *)
(* with a filter that its input does not satisfy is failed.                 *)
THEOREM ExecuteAnswers == ExecutorSpec => []ResultIsTheAnswer
<1>1. ExecutorInv => ResultIsTheAnswer
  BY DEF ExecutorInv
<1> QED
  BY <1>1, ExecutorInvariance, PTL
=============================================================================
