-------------------------- MODULE OptimizerProofs --------------------------
(***************************************************************************)
(* Proofs about Optimizer, for plans of any shape and depth: between the   *)
(* transfers and the set_childs of the two passes every node keeps one     *)
(* owner, no output schema becomes stale, and when a call returns the plan *)
(* is a tree of all the nodes it was given.                                *)
(***************************************************************************)
EXTENDS Optimizer, Induction, FiniteSetTheorems

-----------------------------------------------------------------------------
(***************************************************************************)
(* The inductive invariant.                                                *)
(*                                                                         *)
(* A place is where a node may be held: <<"child", m, k>>, <<"root", 0, 0>>*)
(* or <<"ret", 0, 0>>, or a local of activation i, <<s, i, k>>.            *)
(***************************************************************************)
Carried == {"arr", "rgt", "stay"}
Slots == {"node", "cur"} \cup Carried
Places == {<<"root", 0, 0>>, <<"ret", 0, 0>>} \cup (({"child"} \cup Slots) \X Nat \X Nat)

LocalAt(f, s, k) ==
  CASE s = "node" -> IF k = 0 THEN f.node ELSE Null
    [] s = "cur"  -> IF k = 0 THEN f.cur ELSE Null
    [] s = "arr"  -> IF k \in DOMAIN f.arr THEN f.arr[k].filter ELSE Null
    [] s = "rgt"  -> IF k \in DOMAIN f.rgt THEN f.rgt[k].filter ELSE Null
    [] s = "stay" -> IF k \in DOMAIN f.stay THEN f.stay[k] ELSE Null

ChildAt(h, m, k) == IF m \in DOMAIN h /\ k \in DOMAIN h[m].child THEN h[m].child[k] ELSE Null
FrameAt(fr, s, i, k) == IF i \in DOMAIN fr THEN LocalAt(fr[i], s, k) ELSE Null

\* What a place holds, Null if there is no such place.
WhatIn(h, rt, fr, re, p) ==
  CASE p[1] = "root"  -> rt
    [] p[1] = "ret"   -> re
    [] p[1] = "child" -> ChildAt(h, p[2], p[3])
    [] p[1] \in Slots -> FrameAt(fr, p[1], p[2], p[3])

What(p) == WhatIn(heap, root, frames, ret, p)

IsWhole(node) == \A k \in DOMAIN node.child : node.child[k] # Null

Holding == [p \in Places |-> What(p)]
LiveNodes == {n \in DOMAIN heap : Live(n)}

\* Every live node is held in one place, and nothing else is held.
Owned(W, L) ==
  /\ Null \notin L /\ W \in [Places -> {Null} \cup L]
  /\ \A p, q \in Places : (W[p] # Null /\ W[p] = W[q]) => p = q
  /\ \A n \in L : \E p \in Places : W[p] = n

\* A child is missing only below an activation's node or a filter that is carried.
HolesOK ==
  \A p \in Places :
    (What(p) # Null /\ p[1] \in {"root", "ret", "child", "cur"}) => IsWhole(heap[What(p)])

OwnersOK == Owned(Holding, LiveNodes) /\ HolesOK

ArityOK(node) ==
  /\ node.kind = "TableScan" => Len(node.child) = 0
  /\ node.kind \in {"Filter", "Projection"} => Len(node.child) = 1
  /\ node.kind = "BinaryJoin" => Len(node.child) = 2
  /\ node.kind = "MultiJoin" => Len(node.child) > 0
  /\ node.kind = "Destroyed" => Len(node.child) = 0

Formed(h) ==
  /\ h \in Seq(HeapNodes)
  /\ \A n \in DOMAIN h : ArityOK(h[n])
  /\ \A n \in DOMAIN h : \A k \in DOMAIN h[n].child : h[n].child[k] \in {Null} \cup DOMAIN h

HeapOK == Formed(heap)

FrameTypes ==
  [pass : {"choose", "push"}, node : Nat, at : {"enter", "child", "left", "right", "wrap"},
   cur : Nat, done : Nat, arr : Seq(FilterEntries), rgt : Seq(FilterEntries), stay : Seq(Nat)]

\* What a node looks like while an activation works on it.
ChooseShape(f, node) ==
  /\ f.at \in {"enter", "child"}
  /\ f.arr = <<>> /\ f.rgt = <<>> /\ f.stay = <<>>
  /\ node.kind = "TableScan" => f.at = "enter" /\ f.cur = Null
  /\ node.kind \in {"Filter", "Projection", "BinaryJoin"} =>
       /\ f.cur = Null /\ f.done < Len(node.child)
       /\ \A k \in DOMAIN node.child : node.child[k] = Null <=> (f.at = "child" /\ k = f.done + 1)
  /\ node.kind = "MultiJoin" =>
       /\ f.done <= Len(node.child) /\ (f.at = "child" => f.done < Len(node.child))
       /\ f.cur = Null <=> f.done = 0
       /\ \A k \in DOMAIN node.child :
            node.child[k] = Null <=> (k <= f.done \/ (f.at = "child" /\ k = f.done + 1))

PushShape(f, node) ==
  /\ f.cur = Null /\ f.done = 0 /\ node.kind # "MultiJoin"
  /\ f.at = "enter" => IsWhole(node) /\ f.rgt = <<>> /\ f.stay = <<>>
  /\ f.at = "child" =>
       /\ node.kind = "Projection" /\ node.child[1] = Null /\ f.arr = <<>>
       /\ f.rgt = <<>> /\ f.stay = <<>>
  /\ f.at = "left" =>
       node.kind = "BinaryJoin" /\ node.child[1] = Null /\ node.child[2] # Null /\ f.arr = <<>>
  /\ f.at = "right" =>
       /\ node.kind = "BinaryJoin" /\ node.child[1] # Null /\ node.child[2] = Null
       /\ f.arr = <<>> /\ f.rgt = <<>>
  /\ f.at = "wrap" => IsWhole(node) /\ f.arr = <<>> /\ f.rgt = <<>>

\* A filter that is carried has lost its child.
IsLoose(h, n) == n \in DOMAIN h /\ h[n].kind = "Filter" /\ h[n].child[1] = Null

CarriesOK(f, h) ==
  /\ \A k \in DOMAIN f.arr : IsLoose(h, f.arr[k].filter)
  /\ \A k \in DOMAIN f.rgt : IsLoose(h, f.rgt[k].filter)
  /\ \A k \in DOMAIN f.stay : IsLoose(h, f.stay[k])

FrameOK(f, h) ==
  /\ f.node \in DOMAIN h /\ h[f.node].kind # "Destroyed"
  /\ f.cur \in {Null} \cup DOMAIN h
  /\ CarriesOK(f, h)
  /\ f.pass = "choose" => ChooseShape(f, h[f.node])
  /\ f.pass = "push" => PushShape(f, h[f.node])

FramesOK ==
  /\ frames \in Seq(FrameTypes)
  /\ \A i \in DOMAIN frames : FrameOK(frames[i], heap)

Waits(f) == f.at \in {"child", "left", "right"}

\* Only the top activation runs; those below it wait for it, or for ret.
StackOK ==
  /\ \A i \in DOMAIN frames : Waits(frames[i]) <=> (i < Len(frames) \/ ret # Null)
  /\ \A i, j \in DOMAIN frames : frames[i].pass = frames[j].pass
  /\ ret \in {Null} \cup DOMAIN heap /\ root \in {Null} \cup DOMAIN heap
  /\ frames = <<>> => ret = Null
  /\ frames # <<>> => root = Null /\ outcome # "threw"
  /\ (outcome # "threw" /\ frames = <<>>) => root # Null
  /\ outcome = "threw" => passes = <<>>

\* push_down_filter runs on a plan of which every join is in the trie.
TrieOK ==
  (\E i \in DOMAIN frames : frames[i].pass = "push") =>
    /\ ~HasMultiJoin(heap)
    /\ \A n \in DOMAIN heap : heap[n].kind = "BinaryJoin" =>
         \A rel \in DOMAIN join_trie[n] : join_trie[n][rel] \in {"Left", "Right"}

CallsOK ==
  /\ passes \in Seq({"choose", "push"}) /\ custom_optimzers \in Seq({"choose", "push"})
  /\ calls \in 0 .. MaxCalls
  /\ outcome \in {"given", "choose", "push", "threw"}

(***************************************************************************)
(* The schema of a node goes with those of its children -- while a child   *)
(* is away, with that of the node that will come back (Below), and in a    *)
(* multi-way join, with that of the join made of its first children.       *)
(***************************************************************************)
WaitsFor(f) ==
  CASE f.at = "left"  -> 1
    [] f.at = "right" -> 2
    [] OTHER          -> f.done + 1

Below(i) == IF i < Len(frames) THEN frames[i + 1].node ELSE ret

NodeFits(h, n, sc) ==
  /\ sc \in Seq(Schemas) /\ Len(sc) = Len(h[n].child)
  /\ Fits(h[n], sc)
  /\ \A k \in DOMAIN h[n].child : h[n].child[k] # Null => sc[k] = h[h[n].child[k]].schema

FrameFits(h, f, below, sc) ==
  /\ Waits(f) => sc[WaitsFor(f)] = h[below].schema
  /\ f.cur # Null => Joined(sc)[f.done] = h[f.cur].schema

SchemasFit(n, sc) ==
  /\ NodeFits(heap, n, sc)
  /\ \A i \in DOMAIN frames : frames[i].node = n => FrameFits(heap, frames[i], Below(i), sc)

SchemasOK == \A n \in DOMAIN heap : Live(n) => \E sc : SchemasFit(n, sc)

\* No nodes hang below one another in a circle.
Grounded(h) ==
  \A S \in SUBSET DOMAIN h :
    (\A n \in S : \E m \in S : n \in ChildrenOf(h, m)) => S = {}

\* What becomes of the plan that was given to the last call.
GivenOK ==
  /\ given.heap \in Seq(HeapNodes)
  /\ outcome # "threw" =>
       /\ Len(given.heap) <= Len(heap)
       /\ \A n \in DOMAIN given.heap :
            /\ heap[n].cond = given.heap[n].cond /\ heap[n].rel = given.heap[n].rel
            /\ \/ heap[n].kind = given.heap[n].kind
               \/ given.heap[n].kind = "MultiJoin" /\ heap[n].kind = "Destroyed"

StructureOK == HeapOK /\ FramesOK /\ StackOK /\ TrieOK /\ CallsOK

OptimizerInv == StructureOK /\ OwnersOK /\ SchemasOK /\ Grounded(heap) /\ GivenOK

-----------------------------------------------------------------------------
(* The heap *)

LEMMA NodesTyped ==
  ASSUME NEW h \in Seq(HeapNodes), NEW n \in DOMAIN h
  PROVE  /\ h[n] \in HeapNodes /\ n \in Nat \ {0} /\ n <= Len(h) /\ Len(h) \in Nat
         /\ h[n].child \in Seq(Nat) /\ h[n].schema \in Schemas /\ h[n].cond \in Conditions
         /\ h[n].kind \in {"TableScan", "Filter", "Projection", "BinaryJoin", "MultiJoin",
                           "Destroyed"}
<1>1. h[n] \in HeapNodes
  OBVIOUS
<1> QED
  BY <1>1 DEF HeapNodes

\* What the functions on the heap leave of the other nodes, and of a node.
SameBut(g, h, n) ==
  /\ g \in Seq(HeapNodes) /\ Len(g) = Len(h) /\ DOMAIN g = DOMAIN h
  /\ \A m \in DOMAIN h : m # n => g[m] = h[m]
  /\ g[n].kind = h[n].kind /\ g[n].rel = h[n].rel /\ g[n].cond = h[n].cond
  /\ Len(g[n].child) = Len(h[n].child) /\ DOMAIN g[n].child = DOMAIN h[n].child

(* A pointer in a heap is written. *)
Write(h, n, k, c) == [h EXCEPT ![n].child[k] = c]
LEMMA PointerWritten ==
  ASSUME NEW h \in Seq(HeapNodes), NEW n \in DOMAIN h, NEW k \in DOMAIN h[n].child, NEW c \in Nat
  PROVE  LET g == Write(h, n, k, c)
         IN  /\ SameBut(g, h, n) /\ g[n].schema = h[n].schema
             /\ \A j \in DOMAIN h[n].child : g[n].child[j] = IF j = k THEN c ELSE h[n].child[j]
<1> DEFINE g == Write(h, n, k, c)
           ch == h[n].child
           ch2 == [ch EXCEPT ![k] = c]
<1>1. ch \in Seq(Nat) /\ h[n] \in HeapNodes
  BY NodesTyped
<1>2. ch2 \in Seq(Nat) /\ Len(ch2) = Len(ch) /\ DOMAIN ch2 = DOMAIN ch
  <2> HIDE DEF ch
  <2>1. k \in DOMAIN ch
    BY DEF ch
  <2> QED
    BY <1>1, <2>1
<1>3. g = [h EXCEPT ![n] = [h[n] EXCEPT !.child = ch2]]
  BY DEF Write
<1>4. [h[n] EXCEPT !.child = ch2] \in HeapNodes
  <2> HIDE DEF ch, ch2
  <2> QED
    BY <1>1, <1>2 DEF HeapNodes
<1> DEFINE node == [h[n] EXCEPT !.child = ch2]
<1>5. /\ node.kind = h[n].kind /\ node.rel = h[n].rel /\ node.cond = h[n].cond
      /\ node.schema = h[n].schema /\ node.child = ch2
  <2> HIDE DEF ch, ch2
  <2> QED
    BY <1>1 DEF HeapNodes
<1>6. g \in Seq(HeapNodes) /\ Len(g) = Len(h) /\ DOMAIN g = DOMAIN h /\ g[n] = node
      /\ \A m \in DOMAIN h : m # n => g[m] = h[m]
  <2>1. g = [h EXCEPT ![n] = node] /\ node \in HeapNodes
    BY <1>3, <1>4
  <2> HIDE DEF g, node
  <2> QED
    BY <2>1
<1>7. \A j \in DOMAIN ch : ch2[j] = IF j = k THEN c ELSE ch[j]
  OBVIOUS
<1> HIDE DEF g, node, ch, ch2
<1>8. SameBut(g, h, n) /\ g[n].schema = h[n].schema
  BY <1>2, <1>5, <1>6 DEF SameBut, ch
<1>9. \A j \in DOMAIN h[n].child : g[n].child[j] = IF j = k THEN c ELSE h[n].child[j]
  BY <1>5, <1>6, <1>7 DEF ch
<1> QED
  BY <1>8, <1>9 DEF g

LEMMA Transferred ==
  ASSUME NEW h \in Seq(HeapNodes), NEW n \in DOMAIN h, NEW k \in DOMAIN h[n].child
  PROVE  LET g == transfer_child(h, n, k)
         IN  /\ SameBut(g, h, n) /\ g[n].schema = h[n].schema
             /\ \A j \in DOMAIN h[n].child : g[n].child[j] = IF j = k THEN Null ELSE h[n].child[j]
<1>1. Null \in Nat /\ transfer_child(h, n, k) = Write(h, n, k, Null)
  BY DEF Null, transfer_child, Write
<1> QED
  BY <1>1, PointerWritten

-----------------------------------------------------------------------------
(* The call stack *)

SameSlots(f, g) ==
  f.node = g.node /\ f.cur = g.cur /\ f.arr = g.arr /\ f.rgt = g.rgt /\ f.stay = g.stay

LEMMA SameSlotsHold ==
  ASSUME NEW f, NEW g, SameSlots(f, g), NEW s \in Slots, NEW k
  PROVE  LocalAt(f, s, k) = LocalAt(g, s, k)
<1> QED
  BY DEF SameSlots, LocalAt, Slots, Carried

LEMMA FrameTyped ==
  ASSUME NEW f \in FrameTypes
  PROVE  /\ f.pass \in {"choose", "push"} /\ f.node \in Nat
         /\ f.at \in {"enter", "child", "left", "right", "wrap"} /\ f.cur \in Nat /\ f.done \in Nat
         /\ f.arr \in Seq(FilterEntries) /\ f.rgt \in Seq(FilterEntries) /\ f.stay \in Seq(Nat)
<1> QED
  BY DEF FrameTypes

LEMMA EmptyIs ==
  ASSUME NEW S, NEW s \in Seq(S)
  PROVE  s = <<>> <=> Len(s) = 0
<1> QED
  OBVIOUS

LEMMA HereIs ==
  ASSUME frames \in Seq(FrameTypes), frames # <<>>
  PROVE  /\ Here \in FrameTypes /\ Len(frames) \in Nat \ {0} /\ Len(frames) \in DOMAIN frames
         /\ DOMAIN frames = 1 .. Len(frames) /\ Here = frames[Len(frames)]
<1> QED
  BY DEF Here

LEMMA NewFrame ==
  ASSUME NEW pass \in {"choose", "push"}, NEW n \in Nat, NEW arr \in Seq(FilterEntries)
  PROVE  LET f == Frame(pass, n, arr)
         IN  /\ f \in FrameTypes /\ f.pass = pass /\ f.node = n /\ f.at = "enter" /\ f.cur = Null
             /\ f.done = 0 /\ f.arr = arr /\ f.rgt = <<>> /\ f.stay = <<>>
<1> QED
  BY DEF Frame, FrameTypes, Null

LEMMA Continued ==
  ASSUME frames \in Seq(FrameTypes), frames # <<>>, NEW f \in FrameTypes, Continue(f)
  PROVE  /\ frames' \in Seq(FrameTypes) /\ Len(frames') = Len(frames)
         /\ DOMAIN frames' = DOMAIN frames /\ frames' # <<>>
         /\ frames'[Len(frames)] = f
         /\ \A i \in DOMAIN frames : i # Len(frames) => frames'[i] = frames[i]
<1> QED
  BY HereIs DEF Continue

LEMMA Recursed ==
  ASSUME frames \in Seq(FrameTypes), frames # <<>>, NEW f \in FrameTypes, NEW c \in Nat,
         NEW arr \in Seq(FilterEntries), Recurse(f, c, arr)
  PROVE  /\ frames' \in Seq(FrameTypes) /\ Len(frames') = Len(frames) + 1
         /\ DOMAIN frames' = DOMAIN frames \cup {Len(frames) + 1} /\ frames' # <<>>
         /\ frames'[Len(frames)] = f /\ frames'[Len(frames) + 1] = Frame(f.pass, c, arr)
         /\ \A i \in DOMAIN frames : i # Len(frames) => frames'[i] = frames[i]
<1> DEFINE low == [frames EXCEPT ![Len(frames)] = f]
           top == Frame(f.pass, c, arr)
<1>1. low \in Seq(FrameTypes) /\ Len(low) = Len(frames) /\ DOMAIN low = DOMAIN frames
      /\ low[Len(frames)] = f /\ \A i \in DOMAIN frames : i # Len(frames) => low[i] = frames[i]
  BY HereIs
<1>2. top \in FrameTypes
  BY FrameTyped, NewFrame
<1>3. frames' = Append(low, top)
  BY DEF Recurse
<1> HIDE DEF low, top
<1>4. /\ frames' \in Seq(FrameTypes) /\ Len(frames') = Len(low) + 1
      /\ DOMAIN frames' = 1 .. Len(low) + 1
      /\ frames'[Len(low) + 1] = top /\ \A i \in 1 .. Len(low) : frames'[i] = low[i]
  BY <1>1, <1>2, <1>3
<1> QED
  BY <1>1, <1>4, HereIs DEF top

LEMMA GivenBack ==
  ASSUME frames \in Seq(FrameTypes), frames # <<>>, NEW n, GiveBack(n)
  PROVE  /\ frames' \in Seq(FrameTypes) /\ Len(frames') = Len(frames) - 1
         /\ DOMAIN frames' = DOMAIN frames \ {Len(frames)}
         /\ \A i \in DOMAIN frames : i # Len(frames) => frames'[i] = frames[i]
         /\ Len(frames) = 1 => frames' = <<>> /\ root' = n /\ ret' = Null /\ outcome' = Here.pass
         /\ Len(frames) # 1 => frames' # <<>> /\ ret' = n /\ root' = root /\ outcome' = outcome
<1>1. Len(frames) \in Nat \ {0} /\ frames' = SubSeq(frames, 1, Len(frames) - 1)
  BY HereIs DEF GiveBack
<1>2. /\ frames' \in Seq(FrameTypes) /\ Len(frames') = Len(frames) - 1
      /\ \A i \in 1 .. Len(frames) - 1 : frames'[i] = frames[i]
  <2> DEFINE N == Len(frames) - 1
  <2>1. N \in 0 .. Len(frames)
    BY <1>1
  <2> HIDE DEF N
  <2>2. LET s == SubSeq(frames, 1, N)
        IN  s \in Seq(FrameTypes) /\ Len(s) = N /\ \A i \in 1 .. N : s[i] = frames[i]
    BY <2>1
  <2> QED
    BY <1>1, <2>2 DEF N
<1>3. DOMAIN frames' = 1 .. Len(frames) - 1 /\ DOMAIN frames = 1 .. Len(frames)
  BY <1>1, <1>2
<1>4. frames' = <<>> <=> Len(frames) = 1
  <2>1. frames' = <<>> <=> Len(frames') = 0
    BY <1>2, EmptyIs
  <2> QED
    BY <1>1, <1>2, <2>1
<1>5. /\ Len(frames) = 1 => root' = n /\ ret' = Null /\ outcome' = Here.pass
      /\ Len(frames) # 1 => ret' = n /\ root' = root /\ outcome' = outcome
  BY DEF GiveBack
<1> QED
  BY <1>1, <1>2, <1>3, <1>4, <1>5

(* The top activation. *)
LEMMA HereOK ==
  ASSUME StructureOK, frames # <<>>
  PROVE  /\ frames \in Seq(FrameTypes) /\ Here \in FrameTypes
         /\ Len(frames) \in Nat \ {0} /\ Len(frames) \in DOMAIN frames
         /\ DOMAIN frames = 1 .. Len(frames) /\ Here = frames[Len(frames)]
         /\ heap \in Seq(HeapNodes) /\ Here.node \in DOMAIN heap
         /\ Here.node # Null /\ Live(Here.node)
         /\ Here.cur \in {Null} \cup DOMAIN heap
         /\ ret \in {Null} \cup DOMAIN heap /\ root = Null /\ outcome # "threw"
         /\ Here.pass = "choose" => ChooseShape(Here, heap[Here.node])
         /\ Here.pass = "push" => PushShape(Here, heap[Here.node])
         /\ Waits(Here) <=> ret # Null
         /\ FrameOK(Here, heap) /\ ArityOK(heap[Here.node])
         /\ \A k \in DOMAIN heap[Here.node].child :
              heap[Here.node].child[k] \in {Null} \cup DOMAIN heap
<1>1. /\ frames \in Seq(FrameTypes) /\ heap \in Seq(HeapNodes)
      /\ Here \in FrameTypes /\ Len(frames) \in Nat \ {0} /\ Len(frames) \in DOMAIN frames
      /\ DOMAIN frames = 1 .. Len(frames) /\ Here = frames[Len(frames)]
  BY HereIs DEF StructureOK, FramesOK, HeapOK, Formed
<1>2. Here.node \in DOMAIN heap /\ Live(Here.node) /\ Here.cur \in {Null} \cup DOMAIN heap
      /\ (Here.pass = "choose" => ChooseShape(Here, heap[Here.node]))
      /\ (Here.pass = "push" => PushShape(Here, heap[Here.node])) /\ FrameOK(Here, heap)
  BY <1>1 DEF StructureOK, FramesOK, FrameOK, Live
<1>3. Waits(Here) <=> ret # Null
  BY <1>1 DEF StructureOK, StackOK
<1>4. ret \in {Null} \cup DOMAIN heap /\ root = Null /\ outcome # "threw"
  BY DEF StructureOK, StackOK
<1>5. ArityOK(heap[Here.node])
      /\ \A k \in DOMAIN heap[Here.node].child :
           heap[Here.node].child[k] \in {Null} \cup DOMAIN heap
  BY <1>2 DEF StructureOK, HeapOK, Formed
<1>6. Here.node # Null
  BY <1>1, <1>2 DEF Null
<1> QED
  BY <1>1, <1>2, <1>3, <1>4, <1>5, <1>6

-----------------------------------------------------------------------------
(* Places *)

LEMMA PlaceIs ==
  ASSUME NEW p \in Places
  PROVE  /\ p = <<p[1], p[2], p[3]>> /\ p[2] \in Nat /\ p[3] \in Nat
         /\ \/ p = <<"root", 0, 0>> \/ p = <<"ret", 0, 0>>
            \/ p[1] = "child" \/ p[1] \in Slots
<1> QED
  BY DEF Places

LEMMA SomePlaces ==
  /\ <<"root", 0, 0>> \in Places /\ <<"ret", 0, 0>> \in Places
  /\ \A m, k \in Nat : <<"child", m, k>> \in Places
  /\ \A s \in Slots, i, k \in Nat : <<s, i, k>> \in Places
<1> QED
  BY DEF Places

LEMMA WhatNow ==
  /\ What(<<"root", 0, 0>>) = root /\ What(<<"ret", 0, 0>>) = ret
  /\ \A m, k : What(<<"child", m, k>>) = ChildAt(heap, m, k)
  /\ \A s \in Slots : \A i, k : What(<<s, i, k>>) = FrameAt(frames, s, i, k)
<1>1. \A s \in Slots : s \notin {"root", "ret", "child"}
  BY DEF Slots, Carried
<1> QED
  BY <1>1 DEF What, WhatIn

LEMMA WhatNext ==
  /\ What(<<"root", 0, 0>>)' = root' /\ What(<<"ret", 0, 0>>)' = ret'
  /\ \A m, k : What(<<"child", m, k>>)' = ChildAt(heap', m, k)
  /\ \A s \in Slots : \A i, k : What(<<s, i, k>>)' = FrameAt(frames', s, i, k)
<1>1. \A s \in Slots : s \notin {"root", "ret", "child"}
  BY DEF Slots, Carried
<1> QED
  BY <1>1 DEF What, WhatIn

LEMMA WhatIsLocal ==
  ASSUME NEW i \in DOMAIN frames, NEW s \in Slots, NEW k
  PROVE  What(<<s, i, k>>) = LocalAt(frames[i], s, k)
<1>1. s \notin {"root", "ret", "child"}
  BY DEF Slots, Carried
<1>2. What(<<s, i, k>>) = FrameAt(frames, s, i, k)
  BY <1>1 DEF What, WhatIn
<1> QED
  BY <1>2 DEF FrameAt

(* Two ways to hold the nodes that differ in the places of M only. *)
Same(W, V, M, p) == p \notin M => V[p] = W[p]
SameChildren(W, V, M) == \A m, k \in Nat : Same(W, V, M, <<"child", m, k>>)
SameLocals(W, V, M) == \A s \in Slots, i, k \in Nat : Same(W, V, M, <<s, i, k>>)
SameKinds(W, V, M) ==
  /\ Same(W, V, M, <<"root", 0, 0>>) /\ Same(W, V, M, <<"ret", 0, 0>>)
  /\ SameChildren(W, V, M) /\ SameLocals(W, V, M)

LEMMA SameElsewhere ==
  ASSUME NEW W, NEW V, NEW M, SameKinds(W, V, M)
  PROVE  \A p \in Places \ M : V[p] = W[p]
<1> SUFFICES ASSUME NEW p \in Places
             PROVE  Same(W, V, M, p)
  BY DEF Same
<1> USE DEF SameKinds, SameChildren, SameLocals
<1>1. p = <<p[1], p[2], p[3]>> /\ p[2] \in Nat /\ p[3] \in Nat
  BY PlaceIs
<1>2. CASE p = <<"root", 0, 0>> \/ p = <<"ret", 0, 0>>
  BY <1>2
<1>3. CASE p[1] = "child"
  <2>1. p = <<"child", p[2], p[3]>>
    BY <1>1, <1>3
  <2> QED
    BY <1>1, <2>1
<1>4. CASE p[1] \in Slots
  BY <1>1, <1>4
<1> QED
  BY PlaceIs, <1>2, <1>3, <1>4

(* A pointer is moved from place p to place q. *)
Moved(W, p, q) == [W EXCEPT ![p] = Null, ![q] = W[p]]

LEMMA MovedOwned ==
  ASSUME NEW W, NEW L, Owned(W, L), NEW p \in Places, NEW q \in Places, p # q, W[q] = Null
  PROVE  Owned(Moved(W, p, q), L)
<1> DEFINE V == Moved(W, p, q)
<1>1. W \in [Places -> {Null} \cup L]
  BY DEF Owned
<1>2. /\ V \in [Places -> {Null} \cup L] /\ V[p] = Null /\ V[q] = W[p]
      /\ \A r \in Places \ {p, q} : V[r] = W[r]
  BY <1>1 DEF Moved
<1> HIDE DEF V
<1>3. ASSUME NEW r \in Places, NEW t \in Places, V[r] # Null, V[r] = V[t]
      PROVE  r = t
  BY <1>2, <1>3 DEF Owned
<1>4. ASSUME NEW n \in L
      PROVE  \E r \in Places : V[r] = n
  <2>1. PICK r \in Places : W[r] = n
    BY DEF Owned
  <2>2. CASE r = p
    BY <1>2, <2>1, <2>2
  <2>3. CASE r = q
    BY <1>2, <2>1, <2>3
  <2>4. CASE r \notin {p, q}
    BY <1>2, <2>1, <2>4
  <2> QED
    BY <2>2, <2>3, <2>4
<1>5. Owned(V, L)
  BY <1>2, <1>3, <1>4 DEF Owned
<1> QED
  BY <1>5 DEF V

(* The node that is held at p dies. *)
LEMMA DroppedOwned ==
  ASSUME NEW W, NEW L, Owned(W, L), NEW p \in Places, W[p] # Null
  PROVE  Owned([W EXCEPT ![p] = Null], L \ {W[p]})
<1> DEFINE V == [W EXCEPT ![p] = Null]
<1>1. W \in [Places -> {Null} \cup L]
  BY DEF Owned
<1>2. V \in [Places -> {Null} \cup L] /\ V[p] = Null /\ \A r \in Places \ {p} : V[r] = W[r]
  BY <1>1
<1> HIDE DEF V
<1>3. \A r \in Places : V[r] # W[p]
  BY <1>2 DEF Owned
<1>4. V \in [Places -> {Null} \cup (L \ {W[p]})]
  BY <1>2, <1>3
<1>5. ASSUME NEW r \in Places, NEW t \in Places, V[r] # Null, V[r] = V[t]
      PROVE  r = t
  BY <1>2, <1>5 DEF Owned
<1>6. ASSUME NEW n \in L \ {W[p]}
      PROVE  \E r \in Places : V[r] = n
  <2>1. PICK r \in Places : W[r] = n
    BY DEF Owned
  <2> QED
    BY <1>2, <2>1
<1>7. Owned(V, L \ {W[p]})
  BY <1>4, <1>5, <1>6 DEF Owned
<1> QED
  BY <1>7 DEF V

(* A new node is held at p. *)
LEMMA AddedOwned ==
  ASSUME NEW W, NEW L, Owned(W, L), NEW p \in Places, W[p] = Null, NEW n, n \notin L, n # Null
  PROVE  Owned([W EXCEPT ![p] = n], L \cup {n})
<1> DEFINE V == [W EXCEPT ![p] = n]
<1>1. W \in [Places -> {Null} \cup L]
  BY DEF Owned
<1>2. /\ V \in [Places -> {Null} \cup (L \cup {n})] /\ V[p] = n
      /\ \A r \in Places \ {p} : V[r] = W[r] /\ V[r] # n
  BY <1>1
<1> HIDE DEF V
<1>3. ASSUME NEW r \in Places, NEW t \in Places, V[r] # Null, V[r] = V[t]
      PROVE  r = t
  BY <1>2, <1>3 DEF Owned
<1>4. ASSUME NEW m \in L \cup {n}
      PROVE  \E r \in Places : V[r] = m
  <2>1. CASE m = n
    BY <1>2, <2>1
  <2>2. CASE m # n
    <3>1. PICK r \in Places : W[r] = m
      BY <2>2 DEF Owned
    <3>2. m # Null
      BY <2>2 DEF Owned
    <3>3. r # p
      BY <3>1, <3>2
    <3> QED
      BY <1>2, <3>1, <3>3
  <2> QED
    BY <2>1, <2>2
<1>5. Owned(V, L \cup {n})
  BY <1>2, <1>3, <1>4 DEF Owned
<1> QED
  BY <1>5 DEF V

(* The places in M exchange what they hold. *)
Exchanged(W, V, M) ==
  /\ \A q \in M : V[q] # Null => \E p \in M : W[p] = V[q]
  /\ \A p \in M : W[p] # Null => \E q \in M : V[q] = W[p]
  /\ \A q, r \in M : (V[q] # Null /\ V[q] = V[r]) => q = r

LEMMA DealtOwned ==
  ASSUME NEW W, NEW L, Owned(W, L), NEW M \in SUBSET Places, NEW S, NEW V \in [Places -> S],
         \A p \in Places \ M : V[p] = W[p], Exchanged(W, V, M)
  PROVE  Owned(V, L)
<1> USE DEF Exchanged
<1>1. \A p \in Places : V[p] \in {Null} \cup L
  <2>1. \A p \in Places : W[p] \in {Null} \cup L
    BY DEF Owned
  <2> QED
    BY <2>1
<1>2. ASSUME NEW q \in Places, NEW r \in Places, V[q] # Null, V[q] = V[r]
      PROVE  q = r
  <2>1. CASE q \in M /\ r \in M
    BY <1>2, <2>1
  <2>2. CASE q \notin M /\ r \notin M
    BY <1>2, <2>2 DEF Owned
  <2>3. ASSUME NEW a \in M, NEW b \in Places \ M, V[a] # Null, V[a] = V[b]
        PROVE  FALSE
    <3>1. PICK p \in M : W[p] = V[a]
      BY <2>3
    <3>2. p = b
      BY <2>3, <3>1 DEF Owned
    <3> QED
      BY <3>2
  <2> QED
    BY <1>2, <2>1, <2>2, <2>3
<1>3. ASSUME NEW n \in L
      PROVE  \E q \in Places : V[q] = n
  <2>1. PICK p \in Places : W[p] = n /\ n # Null
    BY DEF Owned
  <2> QED
    BY <2>1
<1> QED
  BY <1>1, <1>2, <1>3 DEF Owned

(* What the steps make of an activation. *)
LEMMA FrameCalled ==
  ASSUME NEW f \in FrameTypes
  PROVE  LET g == [f EXCEPT !.at = "child"]
         IN  /\ g \in FrameTypes /\ g.pass = f.pass /\ g.node = f.node /\ g.at = "child"
             /\ g.cur = f.cur /\ g.done = f.done /\ g.arr = f.arr
             /\ g.rgt = f.rgt /\ g.stay = f.stay
<1>1. <<>> \in Seq(FilterEntries)
  OBVIOUS
<1> QED
  BY <1>1 DEF FrameTypes

LEMMA FrameAdvanced ==
  ASSUME NEW f \in FrameTypes
  PROVE  LET g == [f EXCEPT !.at = "enter", !.done = @ + 1]
         IN  /\ g \in FrameTypes /\ g.pass = f.pass /\ g.node = f.node /\ g.at = "enter"
             /\ g.cur = f.cur /\ g.done = f.done + 1 /\ g.arr = f.arr
             /\ g.rgt = f.rgt /\ g.stay = f.stay
<1>1. <<>> \in Seq(FilterEntries)
  OBVIOUS
<1>2. f.done \in Nat /\ f.done + 1 \in Nat
  BY FrameTyped
<1> QED
  BY <1>1, <1>2 DEF FrameTypes

LEMMA FrameJoining ==
  ASSUME NEW f \in FrameTypes, NEW c \in Nat
  PROVE  LET g == [f EXCEPT !.at = "enter", !.done = @ + 1, !.cur = c]
         IN  /\ g \in FrameTypes /\ g.pass = f.pass /\ g.node = f.node /\ g.at = "enter"
             /\ g.cur = c /\ g.done = f.done + 1 /\ g.arr = f.arr
             /\ g.rgt = f.rgt /\ g.stay = f.stay
<1>1. <<>> \in Seq(FilterEntries)
  OBVIOUS
<1>2. f.done \in Nat /\ f.done + 1 \in Nat
  BY FrameTyped
<1> QED
  BY <1>1, <1>2 DEF FrameTypes

LEMMA FrameScanned ==
  ASSUME NEW f \in FrameTypes, NEW s \in Seq(Nat)
  PROVE  LET g == [f EXCEPT !.at = "wrap", !.arr = <<>>, !.stay = s]
         IN  /\ g \in FrameTypes /\ g.pass = f.pass /\ g.node = f.node /\ g.at = "wrap"
             /\ g.cur = f.cur /\ g.done = f.done /\ g.arr = <<>> /\ g.rgt = f.rgt /\ g.stay = s
<1>1. <<>> \in Seq(FilterEntries)
  OBVIOUS
<1> QED
  BY <1>1 DEF FrameTypes

LEMMA FrameFiltered ==
  ASSUME NEW f \in FrameTypes, NEW c \in Nat, NEW a \in Seq(FilterEntries)
  PROVE  LET g == [f EXCEPT !.node = c, !.arr = a]
         IN  /\ g \in FrameTypes /\ g.pass = f.pass /\ g.node = c /\ g.at = f.at
             /\ g.cur = f.cur /\ g.done = f.done /\ g.arr = a /\ g.rgt = f.rgt /\ g.stay = f.stay
<1>1. <<>> \in Seq(FilterEntries)
  OBVIOUS
<1> QED
  BY <1>1 DEF FrameTypes

LEMMA FrameProjected ==
  ASSUME NEW f \in FrameTypes
  PROVE  LET g == [f EXCEPT !.at = "child", !.arr = <<>>]
         IN  /\ g \in FrameTypes /\ g.pass = f.pass /\ g.node = f.node /\ g.at = "child"
             /\ g.cur = f.cur /\ g.done = f.done /\ g.arr = <<>> /\ g.rgt = f.rgt /\ g.stay = f.stay
<1>1. <<>> \in Seq(FilterEntries)
  OBVIOUS
<1> QED
  BY <1>1 DEF FrameTypes

LEMMA FrameDealt ==
  ASSUME NEW f \in FrameTypes, NEW r \in Seq(FilterEntries), NEW s \in Seq(Nat)
  PROVE  LET g == [f EXCEPT !.at = "left", !.arr = <<>>, !.rgt = r, !.stay = s]
         IN  /\ g \in FrameTypes /\ g.pass = f.pass /\ g.node = f.node /\ g.at = "left"
             /\ g.cur = f.cur /\ g.done = f.done /\ g.arr = <<>> /\ g.rgt = r /\ g.stay = s
<1>1. <<>> \in Seq(FilterEntries)
  OBVIOUS
<1> QED
  BY <1>1 DEF FrameTypes

LEMMA FrameTurned ==
  ASSUME NEW f \in FrameTypes
  PROVE  LET g == [f EXCEPT !.at = "right", !.rgt = <<>>]
         IN  /\ g \in FrameTypes /\ g.pass = f.pass /\ g.node = f.node /\ g.at = "right"
             /\ g.cur = f.cur /\ g.done = f.done /\ g.arr = f.arr /\ g.rgt = <<>> /\ g.stay = f.stay
<1>1. <<>> \in Seq(FilterEntries)
  OBVIOUS
<1> QED
  BY <1>1 DEF FrameTypes

LEMMA FrameJoined ==
  ASSUME NEW f \in FrameTypes
  PROVE  LET g == [f EXCEPT !.at = "wrap"]
         IN  /\ g \in FrameTypes /\ g.pass = f.pass /\ g.node = f.node /\ g.at = "wrap"
             /\ g.cur = f.cur /\ g.done = f.done /\ g.arr = f.arr
             /\ g.rgt = f.rgt /\ g.stay = f.stay
<1>1. <<>> \in Seq(FilterEntries)
  OBVIOUS
<1> QED
  BY <1>1 DEF FrameTypes

LEMMA FrameWrapped ==
  ASSUME NEW f \in FrameTypes, NEW c \in Nat, NEW s \in Seq(Nat)
  PROVE  LET g == [f EXCEPT !.node = c, !.stay = s]
         IN  /\ g \in FrameTypes /\ g.pass = f.pass /\ g.node = c /\ g.at = f.at
             /\ g.cur = f.cur /\ g.done = f.done /\ g.arr = f.arr /\ g.rgt = f.rgt /\ g.stay = s
<1>1. <<>> \in Seq(FilterEntries)
  OBVIOUS
<1> QED
  BY <1>1 DEF FrameTypes

(* What the locals of the activations are after a step. *)
LEMMA ContinuedAt ==
  ASSUME frames \in Seq(FrameTypes), frames # <<>>, NEW f \in FrameTypes, Continue(f),
         NEW s, NEW k
  PROVE  /\ \A i : i # Len(frames) => FrameAt(frames', s, i, k) = FrameAt(frames, s, i, k)
         /\ FrameAt(frames', s, Len(frames), k) = LocalAt(f, s, k)
         /\ FrameAt(frames, s, Len(frames), k) = LocalAt(Here, s, k)
<1> QED
  BY Continued, HereIs DEF FrameAt

LEMMA RecursedAt ==
  ASSUME frames \in Seq(FrameTypes), frames # <<>>, NEW f \in FrameTypes, NEW c \in Nat,
         NEW arr \in Seq(FilterEntries), Recurse(f, c, arr), NEW s, NEW k
  PROVE  /\ \A i : i \notin {Len(frames), Len(frames) + 1} =>
                     FrameAt(frames', s, i, k) = FrameAt(frames, s, i, k)
         /\ FrameAt(frames', s, Len(frames), k) = LocalAt(f, s, k)
         /\ FrameAt(frames', s, Len(frames) + 1, k) = LocalAt(Frame(f.pass, c, arr), s, k)
         /\ FrameAt(frames, s, Len(frames), k) = LocalAt(Here, s, k)
         /\ FrameAt(frames, s, Len(frames) + 1, k) = Null
<1>1. Len(frames) \in Nat /\ Len(frames) \in DOMAIN frames /\ Len(frames) + 1 \notin DOMAIN frames
      /\ Here = frames[Len(frames)]
  BY HereIs
<1>2. /\ DOMAIN frames' = DOMAIN frames \cup {Len(frames) + 1}
      /\ frames'[Len(frames)] = f /\ frames'[Len(frames) + 1] = Frame(f.pass, c, arr)
      /\ \A i \in DOMAIN frames : i # Len(frames) => frames'[i] = frames[i]
  BY Recursed
<1> QED
  BY <1>1, <1>2 DEF FrameAt

LEMMA GivenBackAt ==
  ASSUME frames \in Seq(FrameTypes), frames # <<>>, NEW n, GiveBack(n), NEW s, NEW k
  PROVE  /\ \A i : i # Len(frames) => FrameAt(frames', s, i, k) = FrameAt(frames, s, i, k)
         /\ FrameAt(frames', s, Len(frames), k) = Null
         /\ FrameAt(frames, s, Len(frames), k) = LocalAt(Here, s, k)
<1> QED
  BY GivenBack, HereIs DEF FrameAt

(* The locals of an activation, one by one. *)
LEMMA LocalIs ==
  ASSUME NEW f, NEW k
  PROVE  /\ LocalAt(f, "node", k) = IF k = 0 THEN f.node ELSE Null
         /\ LocalAt(f, "cur", k) = IF k = 0 THEN f.cur ELSE Null
         /\ LocalAt(f, "arr", k) = IF k \in DOMAIN f.arr THEN f.arr[k].filter ELSE Null
         /\ LocalAt(f, "rgt", k) = IF k \in DOMAIN f.rgt THEN f.rgt[k].filter ELSE Null
         /\ LocalAt(f, "stay", k) = IF k \in DOMAIN f.stay THEN f.stay[k] ELSE Null
<1> QED
  BY DEF LocalAt

(* Only child k of node n is written, with c. *)
WritesIn(h, g, n, k, c) ==
  /\ n \in DOMAIN h /\ k \in DOMAIN h[n].child /\ SameBut(g, h, n)
  /\ \A j \in DOMAIN h[n].child : g[n].child[j] = IF j = k THEN c ELSE h[n].child[j]

Writes(n, k, c) == WritesIn(heap, heap', n, k, c)

LEMMA SlotWritten ==
  ASSUME NEW h, NEW g, NEW n, NEW k, NEW c, WritesIn(h, g, n, k, c)
  PROVE  /\ ChildAt(g, n, k) = c /\ ChildAt(h, n, k) = h[n].child[k]
         /\ \A m, j : (m # n \/ j # k) => ChildAt(g, m, j) = ChildAt(h, m, j)
<1> QED
  BY DEF SameBut, ChildAt, WritesIn

LEMMA SameLive ==
  ASSUME NEW n \in DOMAIN heap, SameBut(heap', heap, n)
  PROVE  /\ DOMAIN heap' = DOMAIN heap
         /\ \A m \in DOMAIN heap : heap'[m].kind = heap[m].kind /\ (Live(m)' <=> Live(m))
<1> QED
  BY DEF SameBut, Live

-----------------------------------------------------------------------------
(* Filters that activations carry *)

Has(f, n) == \E s \in Carried, k \in Nat : LocalAt(f, s, k) = n

Single(f) ==
  \A s, t \in Carried, j, k \in Nat :
    (LocalAt(f, s, j) # Null /\ LocalAt(f, s, j) = LocalAt(f, t, k)) => s = t /\ j = k

\* What activation o carries is dealt out to f and g.
Dealt(o, f, g) ==
  /\ Single(f) /\ Single(g)
  /\ \A n : n # Null => (Has(o, n) <=> (Has(f, n) \/ Has(g, n))) /\ ~(Has(f, n) /\ Has(g, n))

\* The place of every carried filter of activation i.
CarriedBy(i) == {<<s, i, k>> : s \in Carried, k \in Nat}

LEMMA CarriedPlaces ==
  ASSUME NEW i \in Nat
  PROVE  CarriedBy(i) \subseteq Places
<1> QED
  BY DEF CarriedBy, Places, Slots

Unladen(f) == f.arr = <<>> /\ f.rgt = <<>> /\ f.stay = <<>>

LEMMA Idle ==
  ASSUME NEW f, Unladen(f)
  PROVE  Single(f) /\ \A n : n # Null => ~Has(f, n)
<1>1. \A s \in Carried, k \in Nat : LocalAt(f, s, k) = Null
  BY LocalIs DEF Carried, Unladen
<1> QED
  BY <1>1 DEF Single, Has

(* The filters of an activation are different nodes. *)
LEMMA CarriedOnce ==
  ASSUME frames \in Seq(FrameTypes), OwnersOK, NEW i \in DOMAIN frames
  PROVE  Single(frames[i])
<1> SUFFICES ASSUME NEW s \in Carried, NEW t \in Carried, NEW j \in Nat, NEW k \in Nat,
                    LocalAt(frames[i], s, j) # Null,
                    LocalAt(frames[i], s, j) = LocalAt(frames[i], t, k)
             PROVE  s = t /\ j = k
  BY DEF Single
<1>1. i \in Nat /\ s \in Slots /\ t \in Slots
  BY DEF Slots
<1>2. <<s, i, j>> \in Places /\ <<t, i, k>> \in Places
  BY <1>1, SomePlaces
<1>3. What(<<s, i, j>>) = LocalAt(frames[i], s, j) /\ What(<<t, i, k>>) = LocalAt(frames[i], t, k)
  BY <1>1, WhatIsLocal
<1>4. <<s, i, j>> = <<t, i, k>>
  BY <1>2, <1>3 DEF OwnersOK, Owned, Holding
<1> QED
  BY <1>4

-----------------------------------------------------------------------------
(* Who owns what after a step *)

LEMMA HoldsNow ==
  /\ Holding[<<"root", 0, 0>>] = root /\ Holding[<<"ret", 0, 0>>] = ret
  /\ \A m, k \in Nat : Holding[<<"child", m, k>>] = ChildAt(heap, m, k)
  /\ \A s \in Slots : \A i, k \in Nat : Holding[<<s, i, k>>] = FrameAt(frames, s, i, k)
<1> QED
  BY WhatNow, SomePlaces DEF Holding

LEMMA HoldsNext ==
  /\ Holding'[<<"root", 0, 0>>] = root' /\ Holding'[<<"ret", 0, 0>>] = ret'
  /\ \A m, k \in Nat : Holding'[<<"child", m, k>>] = ChildAt(heap', m, k)
  /\ \A s \in Slots : \A i, k \in Nat : Holding'[<<s, i, k>>] = FrameAt(frames', s, i, k)
<1> QED
  BY WhatNext, SomePlaces DEF Holding

LEMMA HoldingTyped ==
  ASSUME OwnersOK
  PROVE  /\ Owned(Holding, LiveNodes) /\ Holding \in [Places -> {Null} \cup LiveNodes]
         /\ Holding' \in [Places -> {Holding'[p] : p \in Places}]
<1> QED
  BY DEF OwnersOK, Owned, Holding

(* The carried filters of an activation are dealt out to it and to a new one. *)
Called(W, V, o, f, g, i) ==
  \A s \in Slots, x \in Nat :
    /\ W[<<s, i, x>>] = LocalAt(o, s, x) /\ W[<<s, i + 1, x>>] = Null
    /\ V[<<s, i, x>>] = LocalAt(f, s, x) /\ V[<<s, i + 1, x>>] = LocalAt(g, s, x)

LEMMA LoadDealt ==
  ASSUME NEW o, NEW f, NEW g, Dealt(o, f, g), NEW i \in Nat, NEW W, NEW V,
         Called(W, V, o, f, g, i)
  PROVE  Exchanged(W, V, CarriedBy(i) \cup CarriedBy(i + 1))
<1> DEFINE M == CarriedBy(i) \cup CarriedBy(i + 1)
<1>1. \A s \in Carried, x \in Nat :
        /\ W[<<s, i, x>>] = LocalAt(o, s, x) /\ W[<<s, i + 1, x>>] = Null
        /\ V[<<s, i, x>>] = LocalAt(f, s, x) /\ V[<<s, i + 1, x>>] = LocalAt(g, s, x)
  BY DEF Slots, Called
<1>2. \A s \in Carried, x \in Nat : <<s, i, x>> \in M /\ <<s, i + 1, x>> \in M
  BY DEF CarriedBy
<1>3. \A p \in M : \E s \in Carried, x \in Nat : p = <<s, i, x>> \/ p = <<s, i + 1, x>>
  BY DEF CarriedBy
<1> HIDE DEF M
<1>4. \A n : n # Null => (Has(o, n) <=> (Has(f, n) \/ Has(g, n))) /\ ~(Has(f, n) /\ Has(g, n))
  BY DEF Dealt
<1>5. ASSUME NEW q \in M, V[q] # Null
      PROVE  \E p \in M : W[p] = V[q]
  <2>1. PICK s \in Carried, x \in Nat : q = <<s, i, x>> \/ q = <<s, i + 1, x>>
    BY <1>3
  <2>2. V[q] = LocalAt(f, s, x) \/ V[q] = LocalAt(g, s, x)
    BY <1>1, <2>1
  <2>3. Has(f, V[q]) \/ Has(g, V[q])
    BY <2>2 DEF Has
  <2>4. Has(o, V[q])
    BY <1>4, <1>5, <2>3
  <2>5. PICK t \in Carried, y \in Nat : LocalAt(o, t, y) = V[q]
    BY <2>4 DEF Has
  <2> QED
    BY <1>1, <1>2, <2>5
<1>6. ASSUME NEW p \in M, W[p] # Null
      PROVE  \E q \in M : V[q] = W[p]
  <2>1. PICK s \in Carried, x \in Nat : p = <<s, i, x>> \/ p = <<s, i + 1, x>>
    BY <1>3
  <2>2. W[p] = LocalAt(o, s, x)
    BY <1>1, <1>6, <2>1
  <2>3. Has(o, W[p])
    BY <2>2 DEF Has
  <2>4. Has(f, W[p]) \/ Has(g, W[p])
    BY <1>4, <1>6, <2>3
  <2>5. CASE Has(f, W[p])
    BY <1>1, <1>2, <2>5 DEF Has
  <2>6. CASE Has(g, W[p])
    BY <1>1, <1>2, <2>6 DEF Has
  <2> QED
    BY <2>4, <2>5, <2>6
<1>7. ASSUME NEW q \in M, NEW r \in M, V[q] # Null, V[q] = V[r]
      PROVE  q = r
  <2>1. PICK s \in Carried, x \in Nat : q = <<s, i, x>> \/ q = <<s, i + 1, x>>
    BY <1>3
  <2>2. PICK t \in Carried, y \in Nat : r = <<t, i, y>> \/ r = <<t, i + 1, y>>
    BY <1>3
  <2>3. CASE q = <<s, i, x>> /\ r = <<t, i, y>>
    <3>1. LocalAt(f, s, x) # Null /\ LocalAt(f, s, x) = LocalAt(f, t, y)
      BY <1>1, <1>7, <2>3
    <3>2. s = t /\ x = y
      BY <3>1 DEF Dealt, Single
    <3> QED
      BY <2>3, <3>2
  <2>4. CASE q = <<s, i + 1, x>> /\ r = <<t, i + 1, y>>
    <3>1. LocalAt(g, s, x) # Null /\ LocalAt(g, s, x) = LocalAt(g, t, y)
      BY <1>1, <1>7, <2>4
    <3>2. s = t /\ x = y
      BY <3>1 DEF Dealt, Single
    <3> QED
      BY <2>4, <3>2
  <2>5. CASE q = <<s, i, x>> /\ r = <<t, i + 1, y>>
    <3>1. Has(f, V[q]) /\ Has(g, V[q])
      BY <1>1, <1>7, <2>5 DEF Has
    <3> QED
      BY <1>4, <1>7, <3>1
  <2>6. CASE q = <<s, i + 1, x>> /\ r = <<t, i, y>>
    <3>1. Has(f, V[q]) /\ Has(g, V[q])
      BY <1>1, <1>7, <2>6 DEF Has
    <3> QED
      BY <1>4, <1>7, <3>1
  <2> QED
    BY <2>1, <2>2, <2>3, <2>4, <2>5, <2>6
<1> QED
  BY <1>5, <1>6, <1>7 DEF M, Exchanged

(***************************************************************************)
(* A call: child k goes to a new activation, with its share of the filters *)
(* that were carried; a result that was waiting becomes child j.           *)
(***************************************************************************)
Takes(k, j, f, arr) ==
  LET n == Here.node
      c == heap[n].child[k]
  IN  /\ k \in DOMAIN heap[n].child /\ c # Null /\ j \in DOMAIN heap[n].child
      /\ SameBut(heap', heap, n)
      /\ \A m, i \in Nat : (m # n \/ i \notin {j, k}) => ChildAt(heap', m, i) = ChildAt(heap, m, i)
      /\ ChildAt(heap', n, k) = Null
      /\ IF j = k THEN ret = Null ELSE ChildAt(heap, n, j) = Null /\ ChildAt(heap', n, j) = ret
      /\ root' = root /\ ret' = Null
      /\ f \in FrameTypes /\ arr \in Seq(FilterEntries) /\ Recurse(f, c, arr)
      /\ f.node = n /\ f.cur = Here.cur /\ Dealt(Here, f, Frame(f.pass, c, arr))

LEMMA TakenLocals ==
  ASSUME StructureOK, frames # <<>>, NEW k, NEW j, NEW f, NEW arr, Takes(k, j, f, arr)
  PROVE  LET N == Len(frames)
             c == heap[Here.node].child[k]
             g == Frame(f.pass, c, arr)
         IN  /\ \A s \in Slots, i, x \in Nat : i \notin {N, N + 1} =>
                  Holding'[<<s, i, x>>] = Holding[<<s, i, x>>]
             /\ Called(Holding, Holding', Here, f, g, N)
             /\ g.node = c /\ g.cur = Null /\ N \in Nat \ {0}
<1> DEFINE N == Len(frames)
           c == heap[Here.node].child[k]
           g == Frame(f.pass, c, arr)
<1>1. /\ frames \in Seq(FrameTypes) /\ N \in Nat \ {0}
  BY HereOK
<1>2. /\ f \in FrameTypes /\ arr \in Seq(FilterEntries)
      /\ Recurse(f, c, arr) /\ f.pass \in {"choose", "push"}
  BY FrameTyped DEF Takes
<1>3. c \in Nat
  <2>1. /\ heap \in Seq(HeapNodes) /\ Here.node \in DOMAIN heap
    BY HereOK
  <2>2. k \in DOMAIN heap[Here.node].child
    BY DEF Takes
  <2> QED
    BY <2>1, <2>2, NodesTyped
<1> HIDE DEF N, c, g
<1>4. g.node = c /\ g.cur = Null
  BY <1>2, <1>3, NewFrame DEF g
<1>5. ASSUME NEW s \in Slots, NEW x \in Nat
      PROVE  /\ \A i \in Nat : i \notin {N, N + 1}
                  => FrameAt(frames', s, i, x) = FrameAt(frames, s, i, x)
             /\ FrameAt(frames', s, N, x) = LocalAt(f, s, x)
             /\ FrameAt(frames', s, N + 1, x) = LocalAt(g, s, x)
             /\ FrameAt(frames, s, N, x) = LocalAt(Here, s, x)
             /\ FrameAt(frames, s, N + 1, x) = Null
  <2>1. /\ \A i : i \notin {Len(frames), Len(frames) + 1} =>
                     FrameAt(frames', s, i, x) = FrameAt(frames, s, i, x)
        /\ FrameAt(frames', s, Len(frames), x) = LocalAt(f, s, x)
        /\ FrameAt(frames', s, Len(frames) + 1, x) = LocalAt(Frame(f.pass, c, arr), s, x)
        /\ FrameAt(frames, s, Len(frames), x) = LocalAt(Here, s, x)
        /\ FrameAt(frames, s, Len(frames) + 1, x) = Null
    BY <1>1, <1>2, <1>3, RecursedAt
  <2> QED
    BY <2>1 DEF N, g
<1>6. \A s \in Slots, i, x \in Nat : /\ Holding[<<s, i, x>>] = FrameAt(frames, s, i, x)
                                     /\ Holding'[<<s, i, x>>] = FrameAt(frames', s, i, x)
  BY HoldsNow, HoldsNext
<1>7. N + 1 \in Nat
  BY <1>1
<1>8. \A s \in Slots, i, x \in Nat : i \notin {N, N + 1}
      => Holding'[<<s, i, x>>] = Holding[<<s, i, x>>]
  BY <1>5, <1>6
<1>9. Called(Holding, Holding', Here, f, g, N)
  BY <1>1, <1>5, <1>6, <1>7 DEF Called
<1> QED
  BY <1>1, <1>4, <1>8, <1>9 DEF N, c, g

TakesOver(W, V, o, f, g, N, n, k, j) ==
  /\ Dealt(o, f, g) /\ f.node = o.node /\ f.cur = o.cur
  /\ g.node = W[<<"child", n, k>>] /\ g.cur = Null
  /\ Called(W, V, o, f, g, N)
  /\ \A s \in Slots, i, x \in Nat : i \notin {N, N + 1} => V[<<s, i, x>>] = W[<<s, i, x>>]
  /\ \A m, i \in Nat : (m # n \/ i \notin {j, k}) => V[<<"child", m, i>>] = W[<<"child", m, i>>]
  /\ V[<<"child", n, k>>] = Null
  /\ IF j = k THEN W[<<"ret", 0, 0>>] = Null
     ELSE W[<<"child", n, j>>] = Null /\ V[<<"child", n, j>>] = W[<<"ret", 0, 0>>]
  /\ V[<<"ret", 0, 0>>] = Null /\ V[<<"root", 0, 0>>] = W[<<"root", 0, 0>>]

LEMMA TakeMoves ==
  ASSUME NEW W, NEW V, NEW L, Owned(W, L), NEW S, V \in [Places -> S],
         NEW N \in Nat, NEW n \in Nat, NEW k \in Nat, NEW j \in Nat,
         NEW o, NEW f, NEW g, TakesOver(W, V, o, f, g, N, n, k, j)
  PROVE  Owned(V, L)
<1> USE DEF TakesOver
<1> DEFINE pk == <<"child", n, k>>
           pj == <<"child", n, j>>
           pr == <<"ret", 0, 0>>
           pn == <<"node", N + 1, 0>>
           M == CarriedBy(N) \cup CarriedBy(N + 1)
           A == Moved(W, pk, pn)
           B == IF j = k THEN A ELSE Moved(A, pr, pj)
<1>1. pk \in Places /\ pj \in Places /\ pr \in Places /\ pn \in Places /\ M \subseteq Places
  <2>1. N + 1 \in Nat /\ "node" \in Slots
    BY DEF Slots
  <2> QED
    BY <2>1, SomePlaces, CarriedPlaces
<1>2. pk # pn /\ pr # pj /\ pr # pk /\ pr # pn /\ pj # pn /\ (j # k => pj # pk)
  OBVIOUS
<1>3. W[pn] = Null /\ V[pn] = W[pk]
  <2>1. "node" \in Slots /\ 0 \in Nat
    BY DEF Slots
  <2>2. W[<<"node", N + 1, 0>>] = Null /\ V[<<"node", N + 1, 0>>] = LocalAt(g, "node", 0)
    BY <2>1 DEF Called
  <2> QED
    BY <2>2, LocalIs
<1>4. W \in [Places -> {Null} \cup L]
  BY DEF Owned
<1>5. /\ V[pk] = Null /\ V[pr] = Null
      /\ j = k => W[pr] = Null
      /\ j # k => W[pj] = Null /\ V[pj] = W[pr]
  OBVIOUS
<1>6. \A p \in Places \ (M \cup {pk, pj, pr, pn}) : V[p] = W[p]
  <2> DEFINE MM == M \cup {pk, pj, pr, pn}
  <2>1. ASSUME NEW s \in Slots, NEW i \in Nat, NEW x \in Nat, <<s, i, x>> \notin MM
        PROVE  V[<<s, i, x>>] = W[<<s, i, x>>]
    <3>1. CASE i \notin {N, N + 1}
      BY <3>1
    <3>2. CASE i \in {N, N + 1}
      <4>1. s \notin Carried
        BY <2>1, <3>2 DEF CarriedBy
      <4>2. s = "node" \/ s = "cur"
        BY <4>1 DEF Slots
      <4>3. CASE i = N
        <5>1. LocalAt(o, s, x) = LocalAt(f, s, x)
          BY <4>2, LocalIs
        <5>2. V[<<s, N, x>>] = LocalAt(f, s, x) /\ W[<<s, N, x>>] = LocalAt(o, s, x)
          BY DEF Called
        <5> QED
          BY <4>3, <5>1, <5>2
      <4>4. CASE i = N + 1
        <5>1. s = "node" => x # 0
          BY <2>1, <4>4
        <5>2. LocalAt(g, s, x) = Null
          BY <4>2, <5>1, LocalIs
        <5> QED
          BY <4>4, <5>2 DEF Called
      <4> QED
        BY <3>2, <4>3, <4>4
    <3> QED
      BY <3>1, <3>2
  <2>2. ASSUME NEW m \in Nat, NEW i \in Nat, <<"child", m, i>> \notin MM
        PROVE  V[<<"child", m, i>>] = W[<<"child", m, i>>]
    BY <2>2
  <2>3. <<"ret", 0, 0>> \in MM
    OBVIOUS
  <2> HIDE DEF MM
  <2>4. SameKinds(W, V, MM)
    BY <2>1, <2>2, <2>3 DEF SameKinds, SameChildren, SameLocals, Same
  <2>5. \A p \in Places \ MM : V[p] = W[p]
    BY <2>4, SameElsewhere
  <2> QED
    BY <2>5 DEF MM
<1>7. /\ A \in [Places -> {Null} \cup L] /\ A[pk] = Null /\ A[pn] = W[pk]
      /\ \A p \in Places \ {pk, pn} : A[p] = W[p]
  BY <1>1, <1>2, <1>4 DEF Moved
<1>8. Owned(A, L)
  BY <1>1, <1>2, <1>3, MovedOwned
<1>9. pk \notin M /\ pj \notin M /\ pr \notin M /\ pn \notin M
  BY DEF CarriedBy, Carried
<1> HIDE DEF pk, pj, pr, pn, M, A
<1>10. Owned(B, L) /\ \A p \in Places \ M : V[p] = B[p]
  <2>1. CASE j = k
    <3>1. pj = pk
      BY <2>1 DEF pj, pk
    <3> QED
      BY <1>1, <1>3, <1>5, <1>6, <1>7, <1>8, <2>1, <3>1
  <2>2. CASE j # k
    <3> DEFINE D == Moved(A, pr, pj)
    <3>1. Owned(D, L)
      BY <1>1, <1>2, <1>5, <1>7, <1>8, <2>2, MovedOwned
    <3>2. /\ D[pr] = Null /\ D[pj] = A[pr] /\ \A p \in Places \ {pr, pj} : D[p] = A[p]
      BY <1>1, <1>2, <1>7 DEF Moved
    <3>3. B = D
      BY <2>2
    <3> HIDE DEF D, B
    <3>4. \A p \in Places \ M : V[p] = D[p]
      BY <1>1, <1>2, <1>3, <1>5, <1>6, <1>7, <2>2, <3>2
    <3> QED
      BY <3>1, <3>3, <3>4
  <2> QED
    BY <2>1, <2>2
<1>11. \A p \in M : B[p] = W[p]
  <2>1. \A p \in M : p \in Places \ {pk, pj, pr, pn}
    BY <1>1, <1>9
  <2>2. CASE j = k
    BY <2>1, <2>2, <1>7
  <2>3. CASE j # k
    <3>1. \A p \in Places \ {pr, pj} : Moved(A, pr, pj)[p] = A[p]
      BY <1>1, <1>2, <1>7 DEF Moved
    <3> QED
      BY <2>1, <2>3, <3>1, <1>7
  <2> QED
    BY <2>2, <2>3
<1>12. Exchanged(W, V, M)
  BY LoadDealt DEF M
<1> HIDE DEF B
<1>13. Exchanged(B, V, M)
  BY <1>11, <1>12 DEF Exchanged
<1> QED
  BY <1>1, <1>10, <1>13, DealtOwned

LEMMA SameLiveNodes ==
  ASSUME NEW n \in DOMAIN heap, SameBut(heap', heap, n)
  PROVE  LiveNodes' = LiveNodes
<1> QED
  BY SameLive DEF LiveNodes

LEMMA TakeOwners ==
  ASSUME StructureOK, OwnersOK, frames # <<>>, NEW k, NEW j, NEW f, NEW arr, Takes(k, j, f, arr)
  PROVE  Owned(Holding, LiveNodes)'
<1> DEFINE n == Here.node
           N == Len(frames)
           c == heap[Here.node].child[k]
           g == Frame(f.pass, c, arr)
<1>1. /\ n \in Nat /\ n \in DOMAIN heap /\ heap \in Seq(HeapNodes)
  BY HereOK, NodesTyped
<1>2. k \in Nat /\ j \in Nat /\ k \in DOMAIN heap[n].child /\ j \in DOMAIN heap[n].child
  <2>1. k \in DOMAIN heap[n].child /\ j \in DOMAIN heap[n].child
    BY DEF Takes
  <2>2. heap[n].child \in Seq(Nat)
    BY <1>1, NodesTyped
  <2> QED
    BY <2>1, <2>2
<1>3. /\ \A s \in Slots, i, x \in Nat : i \notin {N, N + 1} =>
           Holding'[<<s, i, x>>] = Holding[<<s, i, x>>]
      /\ Called(Holding, Holding', Here, f, g, N)
      /\ g.node = c /\ g.cur = Null /\ N \in Nat
  BY TakenLocals
<1>4. /\ Dealt(Here, f, g) /\ f.node = n /\ f.cur = Here.cur
      /\ \A m, i \in Nat : (m # n \/ i \notin {j, k}) => ChildAt(heap', m, i) = ChildAt(heap, m, i)
      /\ ChildAt(heap', n, k) = Null
      /\ IF j = k THEN ret = Null ELSE ChildAt(heap, n, j) = Null /\ ChildAt(heap', n, j) = ret
      /\ root' = root /\ ret' = Null /\ SameBut(heap', heap, n)
  BY DEF Takes
<1>5. ChildAt(heap, n, k) = c
  BY <1>1, <1>2 DEF ChildAt
<1> DEFINE W == Holding
           V == Holding'
           L == LiveNodes
           S == {Holding'[p] : p \in Places}
           o == Here
<1> HIDE DEF n, N, c, g
<1>10. /\ \A m, i \in Nat : /\ W[<<"child", m, i>>] = ChildAt(heap, m, i)
                            /\ V[<<"child", m, i>>] = ChildAt(heap', m, i)
       /\ W[<<"ret", 0, 0>>] = ret /\ V[<<"ret", 0, 0>>] = ret'
       /\ W[<<"root", 0, 0>>] = root /\ V[<<"root", 0, 0>>] = root'
  BY HoldsNow, HoldsNext
<1>9. Owned(Holding, LiveNodes) /\ Holding' \in [Places -> {Holding'[p] : p \in Places}]
  BY HoldingTyped
<1>8. LiveNodes' = LiveNodes
  BY <1>1, <1>4, SameLiveNodes
<1>11. /\ Owned(W, L) /\ V \in [Places -> S] /\ Called(W, V, o, f, g, N) /\ Dealt(o, f, g)
       /\ f.node = o.node /\ f.cur = o.cur
       /\ \A s \in Slots, i, x \in Nat : i \notin {N, N + 1} => V[<<s, i, x>>] = W[<<s, i, x>>]
  BY <1>3, <1>4, <1>9 DEF n
<1> HIDE DEF W, V, L, S, o
<1>12. /\ g.node = W[<<"child", n, k>>] /\ V[<<"child", n, k>>] = Null
       /\ \A m, i \in Nat : (m # n \/ i \notin {j, k})
            => V[<<"child", m, i>>] = W[<<"child", m, i>>]
  BY <1>1, <1>2, <1>3, <1>4, <1>5, <1>10
<1>13. /\ IF j = k THEN W[<<"ret", 0, 0>>] = Null
          ELSE W[<<"child", n, j>>] = Null /\ V[<<"child", n, j>>] = W[<<"ret", 0, 0>>]
       /\ V[<<"ret", 0, 0>>] = Null /\ V[<<"root", 0, 0>>] = W[<<"root", 0, 0>>]
  BY <1>1, <1>2, <1>4, <1>10
<1>14. TakesOver(W, V, o, f, g, N, n, k, j)
  BY <1>3, <1>11, <1>12, <1>13 DEF TakesOver
<1>15. Owned(V, L)
  BY <1>1, <1>2, <1>3, <1>11, <1>14, TakeMoves
<1> QED
  BY <1>8, <1>15 DEF V, L

(* Pointers were moved between few places: V is what W has become, B says how. *)
LEMMA AgreedOwned ==
  ASSUME NEW W, NEW V, NEW B, NEW L, NEW S, Owned(B, L), V \in [Places -> S],
         NEW Few \in SUBSET Places, SameKinds(W, V, Few),
         \A p \in Places \ Few : B[p] = W[p],
         \A p \in Few : V[p] = B[p]
  PROVE  Owned(V, L)
<1>1. \A p \in Places : V[p] = B[p]
  BY SameElsewhere
<1>2. B \in [Places -> {Null} \cup L]
  BY DEF Owned
<1> QED
  BY <1>1, <1>2 DEF Owned

IsMove(W, V, p, q) ==
  /\ p \in Places /\ q \in Places /\ p # q
  /\ W[q] = Null /\ V[q] = W[p] /\ V[p] = Null
  /\ SameKinds(W, V, {p, q})

LEMMA OneMove ==
  ASSUME NEW W, NEW V, NEW L, NEW S, Owned(W, L), V \in [Places -> S],
         NEW p, NEW q, IsMove(W, V, p, q)
  PROVE  Owned(V, L)
<1> USE DEF IsMove
<1> DEFINE B == Moved(W, p, q)
<1>1. Owned(B, L)
  BY MovedOwned
<1>2. B[p] = Null /\ B[q] = W[p] /\ \A r \in Places \ {p, q} : B[r] = W[r]
  BY DEF Moved, Owned
<1> HIDE DEF B
<1> DEFINE Few == {p, q}
<1>3. Few \in SUBSET Places /\ SameKinds(W, V, Few) /\ \A x \in Few : V[x] = B[x]
  BY <1>2
<1>4. \A x \in Places \ Few : B[x] = W[x]
  BY <1>2
<1> HIDE DEF Few
<1> QED
  BY <1>1, <1>3, <1>4, AgreedOwned

\* First from p to q, then from r to t, which may be p.
AreMoves(W, V, p, q, r, t) ==
  /\ p \in Places /\ q \in Places /\ p # q /\ W[q] = Null /\ V[q] = W[p]
  /\ r \in Places /\ t \in Places /\ r \notin {p, q, t} /\ V[r] = Null /\ V[t] = W[r]
  /\ t # p => t # q /\ W[t] = Null /\ V[p] = Null
  /\ SameKinds(W, V, {p, q, r, t})

LEMMA TwoMoves ==
  ASSUME NEW W, NEW V, NEW L, NEW S, Owned(W, L), V \in [Places -> S],
         NEW p, NEW q, NEW r, NEW t, AreMoves(W, V, p, q, r, t)
  PROVE  Owned(V, L)
<1> USE DEF AreMoves
<1> DEFINE A == Moved(W, p, q)
           B == Moved(A, r, t)
<1>1. Owned(A, L)
  BY MovedOwned
<1>2. A[p] = Null /\ A[q] = W[p] /\ \A x \in Places \ {p, q} : A[x] = W[x]
  BY DEF Moved, Owned
<1> HIDE DEF A
<1>3. A[t] = Null /\ A[r] = W[r]
  BY <1>2
<1>4. Owned(B, L)
  BY <1>1, <1>3, MovedOwned
<1>5. B[r] = Null /\ B[t] = A[r] /\ \A x \in Places \ {r, t} : B[x] = A[x]
  BY <1>1 DEF Moved, Owned
<1> HIDE DEF B
<1> DEFINE Few == {p, q, r, t}
<1>6. \A x \in Few : V[x] = B[x]
  BY <1>2, <1>3, <1>5
<1>7. \A x \in Places \ Few : B[x] = W[x]
  BY <1>2, <1>5
<1>8. Few \in SUBSET Places /\ SameKinds(W, V, Few)
  OBVIOUS
<1> HIDE DEF Few
<1> QED
  BY <1>4, <1>6, <1>7, <1>8, AgreedOwned

-----------------------------------------------------------------------------
(* What a step changes, seen from the places. *)

(* The top activation goes on as f. *)
LEMMA ContinuedHolds ==
  ASSUME StructureOK, frames # <<>>, NEW f \in FrameTypes, Continue(f)
  PROVE  LET N == Len(frames)
         IN  /\ N \in Nat \ {0}
             /\ \A s \in Slots, i, x \in Nat : i # N => Holding'[<<s, i, x>>] = Holding[<<s, i, x>>]
             /\ \A s \in Slots, x \in Nat : /\ Holding[<<s, N, x>>] = LocalAt(Here, s, x)
                                            /\ Holding'[<<s, N, x>>] = LocalAt(f, s, x)
<1> DEFINE N == Len(frames)
<1>1. frames \in Seq(FrameTypes) /\ N \in Nat \ {0}
  BY HereOK
<1>2. ASSUME NEW s \in Slots, NEW x \in Nat
      PROVE  /\ \A i : i # N => FrameAt(frames', s, i, x) = FrameAt(frames, s, i, x)
             /\ FrameAt(frames', s, N, x) = LocalAt(f, s, x)
             /\ FrameAt(frames, s, N, x) = LocalAt(Here, s, x)
  BY <1>1, ContinuedAt
<1>3. \A s \in Slots, i, x \in Nat : /\ Holding[<<s, i, x>>] = FrameAt(frames, s, i, x)
                                     /\ Holding'[<<s, i, x>>] = FrameAt(frames', s, i, x)
  BY HoldsNow, HoldsNext
<1> HIDE DEF N
<1>4. \A s \in Slots, i, x \in Nat : i # N => Holding'[<<s, i, x>>] = Holding[<<s, i, x>>]
  BY <1>2, <1>3
<1>5. \A s \in Slots, x \in Nat : /\ Holding[<<s, N, x>>] = LocalAt(Here, s, x)
                                  /\ Holding'[<<s, N, x>>] = LocalAt(f, s, x)
  BY <1>1, <1>2, <1>3
<1> QED
  BY <1>1, <1>4, <1>5 DEF N

(* The top activation, which carries nothing, returns n. *)
Dest == IF Len(frames) = 1 THEN <<"root", 0, 0>> ELSE <<"ret", 0, 0>>

LEMMA GivenBackHolds ==
  ASSUME StructureOK, frames # <<>>, Unladen(Here),
         NEW n, GiveBack(n)
  PROVE  LET N == Len(frames)
         IN  /\ N \in Nat \ {0} /\ Dest \in {<<"root", 0, 0>>, <<"ret", 0, 0>>}
             /\ SameLocals(Holding, Holding', {<<"node", N, 0>>, <<"cur", N, 0>>})
             /\ Holding[<<"node", N, 0>>] = Here.node /\ Holding'[<<"node", N, 0>>] = Null
             /\ Holding[<<"cur", N, 0>>] = Here.cur /\ Holding'[<<"cur", N, 0>>] = Null
             /\ Holding[<<"root", 0, 0>>] = Null /\ Holding[<<"ret", 0, 0>>] = ret
             /\ Holding'[Dest] = n
             /\ \A p \in {<<"root", 0, 0>>, <<"ret", 0, 0>>} : p # Dest => Holding'[p] = Null
<1> DEFINE N == Len(frames)
<1>1. frames \in Seq(FrameTypes) /\ N \in Nat \ {0} /\ root = Null
  BY HereOK
<1>2. ASSUME NEW s \in Slots, NEW x \in Nat
      PROVE  /\ \A i : i # N => FrameAt(frames', s, i, x) = FrameAt(frames, s, i, x)
             /\ FrameAt(frames', s, N, x) = Null
             /\ FrameAt(frames, s, N, x) = LocalAt(Here, s, x)
  BY <1>1, GivenBackAt
<1>3. \A s \in Slots, i, x \in Nat : /\ Holding[<<s, i, x>>] = FrameAt(frames, s, i, x)
                                     /\ Holding'[<<s, i, x>>] = FrameAt(frames', s, i, x)
  BY HoldsNow, HoldsNext
<1>4. /\ Holding[<<"root", 0, 0>>] = Null /\ Holding[<<"ret", 0, 0>>] = ret
      /\ Holding'[<<"root", 0, 0>>] = root' /\ Holding'[<<"ret", 0, 0>>] = ret'
  BY <1>1, HoldsNow, HoldsNext
<1>5. /\ Len(frames) = 1 => root' = n /\ ret' = Null
      /\ Len(frames) # 1 => ret' = n /\ root' = Null
  BY <1>1, GivenBack
<1>6. /\ Dest \in {<<"root", 0, 0>>, <<"ret", 0, 0>>} /\ Holding'[Dest] = n
      /\ \A p \in {<<"root", 0, 0>>, <<"ret", 0, 0>>} : p # Dest => Holding'[p] = Null
  BY <1>4, <1>5 DEF Dest
<1> HIDE DEF N
<1>7. /\ Holding[<<"node", N, 0>>] = Here.node /\ Holding'[<<"node", N, 0>>] = Null
      /\ Holding[<<"cur", N, 0>>] = Here.cur /\ Holding'[<<"cur", N, 0>>] = Null
  <2>1. "node" \in Slots /\ "cur" \in Slots
    BY DEF Slots
  <2> QED
    BY <2>1, <1>1, <1>2, <1>3, LocalIs
<1>8. ASSUME NEW s \in Slots, NEW i \in Nat, NEW x \in Nat
      PROVE  Same(Holding, Holding', {<<"node", N, 0>>, <<"cur", N, 0>>}, <<s, i, x>>)
  <2> SUFFICES ASSUME <<s, i, x>> \notin {<<"node", N, 0>>, <<"cur", N, 0>>}
               PROVE  Holding'[<<s, i, x>>] = Holding[<<s, i, x>>]
    BY DEF Same
  <2>1. CASE i # N
    BY <2>1, <1>2, <1>3
  <2>2. CASE i = N
    <3>1. LocalAt(Here, s, x) = Null
      <4>1. s \in {"node", "cur"} => x # 0
        BY <2>2
      <4> QED
        BY <4>1, LocalIs DEF Slots, Carried, Unladen
    <3> QED
      BY <2>2, <3>1, <1>1, <1>2, <1>3
  <2> QED
    BY <2>1, <2>2
<1>9. SameLocals(Holding, Holding', {<<"node", N, 0>>, <<"cur", N, 0>>})
  BY <1>8 DEF SameLocals
<1> QED
  BY <1>1, <1>4, <1>6, <1>7, <1>9 DEF N

ChildBecomes(n, k, c) ==
  /\ n \in Nat /\ k \in Nat /\ <<"child", n, k>> \in Places
  /\ Holding[<<"child", n, k>>] = heap[n].child[k] /\ Holding'[<<"child", n, k>>] = c
  /\ SameChildren(Holding, Holding', {<<"child", n, k>>})
  /\ LiveNodes' = LiveNodes

LEMMA WritesHold ==
  ASSUME heap \in Seq(HeapNodes), NEW n, NEW k, NEW c, Writes(n, k, c)
  PROVE  ChildBecomes(n, k, c)
<1>1. n \in DOMAIN heap /\ k \in DOMAIN heap[n].child /\ SameBut(heap', heap, n)
  BY DEF Writes, WritesIn
<1>2. n \in Nat /\ k \in Nat
  <2>1. heap[n].child \in Seq(Nat) /\ n \in Nat
    BY <1>1, NodesTyped
  <2> QED
    BY <1>1, <2>1
<1>3. LiveNodes' = LiveNodes
  BY <1>1, SameLiveNodes
<1>4. /\ ChildAt(heap', n, k) = c /\ ChildAt(heap, n, k) = heap[n].child[k]
      /\ \A m, i : (m # n \/ i # k) => ChildAt(heap', m, i) = ChildAt(heap, m, i)
  BY SlotWritten DEF Writes
<1>5. \A m, i \in Nat : /\ Holding[<<"child", m, i>>] = ChildAt(heap, m, i)
                        /\ Holding'[<<"child", m, i>>] = ChildAt(heap', m, i)
  BY HoldsNow, HoldsNext
<1>6. SameChildren(Holding, Holding', {<<"child", n, k>>})
  <2> SUFFICES ASSUME NEW m \in Nat, NEW i \in Nat, <<"child", m, i>> # <<"child", n, k>>
               PROVE  Holding'[<<"child", m, i>>] = Holding[<<"child", m, i>>]
    BY DEF Same, SameChildren
  <2>1. m # n \/ i # k
    OBVIOUS
  <2>2. ChildAt(heap', m, i) = ChildAt(heap, m, i)
    BY <1>4, <2>1
  <2> QED
    BY <1>5, <2>2
<1> QED
  BY <1>2, <1>3, <1>4, <1>5, <1>6, SomePlaces DEF ChildBecomes

(* The heap stays as it is. *)
LEMMA HeapHolds ==
  ASSUME heap' = heap
  PROVE  /\ LiveNodes' = LiveNodes
         /\ \A M : SameChildren(Holding, Holding', M)
<1>1. LiveNodes' = LiveNodes
  BY DEF LiveNodes, Live
<1>2. \A m, i \in Nat : Holding'[<<"child", m, i>>] = Holding[<<"child", m, i>>]
  BY HoldsNow, HoldsNext
<1> QED
  BY <1>1, <1>2 DEF Same, SameChildren

(* An activation returns its node, with the heap as it is. *)
LEMMA GiveOwners ==
  ASSUME StructureOK, OwnersOK, frames # <<>>,
         Unladen(Here), Here.cur = Null, ret = Null,
         heap' = heap, GiveBack(Here.node)
  PROVE  Owned(Holding, LiveNodes)'
<1> DEFINE N == Len(frames)
           p == <<"node", N, 0>>
           pc == <<"cur", N, 0>>
           W == Holding
           V == Holding'
           S == {Holding'[x] : x \in Places}
<1>1. /\ N \in Nat \ {0} /\ Dest \in {<<"root", 0, 0>>, <<"ret", 0, 0>>}
      /\ SameLocals(W, V, {p, pc})
      /\ W[p] = Here.node /\ V[p] = Null /\ W[pc] = Null /\ V[pc] = Null
      /\ W[<<"root", 0, 0>>] = Null /\ W[<<"ret", 0, 0>>] = Null
      /\ V[Dest] = Here.node
      /\ \A q \in {<<"root", 0, 0>>, <<"ret", 0, 0>>} : q # Dest => V[q] = Null
  BY GivenBackHolds
<1>2. /\ LiveNodes' = LiveNodes
      /\ \A M : SameChildren(W, V, M)
  BY HeapHolds
<1>3. Owned(W, LiveNodes) /\ V \in [Places -> S]
  BY HoldingTyped
<1>4. p \in Places /\ Dest \in Places /\ p # Dest
  BY <1>1, SomePlaces DEF Slots
<1> HIDE DEF W, V, S
<1>5. SameKinds(W, V, {p, Dest})
  BY <1>1, <1>2 DEF SameKinds, SameChildren, SameLocals, Same
<1> HIDE DEF p
<1>6. IsMove(W, V, p, Dest)
  BY <1>1, <1>4, <1>5 DEF IsMove
<1>7. Owned(V, LiveNodes)
  BY <1>3, <1>6, OneMove
<1> QED
  BY <1>2, <1>7 DEF V

(* What was returned becomes a child; the activation goes on. *)
LEMMA SetOwners ==
  ASSUME StructureOK, OwnersOK, frames # <<>>, NEW k,
         Writes(Here.node, k, ret), heap[Here.node].child[k] = Null,
         NEW f \in FrameTypes, Continue(f), SameSlots(Here, f), root' = root, ret' = Null
  PROVE  Owned(Holding, LiveNodes)'
<1> DEFINE N == Len(frames)
           p == <<"ret", 0, 0>>
           q == <<"child", Here.node, k>>
           W == Holding
           V == Holding'
           S == {Holding'[x] : x \in Places}
<1>1. heap \in Seq(HeapNodes)
  BY HereOK
<1>2. /\ \A s \in Slots, i, x \in Nat : i # N => V[<<s, i, x>>] = W[<<s, i, x>>]
      /\ \A s \in Slots, x \in Nat : /\ W[<<s, N, x>>] = LocalAt(Here, s, x)
                                     /\ V[<<s, N, x>>] = LocalAt(f, s, x)
  BY ContinuedHolds
<1>3. \A s \in Slots, i, x \in Nat : V[<<s, i, x>>] = W[<<s, i, x>>]
  <2> HIDE DEF W, V, N
  <2>1. \A s \in Slots, x \in Nat : LocalAt(Here, s, x) = LocalAt(f, s, x)
    BY SameSlotsHold
  <2> SUFFICES ASSUME NEW s \in Slots, NEW i \in Nat, NEW x \in Nat
               PROVE  V[<<s, i, x>>] = W[<<s, i, x>>]
    OBVIOUS
  <2>2. V[<<s, N, x>>] = W[<<s, N, x>>]
    BY <1>2, <2>1
  <2> QED
    BY <1>2, <2>2
<1>4. /\ q \in Places /\ W[q] = Null /\ V[q] = ret
      /\ SameChildren(W, V, {q})
      /\ LiveNodes' = LiveNodes
  <2>1. ChildBecomes(Here.node, k, ret)
    BY <1>1, WritesHold
  <2> QED
    BY <2>1 DEF ChildBecomes
<1>5. /\ W[p] = ret /\ V[p] = Null /\ V[<<"root", 0, 0>>] = W[<<"root", 0, 0>>]
  BY HoldsNow, HoldsNext
<1>6. Owned(W, LiveNodes) /\ V \in [Places -> S]
  BY HoldingTyped
<1>7. p \in Places /\ p # q
  BY SomePlaces
<1> HIDE DEF W, V, S
<1>8. SameKinds(W, V, {p, q})
  BY <1>3, <1>4, <1>5 DEF SameKinds, SameChildren, SameLocals, Same
<1> HIDE DEF p, q
<1>9. IsMove(W, V, p, q)
  BY <1>4, <1>5, <1>7, <1>8 DEF IsMove
<1>10. Owned(V, LiveNodes)
  BY <1>6, <1>9, OneMove
<1> QED
  BY <1>4, <1>10 DEF V

(* What was returned becomes the last child; the activation returns its node. *)
LEMMA ReturnOwners ==
  ASSUME StructureOK, OwnersOK, frames # <<>>,
         Unladen(Here), Here.cur = Null, NEW k,
         Writes(Here.node, k, ret), heap[Here.node].child[k] = Null, GiveBack(Here.node)
  PROVE  Owned(Holding, LiveNodes)'
<1> DEFINE N == Len(frames)
           p == <<"ret", 0, 0>>
           q == <<"child", Here.node, k>>
           r == <<"node", N, 0>>
           pc == <<"cur", N, 0>>
           W == Holding
           V == Holding'
           S == {Holding'[x] : x \in Places}
<1>1. heap \in Seq(HeapNodes)
  BY HereOK
<1>2. /\ N \in Nat \ {0} /\ Dest \in {<<"root", 0, 0>>, <<"ret", 0, 0>>}
      /\ SameLocals(W, V, {r, pc})
      /\ W[r] = Here.node /\ V[r] = Null /\ W[pc] = Null /\ V[pc] = Null
      /\ W[<<"root", 0, 0>>] = Null /\ W[<<"ret", 0, 0>>] = ret
      /\ V[Dest] = Here.node
      /\ \A x \in {<<"root", 0, 0>>, <<"ret", 0, 0>>} : x # Dest => V[x] = Null
  BY GivenBackHolds
<1>3. /\ q \in Places /\ W[q] = Null /\ V[q] = ret
      /\ SameChildren(W, V, {q})
      /\ LiveNodes' = LiveNodes
  <2>1. ChildBecomes(Here.node, k, ret)
    BY <1>1, WritesHold
  <2> QED
    BY <2>1 DEF ChildBecomes
<1>4. Owned(W, LiveNodes) /\ V \in [Places -> S]
  BY HoldingTyped
<1>5. /\ p \in Places /\ r \in Places /\ Dest \in Places
      /\ p # q /\ r # Dest /\ r \notin {p, q} /\ Dest # q
  BY <1>2, SomePlaces DEF Slots
<1>6. Dest = p \/ W[Dest] = Null
  BY <1>2
<1>7. Dest = p \/ V[p] = Null
  BY <1>2
<1> HIDE DEF W, V, S
<1>8. SameKinds(W, V, {p, q, r, Dest})
  BY <1>2, <1>3 DEF SameKinds, SameChildren, SameLocals, Same
<1>9. W[p] = ret
  BY <1>2
<1> HIDE DEF p, q, r
<1>10. AreMoves(W, V, p, q, r, Dest)
  BY <1>2, <1>3, <1>5, <1>6, <1>7, <1>8, <1>9 DEF AreMoves
<1>11. Owned(V, LiveNodes)
  BY <1>4, <1>10, TwoMoves
<1> QED
  BY <1>3, <1>11 DEF V

(* The node of the activation dies, which has no child left; cur is returned. *)
LEMMA EndOwners ==
  ASSUME StructureOK, OwnersOK, frames # <<>>, Unladen(Here), Here.cur # Null, ret = Null,
         LiveNodes' = LiveNodes \ {Here.node}, SameChildren(Holding, Holding', {}),
         GiveBack(Here.cur)
  PROVE  Owned(Holding, LiveNodes)'
<1> DEFINE N == Len(frames)
           pn == <<"node", N, 0>>
           p == <<"cur", N, 0>>
           W == Holding
           V == Holding'
           S == {Holding'[x] : x \in Places}
           A == [W EXCEPT ![pn] = Null]
           L == LiveNodes \ {Here.node}
<1>1. /\ N \in Nat \ {0} /\ Dest \in {<<"root", 0, 0>>, <<"ret", 0, 0>>}
      /\ SameLocals(W, V, {pn, p})
      /\ W[pn] = Here.node /\ V[pn] = Null /\ W[p] = Here.cur /\ V[p] = Null
      /\ W[<<"root", 0, 0>>] = Null /\ W[<<"ret", 0, 0>>] = ret
      /\ V[Dest] = Here.cur
      /\ \A q \in {<<"root", 0, 0>>, <<"ret", 0, 0>>} : q # Dest => V[q] = Null
  BY GivenBackHolds
<1>2. Owned(W, LiveNodes) /\ V \in [Places -> S] /\ W \in [Places -> {Null} \cup LiveNodes]
  BY HoldingTyped
<1>3. pn \in Places /\ p \in Places /\ Dest \in Places /\ p # Dest /\ pn # Dest /\ p # pn
  BY <1>1, SomePlaces DEF Slots
<1>4. W[pn] # Null
  BY <1>1, HereOK
<1>5. SameChildren(W, V, {})
  OBVIOUS
<1> HIDE DEF W, V, S
<1>6. Owned(A, L)
  <2>1. W[pn] = Here.node
    BY <1>1
  <2> QED
    BY <1>2, <1>3, <1>4, <2>1, DroppedOwned
<1>7. A[pn] = Null /\ \A x \in Places \ {pn} : A[x] = W[x]
  BY <1>2, <1>3
<1> HIDE DEF A
<1>8. SameKinds(A, V, {p, Dest})
  <2>1. Same(A, V, {p, Dest}, <<"root", 0, 0>>) /\ Same(A, V, {p, Dest}, <<"ret", 0, 0>>)
    BY <1>1, <1>7, SomePlaces DEF Same
  <2>2. SameChildren(A, V, {p, Dest})
    BY <1>5, <1>7, SomePlaces DEF Same, SameChildren
  <2>3. ASSUME NEW s \in Slots, NEW i \in Nat, NEW x \in Nat
        PROVE  Same(A, V, {p, Dest}, <<s, i, x>>)
    <3>1. Same(W, V, {pn, p}, <<s, i, x>>) /\ <<s, i, x>> \in Places
      BY <1>1, SomePlaces DEF SameLocals
    <3>2. CASE <<s, i, x>> = pn
      BY <3>2, <1>1, <1>7 DEF Same
    <3>3. CASE <<s, i, x>> # pn
      BY <3>1, <3>3, <1>7 DEF Same
    <3> QED
      BY <3>2, <3>3
  <2> QED
    BY <2>1, <2>2, <2>3 DEF SameKinds, SameLocals
<1>9. A[Dest] = Null /\ A[p] = Here.cur
  BY <1>1, <1>3, <1>7
<1> HIDE DEF p, pn
<1>10. IsMove(A, V, p, Dest)
  BY <1>1, <1>3, <1>8, <1>9 DEF IsMove
<1>11. Owned(V, L)
  BY <1>2, <1>6, <1>10, OneMove
<1> QED
  BY <1>11 DEF V, L

(* An activation goes on with the filters it carries. *)
LEMMA CarriedStay ==
  ASSUME StructureOK, frames # <<>>, NEW f \in FrameTypes, Continue(f), f.node = Here.node,
         \A s \in Carried, x \in Nat : LocalAt(f, s, x) = LocalAt(Here, s, x)
  PROVE  LET q == <<"cur", Len(frames), 0>>
         IN  /\ SameLocals(Holding, Holding', {q}) /\ q \in Places
             /\ Holding[q] = Here.cur /\ Holding'[q] = f.cur
<1> DEFINE N == Len(frames)
           q == <<"cur", N, 0>>
           W == Holding
           V == Holding'
<1>1. /\ N \in Nat \ {0}
      /\ \A s \in Slots, i, x \in Nat : i # N => V[<<s, i, x>>] = W[<<s, i, x>>]
      /\ \A s \in Slots, x \in Nat : /\ W[<<s, N, x>>] = LocalAt(Here, s, x)
                                     /\ V[<<s, N, x>>] = LocalAt(f, s, x)
  BY ContinuedHolds
<1>2. q \in Places
  BY <1>1, SomePlaces DEF Slots
<1> HIDE DEF W, V, N
<1>3. W[q] = Here.cur /\ V[q] = f.cur
  <2>1. "cur" \in Slots
    BY DEF Slots
  <2> QED
    BY <2>1, <1>1, LocalIs
<1>4. SameLocals(W, V, {q})
  <2> SUFFICES ASSUME NEW s \in Slots, NEW i \in Nat, NEW x \in Nat, <<s, i, x>> # q
               PROVE  V[<<s, i, x>>] = W[<<s, i, x>>]
    BY DEF SameLocals, Same
  <2>1. CASE i # N
    BY <2>1, <1>1
  <2>2. CASE i = N
    <3>1. LocalAt(f, s, x) = LocalAt(Here, s, x)
      <4>1. CASE s \in Carried
        BY <4>1
      <4>2. CASE s \in {"node", "cur"}
        <5>1. s = "cur" => x # 0
          BY <2>2
        <5> QED
          BY <4>2, <5>1, LocalIs
      <4> QED
        BY <4>1, <4>2 DEF Slots
    <3>2. V[<<s, N, x>>] = W[<<s, N, x>>]
      BY <3>1, <1>1
    <3> QED
      BY <3>2, <2>2
  <2> QED
    BY <2>1, <2>2
<1> QED
  BY <1>2, <1>3, <1>4 DEF W, V, N

(* The first child that was chosen becomes cur. *)
LEMMA FirstOwners ==
  ASSUME StructureOK, OwnersOK, frames # <<>>, Here.cur = Null, heap' = heap,
         NEW f \in FrameTypes, Continue(f), f.node = Here.node, f.cur = ret,
         \A s \in Carried, x \in Nat : LocalAt(f, s, x) = LocalAt(Here, s, x),
         root' = root, ret' = Null
  PROVE  Owned(Holding, LiveNodes)'
<1> DEFINE N == Len(frames)
           p == <<"ret", 0, 0>>
           q == <<"cur", N, 0>>
           W == Holding
           V == Holding'
           S == {Holding'[x] : x \in Places}
<1>1. SameLocals(W, V, {q}) /\ q \in Places /\ W[q] = Null /\ V[q] = ret
  BY CarriedStay
<1>2. SameChildren(W, V, {p, q}) /\ LiveNodes' = LiveNodes
  BY HeapHolds
<1>3. W[p] = ret /\ V[p] = Null /\ V[<<"root", 0, 0>>] = W[<<"root", 0, 0>>]
  BY HoldsNow, HoldsNext
<1>4. Owned(W, LiveNodes) /\ V \in [Places -> S]
  BY HoldingTyped
<1>5. p \in Places /\ p # q
  BY SomePlaces
<1> HIDE DEF W, V, S, N
<1>7. SameLocals(W, V, {p, q})
  BY <1>1 DEF SameLocals, Same
<1>8. SameKinds(W, V, {p, q})
  BY <1>2, <1>3, <1>7 DEF SameKinds, Same
<1> HIDE DEF p, q
<1>9. IsMove(W, V, p, q)
  BY <1>1, <1>3, <1>5, <1>8 DEF IsMove
<1>10. Owned(V, LiveNodes)
  BY <1>4, <1>9, OneMove
<1> QED
  BY <1>2, <1>10 DEF V

(* A join x of a and b is allocated. *)
JoinsIn(h, g, x, a, b) ==
  /\ x = Len(h) + 1 /\ x \notin DOMAIN h /\ x \in Nat \ {0}
  /\ g \in Seq(HeapNodes) /\ Len(g) = Len(h) + 1 /\ DOMAIN g = DOMAIN h \cup {x}
  /\ \A m \in DOMAIN h : g[m] = h[m]
  /\ g[x].kind = "BinaryJoin" /\ Len(g[x].child) = 2 /\ DOMAIN g[x].child = {1, 2}
  /\ g[x].child[1] = a /\ g[x].child[2] = b

LEMMA JoinsHold ==
  ASSUME NEW x, NEW a, NEW b, JoinsIn(heap, heap', x, a, b)
  PROVE  LET p == <<"child", x, 1>>
             q == <<"child", x, 2>>
         IN  /\ p \in Places /\ q \in Places
             /\ Holding[p] = Null /\ Holding[q] = Null /\ Holding'[p] = a /\ Holding'[q] = b
             /\ SameChildren(Holding, Holding', {p, q})
             /\ LiveNodes' = LiveNodes \cup {x} /\ x \notin LiveNodes /\ x # Null
<1>1. x \in Nat /\ 1 \in Nat /\ 2 \in Nat /\ x # Null /\ x \notin LiveNodes
  BY DEF JoinsIn, Null, LiveNodes
<1>2. \A m, i \in Nat : /\ Holding[<<"child", m, i>>] = ChildAt(heap, m, i)
                        /\ Holding'[<<"child", m, i>>] = ChildAt(heap', m, i)
  BY HoldsNow, HoldsNext
<1>3. /\ ChildAt(heap, x, 1) = Null /\ ChildAt(heap, x, 2) = Null
      /\ ChildAt(heap', x, 1) = a /\ ChildAt(heap', x, 2) = b
  BY DEF JoinsIn, ChildAt
<1>4. \A m, i : (m # x \/ i \notin {1, 2}) => ChildAt(heap', m, i) = ChildAt(heap, m, i)
  BY DEF JoinsIn, ChildAt
<1>5. LiveNodes' = LiveNodes \cup {x}
  <2>1. \A m \in DOMAIN heap : Live(m)' <=> Live(m)
    BY DEF JoinsIn, Live
  <2>2. Live(x)'
    BY DEF JoinsIn, Live
  <2>3. DOMAIN heap' = DOMAIN heap \cup {x}
    BY DEF JoinsIn
  <2> QED
    BY <2>1, <2>2, <2>3 DEF LiveNodes
<1>6. SameChildren(Holding, Holding', {<<"child", x, 1>>, <<"child", x, 2>>})
  <2> SUFFICES ASSUME NEW m \in Nat, NEW i \in Nat,
                      <<"child", m, i>> \notin {<<"child", x, 1>>, <<"child", x, 2>>}
               PROVE  Holding'[<<"child", m, i>>] = Holding[<<"child", m, i>>]
    BY DEF Same, SameChildren
  <2>1. m # x \/ i \notin {1, 2}
    OBVIOUS
  <2>2. ChildAt(heap', m, i) = ChildAt(heap, m, i)
    BY <1>4, <2>1
  <2> QED
    BY <1>2, <2>2
<1> QED
  BY <1>1, <1>2, <1>3, <1>5, <1>6, SomePlaces

(* cur and the child that was chosen become the children of a new join. *)
LEMMA JoinOwners ==
  ASSUME StructureOK, OwnersOK, frames # <<>>, NEW x, JoinsIn(heap, heap', x, Here.cur, ret),
         NEW f \in FrameTypes, Continue(f), f.node = Here.node, f.cur = x,
         \A s \in Carried, k \in Nat : LocalAt(f, s, k) = LocalAt(Here, s, k),
         root' = root, ret' = Null
  PROVE  Owned(Holding, LiveNodes)'
<1> DEFINE r == <<"ret", 0, 0>>
           c == <<"cur", Len(frames), 0>>
           p1 == <<"child", x, 1>>
           p2 == <<"child", x, 2>>
           W == Holding
           V == Holding'
           S == {Holding'[y] : y \in Places}
           A == [V EXCEPT ![c] = Null]
           L == LiveNodes
<1>1. SameLocals(W, V, {c}) /\ c \in Places /\ W[c] = Here.cur /\ V[c] = x
  BY CarriedStay
<1>2. /\ p1 \in Places /\ p2 \in Places
      /\ W[p1] = Null /\ W[p2] = Null /\ V[p1] = Here.cur /\ V[p2] = ret
      /\ SameChildren(W, V, {p1, p2})
      /\ LiveNodes' = L \cup {x} /\ x \notin L /\ x # Null
  BY JoinsHold
<1>3. W[r] = ret /\ V[r] = Null /\ V[<<"root", 0, 0>>] = W[<<"root", 0, 0>>]
  BY HoldsNow, HoldsNext
<1>4. Owned(W, L) /\ V \in [Places -> S]
  BY HoldingTyped
<1>5. r \in Places /\ r # c /\ r # p1 /\ r # p2 /\ c # p1 /\ c # p2 /\ p1 # p2
  BY SomePlaces
<1> HIDE DEF W, V, S, L
<1>6. A \in [Places -> S \cup {Null}] /\ A[c] = Null /\ \A y \in Places \ {c} : A[y] = V[y]
  BY <1>1, <1>4
<1> HIDE DEF A
<1>7. SameKinds(W, A, {c, p1, r, p2})
  <2>1. /\ Same(W, A, {c, p1, r, p2}, <<"root", 0, 0>>)
        /\ Same(W, A, {c, p1, r, p2}, <<"ret", 0, 0>>)
    BY <1>3, <1>6, SomePlaces DEF Same
  <2>2. SameChildren(W, A, {c, p1, r, p2})
    BY <1>2, <1>6, SomePlaces DEF Same, SameChildren
  <2>3. SameLocals(W, A, {c, p1, r, p2})
    BY <1>1, <1>6, SomePlaces DEF Same, SameLocals
  <2> QED
    BY <2>1, <2>2, <2>3 DEF SameKinds
<1> HIDE DEF r, c, p1, p2
<1>8. AreMoves(W, A, c, p1, r, p2)
  BY <1>1, <1>2, <1>3, <1>5, <1>6, <1>7 DEF AreMoves
<1>9. Owned(A, L)
  BY <1>4, <1>6, <1>8, TwoMoves
<1>10. Owned([A EXCEPT ![c] = x], L \cup {x})
  BY <1>1, <1>2, <1>6, <1>9, AddedOwned
<1>11. [A EXCEPT ![c] = x] = V
  BY <1>1, <1>4, <1>6
<1> QED
  BY <1>2, <1>10, <1>11 DEF V

(* The scan has been reached: all that was carried is to be put above it. *)
Reloaded(o, f) == Single(f) /\ \A n : n # Null => (Has(o, n) <=> Has(f, n))

LEMMA ReloadOwners ==
  ASSUME StructureOK, OwnersOK, frames # <<>>, heap' = heap,
         NEW f \in FrameTypes, Continue(f), f.node = Here.node, f.cur = Here.cur,
         Reloaded(Here, f), root' = root, ret' = ret
  PROVE  Owned(Holding, LiveNodes)'
<1> DEFINE N == Len(frames)
           M == CarriedBy(N)
           W == Holding
           V == Holding'
           S == {Holding'[y] : y \in Places}
<1>1. /\ N \in Nat \ {0}
      /\ \A s \in Slots, i, x \in Nat : i # N => V[<<s, i, x>>] = W[<<s, i, x>>]
      /\ \A s \in Slots, x \in Nat : /\ W[<<s, N, x>>] = LocalAt(Here, s, x)
                                     /\ V[<<s, N, x>>] = LocalAt(f, s, x)
  BY ContinuedHolds
<1>2. SameChildren(W, V, M) /\ LiveNodes' = LiveNodes
  BY HeapHolds
<1>3. /\ V[<<"root", 0, 0>>] = W[<<"root", 0, 0>>] /\ V[<<"ret", 0, 0>>] = W[<<"ret", 0, 0>>]
  BY HoldsNow, HoldsNext
<1>4. Owned(W, LiveNodes) /\ V \in [Places -> S]
  BY HoldingTyped
<1>5. \A s \in Carried : s \in Slots
  BY DEF Slots
<1>6. M \in SUBSET Places
  BY <1>1, CarriedPlaces
<1> HIDE DEF W, V, S, N, M
<1>7. SameLocals(W, V, M)
  <2> SUFFICES ASSUME NEW s \in Slots, NEW i \in Nat, NEW x \in Nat, <<s, i, x>> \notin M
               PROVE  V[<<s, i, x>>] = W[<<s, i, x>>]
    BY DEF SameLocals, Same
  <2>1. CASE i # N
    BY <2>1, <1>1
  <2>2. CASE i = N
    <3>1. s = "node" \/ s = "cur"
      BY <2>2 DEF Slots, M, CarriedBy
    <3>2. LocalAt(f, s, x) = LocalAt(Here, s, x)
      BY <3>1, LocalIs
    <3>3. V[<<s, N, x>>] = W[<<s, N, x>>]
      BY <3>2, <1>1
    <3> QED
      BY <3>3, <2>2
  <2> QED
    BY <2>1, <2>2
<1>8. SameKinds(W, V, M)
  BY <1>2, <1>3, <1>7 DEF SameKinds, Same
<1>9. \A p \in Places \ M : V[p] = W[p]
  BY <1>8, SameElsewhere
<1>10. /\ \A p \in M : \E s \in Carried, x \in Nat : p = <<s, N, x>>
       /\ \A s \in Carried, x \in Nat : <<s, N, x>> \in M
  BY DEF M, CarriedBy
<1>11. \A n : n # Null => (Has(Here, n) <=> Has(f, n))
  BY DEF Reloaded
<1>12. ASSUME NEW q \in M, V[q] # Null
       PROVE  \E p \in M : W[p] = V[q]
  <2>1. PICK s \in Carried, x \in Nat : q = <<s, N, x>>
    BY <1>10
  <2>2. Has(f, V[q])
    BY <1>1, <1>5, <2>1 DEF Has
  <2>3. PICK t \in Carried, y \in Nat : LocalAt(Here, t, y) = V[q]
    BY <1>11, <1>12, <2>2 DEF Has
  <2>4. W[<<t, N, y>>] = LocalAt(Here, t, y) /\ <<t, N, y>> \in M
    BY <1>1, <1>5, <1>10
  <2> QED
    BY <2>3, <2>4
<1>13. ASSUME NEW p \in M, W[p] # Null
       PROVE  \E q \in M : V[q] = W[p]
  <2>1. PICK s \in Carried, x \in Nat : p = <<s, N, x>>
    BY <1>10
  <2>2. Has(Here, W[p])
    BY <1>1, <1>5, <2>1 DEF Has
  <2>3. PICK t \in Carried, y \in Nat : LocalAt(f, t, y) = W[p]
    BY <1>11, <1>13, <2>2 DEF Has
  <2>4. V[<<t, N, y>>] = LocalAt(f, t, y) /\ <<t, N, y>> \in M
    BY <1>1, <1>5, <1>10
  <2> QED
    BY <2>3, <2>4
<1>14. ASSUME NEW q \in M, NEW r \in M, V[q] # Null, V[q] = V[r]
       PROVE  q = r
  <2>1. PICK s \in Carried, x \in Nat : q = <<s, N, x>>
    BY <1>10
  <2>2. PICK t \in Carried, y \in Nat : r = <<t, N, y>>
    BY <1>10
  <2>3. LocalAt(f, s, x) # Null /\ LocalAt(f, s, x) = LocalAt(f, t, y)
    BY <1>1, <1>5, <1>14, <2>1, <2>2
  <2>4. s = t /\ x = y
    BY <2>3 DEF Reloaded, Single
  <2> QED
    BY <2>1, <2>2, <2>4
<1>15. Exchanged(W, V, M)
  BY <1>12, <1>13, <1>14 DEF Exchanged
<1>16. Owned(V, LiveNodes)
  BY <1>4, <1>6, <1>9, <1>15, DealtOwned
<1> QED
  BY <1>2, <1>16 DEF V

(* A filter is taken out of the plan; its child is next. *)
TakesUp(o, f, x, n) ==
  /\ x \in Nat /\ LocalAt(o, "arr", x) = Null /\ LocalAt(f, "arr", x) = n
  /\ \A s \in Carried, y \in Nat :
       (s # "arr" \/ y # x) => LocalAt(f, s, y) = LocalAt(o, s, y)

LEMMA FilterOwners ==
  ASSUME StructureOK, OwnersOK, frames # <<>>, NEW k, Writes(Here.node, k, Null),
         NEW f \in FrameTypes, Continue(f), NEW x, TakesUp(Here, f, x, Here.node),
         f.node = heap[Here.node].child[k], f.cur = Here.cur,
         root' = root, ret' = ret
  PROVE  Owned(Holding, LiveNodes)'
<1> DEFINE N == Len(frames)
           p == <<"node", N, 0>>
           q == <<"arr", N, x>>
           r == <<"child", Here.node, k>>
           W == Holding
           V == Holding'
           S == {Holding'[y] : y \in Places}
<1>1. /\ N \in Nat \ {0}
      /\ \A s \in Slots, i, y \in Nat : i # N => V[<<s, i, y>>] = W[<<s, i, y>>]
      /\ \A s \in Slots, y \in Nat : /\ W[<<s, N, y>>] = LocalAt(Here, s, y)
                                     /\ V[<<s, N, y>>] = LocalAt(f, s, y)
  BY ContinuedHolds
<1>2. /\ r \in Places /\ W[r] = heap[Here.node].child[k] /\ V[r] = Null
      /\ SameChildren(W, V, {r}) /\ LiveNodes' = LiveNodes
  <2>1. heap \in Seq(HeapNodes)
    BY HereOK
  <2>2. ChildBecomes(Here.node, k, Null)
    BY <2>1, WritesHold
  <2> QED
    BY <2>2 DEF ChildBecomes
<1>3. /\ V[<<"root", 0, 0>>] = W[<<"root", 0, 0>>] /\ V[<<"ret", 0, 0>>] = W[<<"ret", 0, 0>>]
  BY HoldsNow, HoldsNext
<1>4. Owned(W, LiveNodes) /\ V \in [Places -> S]
  BY HoldingTyped
<1>5. p \in Places /\ q \in Places /\ p # q /\ r \notin {p, q} /\ x \in Nat
  BY <1>1, SomePlaces DEF Slots, Carried, TakesUp
<1> HIDE DEF W, V, S, N
<1>6. W[p] = Here.node /\ V[p] = f.node /\ W[q] = Null /\ V[q] = Here.node
  <2>1. "node" \in Slots /\ "arr" \in Slots
    BY DEF Slots, Carried
  <2> QED
    BY <2>1, <1>1, <1>5, LocalIs DEF TakesUp
<1>7. SameLocals(W, V, {p, q})
  <2> SUFFICES ASSUME NEW s \in Slots, NEW i \in Nat, NEW y \in Nat, <<s, i, y>> \notin {p, q}
               PROVE  V[<<s, i, y>>] = W[<<s, i, y>>]
    BY DEF SameLocals, Same
  <2>1. CASE i # N
    BY <2>1, <1>1
  <2>2. CASE i = N
    <3>1. LocalAt(f, s, y) = LocalAt(Here, s, y)
      <4>1. CASE s \in Carried
        BY <2>2, <4>1 DEF TakesUp
      <4>2. CASE s \in {"node", "cur"}
        <5>1. s = "node" => y # 0
          BY <2>2
        <5> QED
          BY <4>2, <5>1, LocalIs
      <4> QED
        BY <4>1, <4>2 DEF Slots
    <3>2. V[<<s, N, y>>] = W[<<s, N, y>>]
      BY <3>1, <1>1
    <3> QED
      BY <3>2, <2>2
  <2> QED
    BY <2>1, <2>2
<1>8. SameKinds(W, V, {p, q, r, p})
  BY <1>2, <1>3, <1>7 DEF SameKinds, SameChildren, SameLocals, Same
<1> HIDE DEF p, q, r
<1>9. AreMoves(W, V, p, q, r, p)
  BY <1>2, <1>5, <1>6, <1>8 DEF AreMoves
<1>10. Owned(V, LiveNodes)
  BY <1>4, <1>9, TwoMoves
<1> QED
  BY <1>2, <1>10 DEF V

(* The next filter is put above the node. *)
PutsBack(o, f, w) ==
  /\ LocalAt(o, "stay", 0) = Null /\ LocalAt(o, "stay", 1) = w
  /\ LocalAt(f, "stay", 0) = Null
  /\ \A x \in Nat \ {0} : LocalAt(f, "stay", x) = LocalAt(o, "stay", x + 1)
  /\ \A s \in {"cur", "arr", "rgt"}, x \in Nat : LocalAt(f, s, x) = LocalAt(o, s, x)

\* The filters move up in the list.
LEMMA Shifted ==
  ASSUME NEW o, NEW f, NEW w, PutsBack(o, f, w), NEW N \in Nat, NEW A, NEW V,
         A[<<"stay", N, 1>>] = Null,
         \A x \in Nat \ {1} : A[<<"stay", N, x>>] = LocalAt(o, "stay", x),
         \A x \in Nat : V[<<"stay", N, x>>] = LocalAt(f, "stay", x),
         \A x, y \in Nat : (LocalAt(o, "stay", x) # Null
                            /\ LocalAt(o, "stay", x) = LocalAt(o, "stay", y)) => x = y
  PROVE  Exchanged(A, V, {<<"stay", N, x>> : x \in Nat})
<1> DEFINE M == {<<"stay", N, x>> : x \in Nat}
<1>1. \A p \in M : \E x \in Nat : p = <<"stay", N, x>>
  OBVIOUS
<1>2. \A x \in Nat : <<"stay", N, x>> \in M
  OBVIOUS
<1>3. /\ LocalAt(o, "stay", 0) = Null /\ LocalAt(f, "stay", 0) = Null
      /\ \A x \in Nat \ {0} : LocalAt(f, "stay", x) = LocalAt(o, "stay", x + 1)
  BY DEF PutsBack
<1> HIDE DEF M
<1>4. ASSUME NEW q \in M, V[q] # Null
      PROVE  \E p \in M : A[p] = V[q]
  <2>1. PICK x \in Nat : q = <<"stay", N, x>>
    BY <1>1
  <2>2. x # 0 /\ V[q] = LocalAt(o, "stay", x + 1)
    BY <1>3, <1>4, <2>1
  <2>3. x + 1 \in Nat \ {1}
    BY <2>2
  <2>4. A[<<"stay", N, x + 1>>] = V[q] /\ <<"stay", N, x + 1>> \in M
    BY <1>2, <2>2, <2>3
  <2> QED
    BY <2>4
<1>5. ASSUME NEW p \in M, A[p] # Null
      PROVE  \E q \in M : V[q] = A[p]
  <2>1. PICK x \in Nat : p = <<"stay", N, x>>
    BY <1>1
  <2>2. x # 1 /\ A[p] = LocalAt(o, "stay", x) /\ x # 0
    BY <1>3, <1>5, <2>1
  <2>3. x - 1 \in Nat \ {0} /\ (x - 1) + 1 = x
    BY <2>2
  <2>4. LocalAt(f, "stay", x - 1) = LocalAt(o, "stay", x)
    BY <1>3, <2>3
  <2>5. V[<<"stay", N, x - 1>>] = A[p] /\ <<"stay", N, x - 1>> \in M
    BY <1>2, <2>2, <2>3, <2>4
  <2> QED
    BY <2>5
<1>6. ASSUME NEW q \in M, NEW r \in M, V[q] # Null, V[q] = V[r]
      PROVE  q = r
  <2>1. PICK x \in Nat : q = <<"stay", N, x>>
    BY <1>1
  <2>2. PICK y \in Nat : r = <<"stay", N, y>>
    BY <1>1
  <2>3. x # 0 /\ V[q] = LocalAt(o, "stay", x + 1) /\ y # 0 /\ V[r] = LocalAt(o, "stay", y + 1)
    BY <1>3, <1>6, <2>1, <2>2
  <2>4. PICK a \in Nat, b \in Nat : a = x + 1 /\ b = y + 1
    OBVIOUS
  <2>5. LocalAt(o, "stay", a) # Null /\ LocalAt(o, "stay", a) = LocalAt(o, "stay", b)
    BY <1>6, <2>3, <2>4
  <2>6. a = b
    BY <2>5
  <2> QED
    BY <2>1, <2>2, <2>4, <2>6
<1> QED
  BY <1>4, <1>5, <1>6 DEF Exchanged, M

LEMMA WrapOwners ==
  ASSUME StructureOK, OwnersOK, frames # <<>>, NEW w, Writes(w, 1, Here.node),
         heap[w].child[1] = Null, w # Null,
         NEW f \in FrameTypes, Continue(f), PutsBack(Here, f, w), f.node = w,
         root' = root, ret' = ret
  PROVE  Owned(Holding, LiveNodes)'
<1> DEFINE N == Len(frames)
           p == <<"node", N, 0>>
           q == <<"child", w, 1>>
           r == <<"stay", N, 1>>
           M == {<<"stay", N, x>> : x \in Nat}
           W == Holding
           V == Holding'
           S == {Holding'[y] : y \in Places}
           A == [y \in Places |-> IF y = r THEN Null ELSE IF y \in M THEN W[y] ELSE V[y]]
           T == S \cup {Null} \cup {W[y] : y \in Places}
<1>1. /\ N \in Nat \ {0}
      /\ \A s \in Slots, i, y \in Nat : i # N => V[<<s, i, y>>] = W[<<s, i, y>>]
      /\ \A s \in Slots, y \in Nat : /\ W[<<s, N, y>>] = LocalAt(Here, s, y)
                                     /\ V[<<s, N, y>>] = LocalAt(f, s, y)
  BY ContinuedHolds
<1>2. /\ q \in Places /\ W[q] = Null /\ V[q] = Here.node
      /\ SameChildren(W, V, {q}) /\ LiveNodes' = LiveNodes
  <2>1. heap \in Seq(HeapNodes)
    BY HereOK
  <2>2. ChildBecomes(w, 1, Here.node)
    BY <2>1, WritesHold
  <2> QED
    BY <2>2 DEF ChildBecomes
<1>3. /\ V[<<"root", 0, 0>>] = W[<<"root", 0, 0>>] /\ V[<<"ret", 0, 0>>] = W[<<"ret", 0, 0>>]
  BY HoldsNow, HoldsNext
<1>4. Owned(W, LiveNodes) /\ V \in [Places -> S]
  BY HoldingTyped
<1>5. {"node", "cur", "arr", "rgt", "stay"} = Slots
  BY DEF Slots, Carried
<1>6. p \in Places /\ r \in Places /\ p # q /\ r # q /\ p # r /\ p \notin M /\ q \notin M /\ r \in M
  BY <1>1, <1>5, SomePlaces
<1>7. M \in SUBSET Places
  BY <1>1, <1>5, SomePlaces
<1>8. /\ A \in [Places -> T] /\ A[r] = Null
      /\ \A y \in M : y # r => A[y] = W[y]
      /\ \A y \in Places \ M : A[y] = V[y]
  <2> HIDE DEF W, V, S, M, r
  <2> QED
    BY <1>4, <1>6, <1>7
<1> HIDE DEF W, V, S, A, T
<1>9. /\ W[p] = Here.node /\ V[p] = w /\ W[r] = w
      /\ \A x \in Nat : W[<<"stay", N, x>>] = LocalAt(Here, "stay", x)
      /\ \A x \in Nat : V[<<"stay", N, x>>] = LocalAt(f, "stay", x)
  <2>1. "node" \in Slots /\ "stay" \in Slots /\ 0 \in Nat /\ 1 \in Nat
    BY <1>5
  <2>2. /\ \A x \in Nat : W[<<"stay", N, x>>] = LocalAt(Here, "stay", x)
        /\ \A x \in Nat : V[<<"stay", N, x>>] = LocalAt(f, "stay", x)
    BY <1>1, <2>1
  <2>3. W[p] = LocalAt(Here, "node", 0) /\ V[p] = LocalAt(f, "node", 0)
    BY <1>1, <2>1
  <2>4. LocalAt(Here, "stay", 1) = w
    BY DEF PutsBack
  <2>5. LocalAt(Here, "node", 0) = Here.node /\ LocalAt(f, "node", 0) = w
    BY LocalIs
  <2> QED
    BY <2>1, <2>2, <2>3, <2>4, <2>5
<1>10. SameKinds(W, A, {p, q, r, p})
  <2>1. SameChildren(W, A, {p, q, r, p})
    <3> SUFFICES ASSUME NEW m \in Nat, NEW y \in Nat, <<"child", m, y>> # q
                 PROVE  A[<<"child", m, y>>] = W[<<"child", m, y>>]
      BY DEF SameChildren, Same
    <3>1. V[<<"child", m, y>>] = W[<<"child", m, y>>]
      BY <1>2 DEF SameChildren, Same
    <3>2. <<"child", m, y>> \in Places \ M
      BY SomePlaces
    <3> QED
      BY <1>8, <3>1, <3>2
  <2>2. SameLocals(W, A, {p, q, r, p})
    <3> SUFFICES ASSUME NEW s \in Slots, NEW i \in Nat, NEW y \in Nat, <<s, i, y>> \notin {p, r}
                 PROVE  A[<<s, i, y>>] = W[<<s, i, y>>]
      BY DEF SameLocals, Same
    <3>1. <<s, i, y>> \in Places
      BY SomePlaces
    <3>2. CASE <<s, i, y>> \in M
      BY <1>8, <3>2
    <3>3. CASE <<s, i, y>> \notin M
      <4>1. A[<<s, i, y>>] = V[<<s, i, y>>]
        BY <1>8, <3>1, <3>3
      <4>2. CASE i # N
        BY <1>1, <4>1, <4>2
      <4>3. CASE i = N
        <5>1. s # "stay" /\ (s = "node" => y # 0)
          BY <3>3, <4>3
        <5>2. LocalAt(f, s, y) = LocalAt(Here, s, y)
          <6>1. CASE s = "node"
            BY <5>1, <6>1, LocalIs
          <6>2. CASE s \in {"cur", "arr", "rgt"}
            BY <6>2 DEF PutsBack
          <6> QED
            BY <1>5, <5>1, <6>1, <6>2
        <5>3. V[<<s, N, y>>] = W[<<s, N, y>>]
          BY <1>1, <5>2
        <5> QED
          BY <4>1, <4>3, <5>3
      <4> QED
        BY <4>2, <4>3
    <3> QED
      BY <3>2, <3>3
  <2>3. /\ Same(W, A, {p, q, r, p}, <<"root", 0, 0>>) /\ Same(W, A, {p, q, r, p}, <<"ret", 0, 0>>)
    <3>1. <<"root", 0, 0>> \in Places \ M /\ <<"ret", 0, 0>> \in Places \ M
      BY SomePlaces
    <3> QED
      BY <1>3, <1>8, <3>1 DEF Same
  <2> QED
    BY <2>1, <2>2, <2>3 DEF SameKinds
<1>11. AreMoves(W, A, p, q, r, p)
  BY <1>2, <1>6, <1>8, <1>9, <1>10 DEF AreMoves
<1>12. Owned(A, LiveNodes)
  BY <1>4, <1>8, <1>11, TwoMoves
<1>13. \A x, y \in Nat : (LocalAt(Here, "stay", x) # Null
                          /\ LocalAt(Here, "stay", x) = LocalAt(Here, "stay", y)) => x = y
  <2>1. Single(frames[Len(frames)])
    BY HereOK, CarriedOnce
  <2> QED
    BY <2>1 DEF Single, Carried, Here
<1>14. \A x \in Nat \ {1} : A[<<"stay", N, x>>] = LocalAt(Here, "stay", x)
  BY <1>8, <1>9
<1>15. Exchanged(A, V, M)
  <2>1. A[<<"stay", N, 1>>] = Null /\ N \in Nat
    BY <1>1, <1>8
  <2> QED
    BY <1>9, <1>13, <1>14, <2>1, Shifted
<1>16. \A y \in Places \ M : V[y] = A[y]
  BY <1>8
<1> HIDE DEF M
<1>17. Owned(V, LiveNodes)
  BY <1>4, <1>7, <1>12, <1>15, <1>16, DealtOwned
<1> QED
  BY <1>2, <1>17 DEF V

(* The client hands over its plan: the root becomes the node of an activation. *)
Starts(g) ==
  /\ frames = <<>> /\ DOMAIN frames = {} /\ DOMAIN frames' = {1} /\ frames'[1] = g
  /\ g.node = root /\ g.cur = Null /\ Unladen(g)

LEMMA StartOwners ==
  ASSUME StructureOK, OwnersOK, heap' = heap, NEW g, Starts(g), root' = Null, ret' = ret
  PROVE  Owned(Holding, LiveNodes)'
<1> DEFINE p == <<"root", 0, 0>>
           q == <<"node", 1, 0>>
           W == Holding
           V == Holding'
           S == {Holding'[y] : y \in Places}
<1>1. root \in Nat
  BY DEF StructureOK, StackOK, HeapOK, Formed, Null
<1>2. g.node = root /\ g.cur = Null /\ Unladen(g)
  BY DEF Starts
<1>3. DOMAIN frames = {} /\ DOMAIN frames' = {1} /\ frames'[1] = g
  BY DEF Starts
<1>4. \A s \in Slots, i, x \in Nat :
        /\ W[<<s, i, x>>] = Null
        /\ i # 1 => V[<<s, i, x>>] = Null
        /\ V[<<s, 1, x>>] = LocalAt(g, s, x)
  <2> SUFFICES ASSUME NEW s \in Slots, NEW i \in Nat, NEW x \in Nat
               PROVE  /\ W[<<s, i, x>>] = Null
                      /\ i # 1 => V[<<s, i, x>>] = Null
                      /\ V[<<s, 1, x>>] = LocalAt(g, s, x)
    OBVIOUS
  <2>1. /\ FrameAt(frames, s, i, x) = Null
        /\ i # 1 => FrameAt(frames', s, i, x) = Null
        /\ FrameAt(frames', s, 1, x) = LocalAt(g, s, x)
    BY <1>3 DEF FrameAt
  <2>2. /\ W[<<s, i, x>>] = FrameAt(frames, s, i, x)
        /\ V[<<s, i, x>>] = FrameAt(frames', s, i, x)
        /\ V[<<s, 1, x>>] = FrameAt(frames', s, 1, x)
    BY HoldsNow, HoldsNext
  <2> HIDE DEF W, V
  <2> QED
    BY <2>1, <2>2
<1>5. SameChildren(W, V, {p, q}) /\ LiveNodes' = LiveNodes
  BY HeapHolds
<1>6. W[p] = root /\ V[p] = Null /\ V[<<"ret", 0, 0>>] = W[<<"ret", 0, 0>>]
  BY HoldsNow, HoldsNext
<1>7. Owned(W, LiveNodes) /\ V \in [Places -> S]
  BY HoldingTyped
<1>8. p \in Places /\ q \in Places /\ p # q /\ "node" \in Slots
  BY SomePlaces DEF Slots
<1> HIDE DEF W, V, S
<1>9. W[q] = Null /\ V[q] = root
  BY <1>2, <1>4, <1>8, LocalIs
<1>10. SameLocals(W, V, {p, q})
  <2> SUFFICES ASSUME NEW s \in Slots, NEW i \in Nat, NEW x \in Nat, <<s, i, x>> # q
               PROVE  V[<<s, i, x>>] = Null
    BY <1>4 DEF SameLocals, Same
  <2>1. CASE i # 1
    BY <1>4, <2>1
  <2>2. CASE i = 1
    <3>1. s = "node" => x # 0
      BY <2>2
    <3>2. LocalAt(g, s, x) = Null
      BY <1>2, <3>1, LocalIs DEF Slots, Carried, Unladen
    <3> QED
      BY <1>4, <2>2, <3>2
  <2> QED
    BY <2>1, <2>2
<1>11. SameKinds(W, V, {p, q})
  BY <1>5, <1>6, <1>10 DEF SameKinds, Same
<1> HIDE DEF p, q
<1>12. IsMove(W, V, p, q)
  BY <1>6, <1>8, <1>9, <1>11 DEF IsMove
<1>13. Owned(V, LiveNodes)
  BY <1>7, <1>12, OneMove
<1> QED
  BY <1>5, <1>13 DEF V

(* After an exception there is nothing left to own. *)
LEMMA FailOwners ==
  ASSUME HeapOK, Fail
  PROVE  /\ Owned(Holding, LiveNodes)' /\ LiveNodes' = {}
         /\ \A p \in Places : What(p)' = Null
<1>1. /\ DOMAIN heap' = DOMAIN heap
      /\ \A m \in DOMAIN heap : heap'[m] = [heap[m] EXCEPT !.kind = "Destroyed", !.child = <<>>]
  BY DEF Fail, destroy
<1>2. \A m \in DOMAIN heap : heap'[m].kind = "Destroyed" /\ DOMAIN heap'[m].child = {}
  <2> SUFFICES ASSUME NEW m \in DOMAIN heap
               PROVE  heap'[m].kind = "Destroyed" /\ DOMAIN heap'[m].child = {}
    OBVIOUS
  <2>1. heap[m] \in HeapNodes
    BY NodesTyped DEF HeapOK, Formed
  <2>2. heap'[m].kind = "Destroyed" /\ heap'[m].child = <<>>
    BY <1>1, <2>1 DEF HeapNodes
  <2> QED
    BY <2>2
<1>3. LiveNodes' = {}
  BY <1>1, <1>2 DEF LiveNodes, Live
<1>4. root' = Null /\ ret' = Null /\ DOMAIN frames' = {}
  BY DEF Fail
<1>5. \A m, k : ChildAt(heap', m, k) = Null
  BY <1>1, <1>2 DEF ChildAt
<1>6. \A s, i, k : FrameAt(frames', s, i, k) = Null
  BY <1>4 DEF FrameAt
<1>7. \A p \in Places : What(p)' = Null
  BY <1>4, <1>5, <1>6, PlaceIs DEF What, WhatIn, Slots, Carried
<1>8. Holding' \in [Places -> {Null}] /\ \A p \in Places : Holding'[p] = Null
  BY <1>7 DEF Holding
<1>9. Owned(Holding', {})
  BY <1>8 DEF Owned
<1> QED
  BY <1>3, <1>7, <1>9

(* A step that leaves the plan and the stack alone. *)
LEMMA StillOwners ==
  ASSUME OwnersOK, UNCHANGED <<heap, root, frames, ret>>
  PROVE  OwnersOK'
<1>1. Holding' = Holding /\ LiveNodes' = LiveNodes
  BY DEF Holding, LiveNodes, Live, What
<1>2. HolesOK'
  BY DEF OwnersOK, HolesOK, What
<1> QED
  BY <1>1, <1>2 DEF OwnersOK

-----------------------------------------------------------------------------
(* What a step leaves alone *)

\* The heap is written at no other node.
OnlyAt(n) ==
  /\ heap' \in Seq(HeapNodes) /\ DOMAIN heap \subseteq DOMAIN heap'
  /\ \A m \in DOMAIN heap : m # n => heap'[m] = heap[m]

\* A node that the top activation works on or carries.
OnTop(n) == \E s \in Slots \ {"cur"}, x \in Nat : LocalAt(Here, s, x) = n

Kinds == {"root", "ret", "child", "cur"}

LEMMA Elsewhere ==
  ASSUME StructureOK, OwnersOK, frames # <<>>, NEW n, n # Null, OnTop(n)
  PROVE  /\ \A i \in DOMAIN frames : i # Len(frames) =>
              \A s \in Slots, x \in Nat : LocalAt(frames[i], s, x) # n
         /\ \A p \in Places : p[1] \in Kinds => What(p) # n
<1>1. PICK t \in Slots \ {"cur"}, y \in Nat : LocalAt(Here, t, y) = n
  BY DEF OnTop
<1> DEFINE q == <<t, Len(frames), y>>
<1>2. /\ frames \in Seq(FrameTypes) /\ Len(frames) \in DOMAIN frames /\ Here = frames[Len(frames)]
      /\ Len(frames) \in Nat /\ DOMAIN frames \subseteq Nat
  BY HereOK
<1>3. q \in Places /\ What(q) = n
  BY <1>1, <1>2, SomePlaces, WhatIsLocal
<1>4. \A p \in Places : (What(p) = n /\ What(p) # Null) => p = q
  <2>1. \A p, r \in Places : (Holding[p] # Null /\ Holding[p] = Holding[r]) => p = r
    BY DEF OwnersOK, Owned
  <2>2. \A p \in Places : Holding[p] = What(p)
    BY DEF Holding
  <2> HIDE DEF q
  <2> QED
    BY <1>3, <2>1, <2>2
<1>5. ASSUME NEW i \in DOMAIN frames, i # Len(frames), NEW s \in Slots, NEW x \in Nat
      PROVE  LocalAt(frames[i], s, x) # n
  <2> DEFINE p == <<s, i, x>>
  <2>1. p \in Places /\ What(p) = LocalAt(frames[i], s, x)
    BY <1>2, SomePlaces, WhatIsLocal
  <2>2. p # q
    BY <1>5
  <2> HIDE DEF p, q
  <2> QED
    BY <1>4, <2>1, <2>2
<1>6. ASSUME NEW p \in Places, p[1] \in Kinds
      PROVE  What(p) # n
  <2>1. p # q
    <3>1. q[1] = t /\ t \notin Kinds
      BY DEF Kinds, Slots, Carried
    <3> QED
      BY <1>6, <3>1
  <2> HIDE DEF q
  <2> QED
    BY <1>4, <2>1
<1> QED
  BY <1>5, <1>6

(* What an activation carries, slot by slot. *)
LEMMA CarriesHas ==
  ASSUME NEW f \in FrameTypes
  PROVE  /\ \A k \in DOMAIN f.arr : k \in Nat /\ f.arr[k].filter = LocalAt(f, "arr", k)
         /\ \A k \in DOMAIN f.rgt : k \in Nat /\ f.rgt[k].filter = LocalAt(f, "rgt", k)
         /\ \A k \in DOMAIN f.stay : k \in Nat /\ f.stay[k] = LocalAt(f, "stay", k)
<1> QED
  BY FrameTyped, LocalIs

\* The nodes of a frame are as they were.
SameNodes(f, n) == f.node # n /\ f.cur # n /\ \A s \in Carried, x \in Nat : LocalAt(f, s, x) # n

LEMMA FrameKept ==
  ASSUME NEW f \in FrameTypes, FrameOK(f, heap), NEW n, SameNodes(f, n) \/ n = Null, OnlyAt(n),
         heap \in Seq(HeapNodes)
  PROVE  FrameOK(f, heap')
<1>1. \A m \in DOMAIN heap : (m # n \/ n = Null) => m \in DOMAIN heap' /\ heap'[m] = heap[m]
  BY DEF OnlyAt, Null
<1>2. f.node \in DOMAIN heap /\ (f.node # n \/ n = Null)
  BY DEF FrameOK, SameNodes
<1>3. f.cur \in {Null} \cup DOMAIN heap'
  BY <1>1 DEF FrameOK, OnlyAt
<1>4. \A m : IsLoose(heap, m) /\ (m # n \/ n = Null) => IsLoose(heap', m)
  BY <1>1 DEF IsLoose
<1>5. CarriesOK(f, heap')
  <2>1. CarriesOK(f, heap)
    BY DEF FrameOK
  <2>2. /\ \A k \in DOMAIN f.arr : f.arr[k].filter # n \/ n = Null
        /\ \A k \in DOMAIN f.rgt : f.rgt[k].filter # n \/ n = Null
        /\ \A k \in DOMAIN f.stay : f.stay[k] # n \/ n = Null
    BY CarriesHas DEF SameNodes, Carried
  <2> QED
    BY <1>4, <2>1, <2>2 DEF CarriesOK
<1> QED
  BY <1>1, <1>2, <1>3, <1>5 DEF FrameOK

LEMMA FramesKept ==
  ASSUME StructureOK, OwnersOK, frames # <<>>, NEW n, n = Null \/ OnTop(n), OnlyAt(n)
  PROVE  \A i \in DOMAIN frames : i # Len(frames) => FrameOK(frames[i], heap')
<1> SUFFICES ASSUME NEW i \in DOMAIN frames, i # Len(frames) PROVE FrameOK(frames[i], heap')
  OBVIOUS
<1>1. frames[i] \in FrameTypes /\ FrameOK(frames[i], heap) /\ heap \in Seq(HeapNodes)
  BY DEF StructureOK, FramesOK, HeapOK, Formed
<1>2. SameNodes(frames[i], n) \/ n = Null
  <2>1. n # Null => \A s \in Slots, x \in Nat : LocalAt(frames[i], s, x) # n
    BY Elsewhere
  <2>2. "node" \in Slots /\ "cur" \in Slots /\ Carried \subseteq Slots
    BY DEF Slots
  <2>3. /\ LocalAt(frames[i], "node", 0) = frames[i].node
        /\ LocalAt(frames[i], "cur", 0) = frames[i].cur
    BY LocalIs
  <2> QED
    BY <2>1, <2>2, <2>3 DEF SameNodes
<1> QED
  BY <1>1, <1>2, FrameKept

\* The activations below the top one are as they should be after the step.
OthersOK == \A i \in DOMAIN frames : i # Len(frames) => FrameOK(frames[i], heap')

SamePass == \A i \in DOMAIN frames' : frames'[i].pass = Here.pass

LEMMA StackContinues ==
  ASSUME StructureOK, frames # <<>>, OthersOK, NEW f \in FrameTypes, Continue(f),
         FrameOK(f, heap'), ~Waits(f), f.pass = Here.pass,
         ret' = Null, root' = root, outcome' = outcome
  PROVE  FramesOK' /\ StackOK' /\ SamePass
<1>1. /\ frames' \in Seq(FrameTypes) /\ Len(frames') = Len(frames)
      /\ DOMAIN frames' = DOMAIN frames /\ frames' # <<>>
      /\ frames'[Len(frames)] = f
      /\ \A i \in DOMAIN frames : i # Len(frames) => frames'[i] = frames[i]
  BY HereOK, Continued
<1>2. FramesOK'
  BY <1>1 DEF FramesOK, OthersOK
<1>3. /\ Len(frames) \in Nat \ {0} /\ DOMAIN frames = 1 .. Len(frames)
      /\ Here = frames[Len(frames)] /\ root = Null
      /\ outcome # "threw" /\ Len(frames) \in DOMAIN frames
  BY HereOK
<1>4. \A i \in DOMAIN frames' : Waits(frames'[i]) <=> (i < Len(frames') \/ ret' # Null)
  <2> SUFFICES ASSUME NEW i \in DOMAIN frames
               PROVE  Waits(frames'[i]) <=> i < Len(frames)
    BY <1>1
  <2>1. i # Len(frames) => i < Len(frames) /\ Waits(frames[i])
    BY <1>3 DEF StructureOK, StackOK
  <2> QED
    BY <1>1, <1>3, <2>1
<1>5. SamePass
  <2>1. \A i \in DOMAIN frames : frames[i].pass = Here.pass
    BY <1>3 DEF StructureOK, StackOK
  <2>2. \A i \in DOMAIN frames : frames'[i].pass = Here.pass
    BY <1>1, <2>1
  <2> QED
    BY <1>1, <2>2 DEF SamePass
<1> QED
  BY <1>1, <1>2, <1>3, <1>4, <1>5 DEF StackOK, SamePass

LEMMA StackRecurses ==
  ASSUME StructureOK, frames # <<>>, OthersOK, NEW f \in FrameTypes, NEW c \in Nat,
         NEW arr \in Seq(FilterEntries), Recurse(f, c, arr),
         FrameOK(f, heap'), FrameOK(Frame(f.pass, c, arr), heap'), Waits(f), f.pass = Here.pass,
         ret' = Null, root' = root, outcome' = outcome
  PROVE  FramesOK' /\ StackOK' /\ SamePass
<1> DEFINE g == Frame(f.pass, c, arr)
           N == Len(frames)
<1>1. /\ frames' \in Seq(FrameTypes) /\ Len(frames') = N + 1
      /\ DOMAIN frames' = DOMAIN frames \cup {N + 1} /\ frames' # <<>>
      /\ frames'[N] = f /\ frames'[N + 1] = g
      /\ \A i \in DOMAIN frames : i # N => frames'[i] = frames[i]
  BY HereOK, Recursed
<1>2. g.pass = Here.pass /\ ~Waits(g)
  <2>1. f.pass \in {"choose", "push"}
    BY FrameTyped
  <2>2. g.pass = f.pass /\ g.at = "enter"
    BY <2>1, NewFrame
  <2> HIDE DEF g
  <2> QED
    BY <2>2 DEF Waits
<1>3. /\ N \in Nat \ {0} /\ DOMAIN frames = 1 .. N
      /\ Here = frames[N] /\ root = Null /\ outcome # "threw" /\ N \in DOMAIN frames
  BY HereOK
<1>4. FrameOK(g, heap')
  OBVIOUS
<1> HIDE DEF g, N
<1>5. FramesOK'
  <2> SUFFICES ASSUME NEW i \in DOMAIN frames' PROVE FrameOK(frames'[i], heap')
    BY <1>1 DEF FramesOK
  <2>1. i = N \/ i = N + 1 \/ (i \in DOMAIN frames /\ i # N)
    BY <1>1
  <2> QED
    BY <1>1, <1>4, <2>1 DEF OthersOK, N
<1>6. \A i \in DOMAIN frames' : Waits(frames'[i]) <=> (i < Len(frames') \/ ret' # Null)
  <2> SUFFICES ASSUME NEW i \in DOMAIN frames'
               PROVE  Waits(frames'[i]) <=> i < N + 1
    BY <1>1
  <2>1. CASE i = N + 1
    BY <1>1, <1>2, <1>3, <2>1
  <2>2. CASE i = N
    BY <1>1, <1>3, <2>2
  <2>3. CASE i \in DOMAIN frames /\ i # N
    <3>1. i < N /\ i < Len(frames)
      BY <1>3, <2>3 DEF N
    <3>2. Waits(frames[i])
      BY <2>3, <3>1 DEF StructureOK, StackOK
    <3> QED
      BY <1>1, <1>3, <2>3, <3>1, <3>2
  <2> QED
    BY <1>1, <2>1, <2>2, <2>3
<1>7. SamePass
  <2>1. \A i \in DOMAIN frames : frames[i].pass = Here.pass
    BY <1>3 DEF StructureOK, StackOK
  <2>2. \A i \in DOMAIN frames' : frames'[i].pass = Here.pass
    BY <1>1, <1>2, <2>1
  <2> QED
    BY <2>2 DEF SamePass
<1> QED
  BY <1>1, <1>3, <1>5, <1>6, <1>7 DEF StackOK, SamePass

LEMMA StackGivesBack ==
  ASSUME StructureOK, frames # <<>>, OthersOK, NEW n, GiveBack(n), n \in DOMAIN heap', n # Null,
         DOMAIN heap \subseteq DOMAIN heap'
  PROVE  FramesOK' /\ StackOK' /\ SamePass
<1> DEFINE N == Len(frames)
<1>1. /\ frames' \in Seq(FrameTypes) /\ Len(frames') = N - 1
      /\ DOMAIN frames' = DOMAIN frames \ {N}
      /\ \A i \in DOMAIN frames : i # N => frames'[i] = frames[i]
      /\ N = 1 => frames' = <<>> /\ root' = n /\ ret' = Null /\ outcome' = Here.pass
      /\ N # 1 => frames' # <<>> /\ ret' = n /\ root' = root /\ outcome' = outcome
  BY HereOK, GivenBack
<1>3. /\ N \in Nat \ {0} /\ DOMAIN frames = 1 .. N /\ Here \in FrameTypes
      /\ Here = frames[N] /\ root = Null /\ outcome # "threw" /\ N \in DOMAIN frames
  BY HereOK
<1>4. Here.pass # "threw"
  BY <1>3, FrameTyped
<1> HIDE DEF N
<1>5. FramesOK'
  BY <1>1 DEF FramesOK, OthersOK, N
<1>6. SamePass
  BY <1>1, <1>3 DEF StructureOK, StackOK, SamePass
<1>7. \A i \in DOMAIN frames' : Waits(frames'[i]) <=> (i < Len(frames') \/ ret' # Null)
  <2> SUFFICES ASSUME NEW i \in DOMAIN frames'
               PROVE  Waits(frames'[i]) /\ ret' # Null
    OBVIOUS
  <2>1. i < N /\ N # 1 /\ i \in DOMAIN frames /\ i < Len(frames)
    BY <1>1, <1>3 DEF N
  <2>2. Waits(frames[i])
    BY <2>1 DEF StructureOK, StackOK
  <2> QED
    BY <1>1, <2>1, <2>2
<1> QED
  <2>1. CASE N = 1
    BY <1>1, <1>4, <1>5, <1>6, <1>7, <2>1 DEF StackOK, SamePass
  <2>2. CASE N # 1
    BY <1>1, <1>3, <1>5, <1>6, <1>7, <2>2 DEF StackOK, SamePass
  <2> QED
    BY <2>1, <2>2

\* A pointer that is handed on: Null, or to a node that has all its children.
Sound(c) ==
  \/ c = Null
  \/ \E q \in Places : q[1] \in Kinds /\ What(q) = c
  \/ c \in DOMAIN heap' /\ IsWhole(heap'[c])

LEMMA HeldIsLive ==
  ASSUME OwnersOK, NEW p \in Places, What(p) # Null
  PROVE  What(p) \in LiveNodes /\ What(p) \in DOMAIN heap /\ Live(What(p))
<1>1. Holding[p] = What(p) /\ Holding[p] \in {Null} \cup LiveNodes
  BY DEF Holding, OwnersOK, Owned
<1> QED
  BY <1>1 DEF LiveNodes

LEMMA HolesFilled ==
  ASSUME StructureOK, OwnersOK, frames # <<>>, NEW n, n = Null \/ OnTop(n), OnlyAt(n),
         Sound(root'), Sound(ret'), \A m, k \in Nat : Sound(ChildAt(heap', m, k)),
         \A i, k \in Nat : Sound(FrameAt(frames', "cur", i, k))
  PROVE  HolesOK'
<1>1. ASSUME NEW c, c # Null, Sound(c)
      PROVE  IsWhole(heap'[c])
  <2>1. CASE \E q \in Places : q[1] \in Kinds /\ What(q) = c
    <3>1. PICK q \in Places : q[1] \in Kinds /\ What(q) = c
      BY <2>1
    <3>2. c \in DOMAIN heap
      BY <1>1, <3>1, HeldIsLive
    <3>3. c # n
      BY <1>1, <3>1, Elsewhere
    <3>4. IsWhole(heap[c])
      BY <1>1, <3>1 DEF OwnersOK, HolesOK, Kinds
    <3> QED
      BY <3>2, <3>3, <3>4 DEF OnlyAt
  <2> QED
    BY <1>1, <2>1 DEF Sound
<1>2. ASSUME NEW p \in Places, p[1] \in Kinds
      PROVE  Sound(What(p)')
  <2>1. p = <<p[1], p[2], p[3]>> /\ p[2] \in Nat /\ p[3] \in Nat
    BY PlaceIs
  <2>2. \/ p = <<"root", 0, 0>> \/ p = <<"ret", 0, 0>> \/ p[1] = "child" \/ p[1] = "cur"
    BY <1>2, PlaceIs DEF Kinds, Slots, Carried
  <2>3. p[1] = "child" => What(p)' = ChildAt(heap', p[2], p[3])
    BY DEF What, WhatIn, Slots, Carried
  <2>4. p[1] = "cur" => What(p)' = FrameAt(frames', "cur", p[2], p[3])
    BY DEF What, WhatIn, Slots
  <2>5. /\ p = <<"root", 0, 0>> => What(p)' = root'
        /\ p = <<"ret", 0, 0>> => What(p)' = ret'
    BY WhatNext
  <2> QED
    BY <2>1, <2>2, <2>3, <2>4, <2>5
<1> QED
  BY <1>1, <1>2 DEF HolesOK, Kinds

LEMMA SoundNow ==
  /\ Sound(Null) /\ Sound(root) /\ Sound(ret)
  /\ \A m, k \in Nat : Sound(ChildAt(heap, m, k))
  /\ \A i, k \in Nat : Sound(FrameAt(frames, "cur", i, k))
<1>1. Sound(Null)
  BY DEF Sound
<1>2. Sound(root) /\ Sound(ret)
  BY SomePlaces, WhatNow DEF Sound, Kinds
<1>3. ASSUME NEW m \in Nat, NEW k \in Nat PROVE Sound(ChildAt(heap, m, k))
  <2>1. <<"child", m, k>> \in Places /\ What(<<"child", m, k>>) = ChildAt(heap, m, k)
    BY SomePlaces, WhatNow
  <2> QED
    BY <2>1 DEF Sound, Kinds
<1>4. ASSUME NEW i \in Nat, NEW k \in Nat PROVE Sound(FrameAt(frames, "cur", i, k))
  <2>1. <<"cur", i, k>> \in Places /\ What(<<"cur", i, k>>) = FrameAt(frames, "cur", i, k)
    BY SomePlaces, WhatNow DEF Slots
  <2> QED
    BY <2>1 DEF Sound, Kinds
<1> QED
  BY <1>1, <1>2, <1>3, <1>4

LEMMA CurIsSound ==
  ASSUME StructureOK, frames # <<>>
  PROVE  Sound(Here.cur)
<1>1. FrameAt(frames, "cur", Len(frames), 0) = Here.cur /\ Len(frames) \in Nat
  BY HereOK, LocalIs DEF FrameAt
<1> QED
  BY <1>1, SoundNow

LEMMA ContinuedSound ==
  ASSUME StructureOK, frames # <<>>, NEW f \in FrameTypes, Continue(f), Sound(f.cur)
  PROVE  \A i, k \in Nat : Sound(FrameAt(frames', "cur", i, k))
<1> SUFFICES ASSUME NEW i \in Nat, NEW k \in Nat PROVE Sound(FrameAt(frames', "cur", i, k))
  OBVIOUS
<1>1. CASE i = Len(frames)
  BY <1>1, HereOK, ContinuedAt, LocalIs, SoundNow
<1>2. CASE i # Len(frames)
  BY <1>2, HereOK, ContinuedAt, SoundNow
<1> QED
  BY <1>1, <1>2

LEMMA RecursedSound ==
  ASSUME StructureOK, frames # <<>>, NEW f \in FrameTypes, NEW c \in Nat,
         NEW arr \in Seq(FilterEntries), Recurse(f, c, arr), Sound(f.cur)
  PROVE  \A i, k \in Nat : Sound(FrameAt(frames', "cur", i, k))
<1> SUFFICES ASSUME NEW i \in Nat, NEW k \in Nat PROVE Sound(FrameAt(frames', "cur", i, k))
  OBVIOUS
<1>1. CASE i = Len(frames)
  BY <1>1, HereOK, RecursedAt, LocalIs, SoundNow
<1>2. CASE i = Len(frames) + 1
  <2>1. Frame(f.pass, c, arr).cur = Null
    BY FrameTyped, NewFrame
  <2>2. FrameAt(frames', "cur", i, k) = LocalAt(Frame(f.pass, c, arr), "cur", k)
    BY <1>2, HereOK, RecursedAt
  <2> QED
    BY <2>1, <2>2, LocalIs, SoundNow
<1>3. CASE i \notin {Len(frames), Len(frames) + 1}
  <2>1. frames \in Seq(FrameTypes)
    BY HereOK
  <2>2. /\ \A x : x \notin {Len(frames), Len(frames) + 1} =>
                    FrameAt(frames', "cur", x, k) = FrameAt(frames, "cur", x, k)
        /\ FrameAt(frames', "cur", Len(frames), k) = LocalAt(f, "cur", k)
        /\ FrameAt(frames', "cur", Len(frames) + 1, k) = LocalAt(Frame(f.pass, c, arr), "cur", k)
        /\ FrameAt(frames, "cur", Len(frames), k) = LocalAt(Here, "cur", k)
        /\ FrameAt(frames, "cur", Len(frames) + 1, k) = Null
    BY <2>1, RecursedAt
  <2>3. FrameAt(frames', "cur", i, k) = FrameAt(frames, "cur", i, k)
    BY <1>3, <2>2
  <2> QED
    BY <2>3, SoundNow
<1> QED
  BY <1>1, <1>2, <1>3

LEMMA GivenBackSound ==
  ASSUME StructureOK, frames # <<>>, NEW n, GiveBack(n), Sound(n)
  PROVE  /\ Sound(root') /\ Sound(ret')
         /\ \A i, k \in Nat : Sound(FrameAt(frames', "cur", i, k))
<1>1. Sound(root') /\ Sound(ret')
  BY SoundNow DEF GiveBack
<1> SUFFICES ASSUME NEW i \in Nat, NEW k \in Nat PROVE Sound(FrameAt(frames', "cur", i, k))
  BY <1>1
<1>2. \/ FrameAt(frames', "cur", i, k) = FrameAt(frames, "cur", i, k)
      \/ FrameAt(frames', "cur", i, k) = Null
  BY HereOK, GivenBackAt
<1> QED
  BY <1>2, SoundNow

LEMMA WrittenSound ==
  ASSUME NEW n, NEW k, NEW c, Writes(n, k, c), Sound(c)
  PROVE  \A m, j \in Nat : Sound(ChildAt(heap', m, j))
<1> SUFFICES ASSUME NEW m \in Nat, NEW j \in Nat PROVE Sound(ChildAt(heap', m, j))
  OBVIOUS
<1>1. WritesIn(heap, heap', n, k, c)
  BY DEF Writes
<1>2. CASE m = n /\ j = k
  BY <1>1, <1>2, SlotWritten
<1>3. CASE m # n \/ j # k
  <2>1. ChildAt(heap', m, j) = ChildAt(heap, m, j)
    BY <1>1, <1>3, SlotWritten
  <2> QED
    BY <2>1, SoundNow
<1> QED
  BY <1>2, <1>3

-----------------------------------------------------------------------------
(* Schemas *)

(* A column that a schema has is found in it. *)
LEMMA ColumnFound ==
  ASSUME NEW sch \in Schemas, NEW c, HasColumn(sch, c)
  PROVE  sch[AttributeId(sch, c)] = c
<1> DEFINE at == {i \in 1 .. Len(sch) : sch[i] = c}
           fromEnd == {Len(sch) - i : i \in at}
<1>1. DOMAIN sch = 1 .. Len(sch) /\ Len(sch) \in Nat
  BY DEF Schemas
<1>2. at # {}
  BY <1>1 DEF HasColumn
<1>3. fromEnd \in SUBSET Nat /\ fromEnd # {}
  BY <1>1, <1>2
<1>4. PICK x \in fromEnd : \A y \in fromEnd : x <= y
  <2> HIDE DEF fromEnd
  <2> QED
    BY <1>3, LeastNatural
<1>5. PICK i \in at : x = Len(sch) - i
  OBVIOUS
<1>6. \A j \in at : j <= i
  <2> SUFFICES ASSUME NEW j \in at PROVE j <= i
    OBVIOUS
  <2>1. Len(sch) - i <= Len(sch) - j
    BY <1>4, <1>5
  <2> QED
    BY <1>1, <2>1
<1>7. \E k \in DOMAIN sch : sch[k] = c /\ \A j \in DOMAIN sch : sch[j] = c => j <= k
  BY <1>1, <1>5, <1>6
<1> QED
  BY <1>7 DEF AttributeId

(* The schema of a join of the first k plans. *)
LEMMA JoinedIs ==
  ASSUME NEW sc \in Seq(Schemas)
  PROVE  /\ Joined(sc)[0] = <<>>
         /\ \A k \in 1 .. Len(sc) : Joined(sc)[k] = Joined(sc)[k - 1] \o sc[k]
<1> DEFINE N == Len(sc)
           none == <<>>
           step == [k \in 1 .. N |-> [q \in Schemas |-> q \o sc[k]]]
<1>1. N \in Nat /\ none \in Schemas /\ \A k \in 1 .. N : sc[k] \in Schemas
  BY DEF Schemas
<1>2. \A q \in Schemas : \A k \in 1 .. N : q \o sc[k] \in Schemas
  BY <1>1 DEF Schemas
<1> HIDE DEF N
<1>3. step \in Steps(N, Schemas)
  BY <1>2 DEF Steps
<1>4. \A k \in 1 .. N, q \in Schemas : step[k][q] = q \o sc[k]
  OBVIOUS
<1> HIDE DEF step, none
<1>5. Solutions(N, Schemas, none, step) # {}
  BY <1>1, <1>3, RecursionExists
<1>6. PICK f \in [0 .. N -> Schemas] : f[0] = none /\ \A k \in 1 .. N : f[k] = step[k][f[k - 1]]
  BY <1>5 DEF Solutions
<1>7. ASSUME NEW k \in 1 .. N PROVE f[k] = f[k - 1] \o sc[k]
  <2>1. f[k - 1] \in Schemas
    BY <1>1
  <2> QED
    BY <1>4, <1>6, <2>1
<1>8. f = [k \in 0 .. N |-> IF k = 0 THEN none ELSE f[k - 1] \o sc[k]]
  <2>1. f = [k \in 0 .. N |-> f[k]]
    OBVIOUS
  <2>2. \A k \in 0 .. N : f[k] = IF k = 0 THEN none ELSE f[k - 1] \o sc[k]
    BY <1>1, <1>6, <1>7
  <2> QED
    BY <2>1, <2>2
<1>9. Joined(sc) = [k \in 0 .. N |-> IF k = 0 THEN none ELSE Joined(sc)[k - 1] \o sc[k]]
  BY <1>8 DEF Joined, N, none
<1> DEFINE g == Joined(sc)
<1>10. g = [k \in 0 .. N |-> IF k = 0 THEN none ELSE g[k - 1] \o sc[k]]
  BY <1>9
<1> HIDE DEF g
<1>11. ASSUME NEW k \in 1 .. N PROVE g[k] = g[k - 1] \o sc[k]
  <2>1. k \in 0 .. N /\ k # 0
    BY <1>1
  <2> QED
    BY <1>10, <2>1
<1>12. g[0] = none
  <2>1. 0 \in 0 .. N
    BY <1>1
  <2> QED
    BY <1>10, <2>1
<1> QED
  BY <1>11, <1>12 DEF g, N, none

\* Pointer k of node n is back: these are the schemas of its children.
BackIn(h, n, k, c, sc) ==
  /\ h \in Seq(HeapNodes) /\ n \in DOMAIN h /\ k \in DOMAIN h[n].child /\ c \in DOMAIN h
  /\ h[n].kind \in {"Filter", "Projection", "BinaryJoin"} /\ ArityOK(h[n])
  /\ sc \in Seq(Schemas) /\ Fits(h[n], sc) /\ Len(sc) = Len(h[n].child)
  /\ sc[k] = h[c].schema
  /\ \A j \in DOMAIN h[n].child : j # k =>
       h[n].child[j] \in DOMAIN h /\ sc[j] = h[h[n].child[j]].schema

(* set_child() computes the schema that the node had. *)
LEMMA ChildComesBack ==
  ASSUME NEW h, NEW n, NEW k, NEW c, NEW sc, BackIn(h, n, k, c, sc)
  PROVE  set_child(h, n, k, c) = Write(h, n, k, c)
<1> DEFINE g == Write(h, n, k, c)
<1>1. /\ h \in Seq(HeapNodes) /\ n \in DOMAIN h /\ k \in DOMAIN h[n].child /\ c \in DOMAIN h
      /\ h[n].kind \in {"Filter", "Projection", "BinaryJoin"} /\ ArityOK(h[n])
      /\ sc \in Seq(Schemas) /\ Fits(h[n], sc)
  BY DEF BackIn
<1>2. c \in Nat /\ h[n].child \in Seq(Nat)
  BY <1>1, NodesTyped
<1>3. /\ SameBut(g, h, n) /\ g[n].schema = h[n].schema
      /\ \A j \in DOMAIN h[n].child : g[n].child[j] = IF j = k THEN c ELSE h[n].child[j]
  BY <1>1, <1>2, PointerWritten
<1> HIDE DEF g
<1>4. \A m \in DOMAIN h : g[m].schema = h[m].schema
  BY <1>3 DEF SameBut
<1>5. \A j \in DOMAIN h[n].child : g[g[n].child[j]].schema = sc[j]
  BY <1>3, <1>4 DEF BackIn
<1>6. g \in Seq(HeapNodes) /\ n \in DOMAIN g /\ g[n].kind = h[n].kind
  BY <1>1, <1>3 DEF SameBut
<1>7. OutputSchema(g, n) = g[n].schema
  <2>1. Len(h[n].child) \in {1, 2} /\ DOMAIN h[n].child = 1 .. Len(h[n].child)
        /\ (h[n].kind = "BinaryJoin" => Len(h[n].child) = 2)
    BY <1>1, <1>2 DEF ArityOK
  <2>2. 1 \in DOMAIN h[n].child /\ (h[n].kind = "BinaryJoin" => 2 \in DOMAIN h[n].child)
    <3>1. 1 \in 1 .. 1 /\ 1 \in 1 .. 2 /\ 2 \in 1 .. 2
      OBVIOUS
    <3> QED
      BY <2>1, <3>1, Zenon
  <2>3. /\ g[g[n].child[1]].schema = sc[1]
        /\ h[n].kind = "BinaryJoin" => g[g[n].child[2]].schema = sc[2]
    BY <1>5, <2>2
  <2>4. CASE h[n].kind = "Filter"
    BY <1>1, <1>3, <1>6, <2>3, <2>4 DEF OutputSchema, FilterSchema, Fits
  <2>5. CASE h[n].kind = "BinaryJoin"
    BY <1>1, <1>3, <1>6, <2>3, <2>5 DEF OutputSchema, JoinSchema, Fits
  <2>6. CASE h[n].kind = "Projection"
    <3> DEFINE sch == h[n].schema
               shc == sc[1]
    <3>1. sch \in Schemas /\ shc \in Schemas
      <4>1. 1 \in DOMAIN sc
        BY <1>1, <2>1 DEF BackIn
      <4> QED
        BY <1>1, <4>1, NodesTyped
    <3>2. \A i \in DOMAIN sch : HasColumn(shc, sch[i])
      BY <1>1, <2>6 DEF Fits
    <3>3. OutputSchema(g, n) = [i \in DOMAIN sch |-> shc[AttributeId(shc, sch[i])]]
      BY <1>3, <1>6, <2>3, <2>6 DEF OutputSchema, ProjectionSchema
    <3> HIDE DEF sch, shc
    <3>4. \A i \in DOMAIN sch : shc[AttributeId(shc, sch[i])] = sch[i]
      BY <3>1, <3>2, ColumnFound
    <3>5. sch = [i \in DOMAIN sch |-> sch[i]]
      BY <3>1 DEF Schemas
    <3> QED
      BY <1>3, <3>3, <3>4, <3>5 DEF sch
  <2> QED
    BY <1>1, <2>4, <2>5, <2>6
<1>8. set_child(h, n, k, c) = [g EXCEPT ![n].schema = OutputSchema(g, n)]
  BY DEF set_child, build_output_schema, g, Write
<1>9. [g EXCEPT ![n].schema = g[n].schema] = g
  <2>1. g[n] \in HeapNodes
    BY <1>6
  <2>2. [g[n] EXCEPT !.schema = g[n].schema] = g[n]
    BY <2>1 DEF HeapNodes
  <2>3. [g EXCEPT ![n] = g[n]] = g
    BY <1>6
  <2> QED
    BY <2>2, <2>3
<1> QED
  BY <1>7, <1>8, <1>9 DEF g

LEMMA SetChildWrites ==
  ASSUME StructureOK, SchemasOK, frames # <<>>, Waits(Here), NEW k, k = WaitsFor(Here),
         k \in DOMAIN heap[Here.node].child,
         heap[Here.node].kind \in {"Filter", "Projection", "BinaryJoin"},
         \A j \in DOMAIN heap[Here.node].child : j # k => heap[Here.node].child[j] # Null
  PROVE  set_child(heap, Here.node, k, ret) = Write(heap, Here.node, k, ret)
<1> DEFINE n == Here.node
<1>1. /\ heap \in Seq(HeapNodes) /\ n \in DOMAIN heap /\ Live(n) /\ ArityOK(heap[n])
      /\ ret \in DOMAIN heap /\ Len(frames) \in DOMAIN frames /\ Here = frames[Len(frames)]
      /\ Len(frames) \in Nat
      /\ \A j \in DOMAIN heap[n].child : heap[n].child[j] \in {Null} \cup DOMAIN heap
  BY HereOK
<1>2. PICK sc : SchemasFit(n, sc)
  BY <1>1 DEF SchemasOK
<1>3. FrameFits(heap, Here, Below(Len(frames)), sc) /\ Below(Len(frames)) = ret
  BY <1>1, <1>2 DEF SchemasFit, Below
<1>4. NodeFits(heap, n, sc)
  BY <1>2 DEF SchemasFit
<1>5. sc[k] = heap[ret].schema
  BY <1>3 DEF FrameFits
<1>6. BackIn(heap, n, k, ret, sc)
  BY <1>1, <1>4, <1>5 DEF BackIn, NodeFits
<1> QED
  BY <1>6, ChildComesBack

SameSchemas(g, h) == \A m \in DOMAIN h : g[m].schema = h[m].schema

LEMMA NodeStillFits ==
  ASSUME NEW h, NEW g, NEW n, NEW k, NEW c, WritesIn(h, g, n, k, c), NEW sc, NodeFits(h, n, sc),
         SameSchemas(g, h), \A j \in DOMAIN h[n].child : h[n].child[j] \in {Null} \cup DOMAIN h,
         c # Null => c \in DOMAIN h /\ sc[k] = h[c].schema
  PROVE  NodeFits(g, n, sc)
<1>1. /\ g[n].kind = h[n].kind /\ g[n].rel = h[n].rel /\ n \in DOMAIN h
      /\ Len(g[n].child) = Len(h[n].child) /\ DOMAIN g[n].child = DOMAIN h[n].child
      /\ \A j \in DOMAIN h[n].child : g[n].child[j] = IF j = k THEN c ELSE h[n].child[j]
  BY DEF WritesIn, SameBut
<1>2. Fits(g[n], sc)
  <2>1. g[n].schema = h[n].schema /\ Fits(h[n], sc)
    BY <1>1 DEF NodeFits, SameSchemas
  <2> QED
    BY <1>1, <2>1 DEF Fits
<1>3. ASSUME NEW j \in DOMAIN h[n].child, g[n].child[j] # Null
      PROVE  sc[j] = g[g[n].child[j]].schema
  <2>1. CASE j = k
    BY <1>1, <1>3, <2>1 DEF SameSchemas
  <2>2. CASE j # k
    BY <1>1, <1>3, <2>2 DEF SameSchemas, NodeFits
  <2> QED
    BY <2>1, <2>2
<1> QED
  BY <1>1, <1>2, <1>3 DEF NodeFits

\* Nothing waits for another schema than it did.
BelowSame ==
  \A i \in DOMAIN frames : i # Len(frames) => heap'[Below(i)'].schema = heap[Below(i)].schema

\* An activation that neither waits for a schema nor joins.
Free(f) == ~Waits(f) /\ f.cur = Null

LEMMA SchemaStays ==
  ASSUME StructureOK, OwnersOK, SchemasOK, frames # <<>>,
         NEW n, n = Null \/ OnTop(n), OnlyAt(n), BelowSame,
         NEW m \in DOMAIN heap, Live(m), m # n,
         \A i \in DOMAIN frames' : frames'[i].node = m =>
            \/ i \in DOMAIN frames /\ i # Len(frames) /\ frames'[i] = frames[i]
            \/ Free(frames'[i])
  PROVE  \E sc : SchemasFit(m, sc)'
<1>1. PICK sc : SchemasFit(m, sc)
  BY DEF SchemasOK
<1>2. heap'[m] = heap[m]
  BY DEF OnlyAt
<1>3. \A p \in Places : (p[1] \in Kinds /\ What(p) # Null) =>
        What(p) \in DOMAIN heap /\ heap'[What(p)] = heap[What(p)]
  BY HeldIsLive, Elsewhere DEF OnlyAt
<1>4. NodeFits(heap', m, sc)
  <2> SUFFICES ASSUME NEW k \in DOMAIN heap[m].child, heap[m].child[k] # Null
               PROVE  sc[k] = heap'[heap[m].child[k]].schema
    BY <1>1, <1>2 DEF SchemasFit, NodeFits
  <2> DEFINE p == <<"child", m, k>>
  <2>1. p \in Places /\ p[1] \in Kinds
    <3>1. m \in Nat /\ k \in Nat
      BY NodesTyped DEF StructureOK, HeapOK, Formed
    <3> QED
      BY <3>1, SomePlaces DEF Kinds
  <2>2. What(p) = heap[m].child[k]
    BY WhatNow DEF ChildAt
  <2> HIDE DEF p
  <2> QED
    BY <1>1, <1>3, <2>1, <2>2 DEF SchemasFit, NodeFits
<1>5. ASSUME NEW i \in DOMAIN frames', frames'[i].node = m
      PROVE  FrameFits(heap', frames'[i], Below(i)', sc)
  <2>1. CASE Free(frames'[i])
    BY <2>1 DEF Free, FrameFits
  <2>2. CASE i \in DOMAIN frames /\ i # Len(frames) /\ frames'[i] = frames[i]
    <3>1. FrameFits(heap, frames[i], Below(i), sc)
      BY <1>1, <1>5, <2>2 DEF SchemasFit
    <3>2. heap'[Below(i)'].schema = heap[Below(i)].schema
      BY <2>2 DEF BelowSame
    <3>3. frames[i].cur # Null => heap'[frames[i].cur] = heap[frames[i].cur]
      <4> DEFINE p == <<"cur", i, 0>>
      <4>1. What(p) = frames[i].cur
        BY <2>2, WhatIsLocal, LocalIs DEF Slots
      <4>2. p \in Places /\ p[1] \in Kinds
        <5>1. i \in Nat
          BY <2>2 DEF StructureOK, FramesOK
        <5> QED
          BY <5>1, SomePlaces DEF Slots, Kinds
      <4> HIDE DEF p
      <4> QED
        BY <1>3, <4>1, <4>2
    <3> QED
      BY <2>2, <3>1, <3>2, <3>3 DEF FrameFits
  <2> QED
    BY <1>5, <2>1, <2>2
<1> QED
  BY <1>4, <1>5 DEF SchemasFit

\* The activations further down keep their nodes, and these their schemas.
LEMMA FarBelowSame ==
  ASSUME StructureOK, OwnersOK, frames # <<>>, NEW n, n = Null \/ OnTop(n), OnlyAt(n),
         NEW i \in DOMAIN frames, i # Len(frames), i + 1 # Len(frames)
  PROVE  /\ i + 1 \in DOMAIN frames /\ Below(i) = frames[i + 1].node
         /\ heap'[frames[i + 1].node].schema = heap[Below(i)].schema
<1>1. i \in Nat /\ i < Len(frames) /\ i + 1 \in DOMAIN frames
  BY HereOK
<1>2. Below(i) = frames[i + 1].node
  BY <1>1 DEF Below
<1>3. frames[i + 1].node \in DOMAIN heap
  BY <1>1 DEF StructureOK, FramesOK, FrameOK
<1>4. n # Null => frames[i + 1].node # n
  <2>1. n # Null => LocalAt(frames[i + 1], "node", 0) # n
    BY <1>1, Elsewhere DEF Slots
  <2> QED
    BY <2>1, LocalIs
<1>5. Null \notin DOMAIN heap
  BY NodesTyped DEF StructureOK, HeapOK, Formed, Null
<1>6. heap'[frames[i + 1].node] = heap[frames[i + 1].node]
  BY <1>3, <1>4, <1>5 DEF OnlyAt
<1> QED
  BY <1>1, <1>2, <1>6

LEMMA BelowContinues ==
  ASSUME StructureOK, OwnersOK, frames # <<>>, NEW n, n = Null \/ OnTop(n), OnlyAt(n),
         NEW f \in FrameTypes, Continue(f), heap'[f.node].schema = heap[Here.node].schema
  PROVE  BelowSame
<1> SUFFICES ASSUME NEW i \in DOMAIN frames, i # Len(frames)
             PROVE  heap'[Below(i)'].schema = heap[Below(i)].schema
  BY DEF BelowSame
<1>1. /\ Len(frames') = Len(frames) /\ frames'[Len(frames)] = f
      /\ \A j \in DOMAIN frames : j # Len(frames) => frames'[j] = frames[j]
  BY HereOK, Continued
<1>2. i \in Nat /\ i < Len(frames) /\ Here = frames[Len(frames)]
  BY HereOK
<1>3. Below(i)' = frames'[i + 1].node /\ Below(i) = frames[i + 1].node
  BY <1>1, <1>2 DEF Below
<1>4. CASE i + 1 = Len(frames)
  BY <1>1, <1>2, <1>3, <1>4
<1>5. CASE i + 1 # Len(frames)
  BY <1>1, <1>3, <1>5, FarBelowSame
<1> QED
  BY <1>4, <1>5

LEMMA BelowRecurses ==
  ASSUME StructureOK, OwnersOK, frames # <<>>, NEW n, n = Null \/ OnTop(n), OnlyAt(n),
         NEW f \in FrameTypes, NEW c \in Nat, NEW arr \in Seq(FilterEntries), Recurse(f, c, arr),
         heap'[f.node].schema = heap[Here.node].schema
  PROVE  BelowSame
<1> SUFFICES ASSUME NEW i \in DOMAIN frames, i # Len(frames)
             PROVE  heap'[Below(i)'].schema = heap[Below(i)].schema
  BY DEF BelowSame
<1>1. /\ Len(frames') = Len(frames) + 1 /\ frames'[Len(frames)] = f
      /\ \A j \in DOMAIN frames : j # Len(frames) => frames'[j] = frames[j]
  BY HereOK, Recursed
<1>2. i \in Nat /\ i < Len(frames) /\ Here = frames[Len(frames)] /\ Len(frames) \in Nat
  BY HereOK
<1>3. Below(i)' = frames'[i + 1].node /\ Below(i) = frames[i + 1].node
  BY <1>1, <1>2 DEF Below
<1>4. CASE i + 1 = Len(frames)
  BY <1>1, <1>2, <1>3, <1>4
<1>5. CASE i + 1 # Len(frames)
  BY <1>1, <1>3, <1>5, FarBelowSame
<1> QED
  BY <1>4, <1>5

LEMMA BelowGivesBack ==
  ASSUME StructureOK, OwnersOK, frames # <<>>, NEW n, n = Null \/ OnTop(n), OnlyAt(n),
         NEW m, GiveBack(m), heap'[m].schema = heap[Here.node].schema
  PROVE  BelowSame
<1> SUFFICES ASSUME NEW i \in DOMAIN frames, i # Len(frames)
             PROVE  heap'[Below(i)'].schema = heap[Below(i)].schema
  BY DEF BelowSame
<1>1. /\ Len(frames') = Len(frames) - 1
      /\ Len(frames) # 1 => ret' = m
      /\ \A j \in DOMAIN frames : j # Len(frames) => frames'[j] = frames[j]
  BY HereOK, GivenBack
<1>2. i \in Nat \ {0} /\ i < Len(frames) /\ Here = frames[Len(frames)] /\ Len(frames) \in Nat
  BY HereOK
<1>3. Below(i) = frames[i + 1].node
  BY <1>2 DEF Below
<1>4. CASE i + 1 = Len(frames)
  <2>1. Below(i)' = m
    BY <1>1, <1>2, <1>4 DEF Below
  <2> QED
    BY <1>2, <1>3, <1>4, <2>1
<1>5. CASE i + 1 # Len(frames)
  <2>1. Below(i)' = frames'[i + 1].node
    BY <1>1, <1>2, <1>5 DEF Below
  <2> QED
    BY <1>1, <1>3, <1>5, <2>1, FarBelowSame
<1> QED
  BY <1>4, <1>5

-----------------------------------------------------------------------------
(* The heap after a step *)

LEMMA FormedWritten ==
  ASSUME NEW h, NEW g, NEW n, NEW k, NEW c, Formed(h), WritesIn(h, g, n, k, c),
         c \in {Null} \cup DOMAIN h
  PROVE  Formed(g)
<1>1. /\ g \in Seq(HeapNodes) /\ DOMAIN g = DOMAIN h /\ n \in DOMAIN h
      /\ \A m \in DOMAIN h : m # n => g[m] = h[m]
      /\ g[n].kind = h[n].kind /\ Len(g[n].child) = Len(h[n].child)
      /\ DOMAIN g[n].child = DOMAIN h[n].child
      /\ \A j \in DOMAIN h[n].child : g[n].child[j] = IF j = k THEN c ELSE h[n].child[j]
  BY DEF WritesIn, SameBut
<1>2. ASSUME NEW m \in DOMAIN h
      PROVE  ArityOK(g[m]) /\ \A j \in DOMAIN g[m].child : g[m].child[j] \in {Null} \cup DOMAIN h
  <2>1. CASE m = n
    BY <1>1, <2>1 DEF Formed, ArityOK
  <2>2. CASE m # n
    BY <1>1, <2>2 DEF Formed
  <2> QED
    BY <2>1, <2>2
<1> QED
  BY <1>1, <1>2 DEF Formed

\* A node that no other has as its child.
Loose(h, n) == \A m \in DOMAIN h : n \notin ChildrenOf(h, m)

(* A plan stays free of circles when a child is taken out ... *)
LEMMA FewerHang ==
  ASSUME NEW h \in Seq(HeapNodes), NEW g, Grounded(h), DOMAIN g = DOMAIN h,
         \A m \in DOMAIN h : ChildrenOf(g, m) \ {Null} \subseteq ChildrenOf(h, m)
  PROVE  Grounded(g)
<1> SUFFICES ASSUME NEW S \in SUBSET DOMAIN g, \A n \in S : \E m \in S : n \in ChildrenOf(g, m)
             PROVE  S = {}
  BY DEF Grounded
<1>1. Null \notin S
  BY NodesTyped DEF Null
<1>2. \A n \in S : \E m \in S : n \in ChildrenOf(h, m)
  BY <1>1
<1> QED
  BY <1>2 DEF Grounded

(* ... and when one is put below a node that hangs nowhere. *)
LEMMA MoreHang ==
  ASSUME NEW h \in Seq(HeapNodes), NEW g, Grounded(h), NEW n, Loose(g, n),
         DOMAIN h \subseteq DOMAIN g,
         \A m \in DOMAIN g : m # n => m \in DOMAIN h /\ ChildrenOf(g, m) \subseteq ChildrenOf(h, m)
  PROVE  Grounded(g)
<1> SUFFICES ASSUME NEW S \in SUBSET DOMAIN g, \A x \in S : \E m \in S : x \in ChildrenOf(g, m)
             PROVE  S = {}
  BY DEF Grounded
<1>1. n \notin S
  BY DEF Loose
<1>2. S \in SUBSET DOMAIN h
  BY <1>1
<1>3. \A x \in S : \E m \in S : x \in ChildrenOf(h, m)
  BY <1>1
<1> QED
  BY <1>2, <1>3 DEF Grounded

LEMMA GroundedWritten ==
  ASSUME NEW h, NEW g, NEW n, NEW k, NEW c, Formed(h), Grounded(h), WritesIn(h, g, n, k, c),
         c = Null \/ (Loose(h, n) /\ c # n)
  PROVE  Grounded(g)
<1>1. /\ h \in Seq(HeapNodes) /\ DOMAIN g = DOMAIN h /\ n \in DOMAIN h
      /\ \A m \in DOMAIN h : m # n => g[m] = h[m]
      /\ DOMAIN g[n].child = DOMAIN h[n].child
      /\ \A j \in DOMAIN h[n].child : g[n].child[j] = IF j = k THEN c ELSE h[n].child[j]
  BY DEF WritesIn, SameBut, Formed
<1>2. \A m \in DOMAIN h : m # n => ChildrenOf(g, m) = ChildrenOf(h, m)
  BY <1>1 DEF ChildrenOf
<1>3. ChildrenOf(g, n) \subseteq ChildrenOf(h, n) \cup {c}
  BY <1>1 DEF ChildrenOf
<1>4. CASE c = Null
  BY <1>1, <1>2, <1>3, <1>4, FewerHang
<1>5. CASE Loose(h, n) /\ c # n
  <2>1. Loose(g, n)
    BY <1>1, <1>2, <1>3, <1>5 DEF Loose
  <2> QED
    BY <1>1, <1>2, <2>1, MoreHang
<1> QED
  BY <1>4, <1>5

(* The nodes of the given plan stay what they are, but a multi-way join may go. *)
LEMMA GivenKept ==
  ASSUME GivenOK, outcome # "threw", Len(heap) <= Len(heap'), DOMAIN heap = 1 .. Len(heap),
         Len(heap) \in Nat, Len(heap') \in Nat,
         \A m \in DOMAIN heap :
            /\ heap'[m].cond = heap[m].cond /\ heap'[m].rel = heap[m].rel
            /\ \/ heap'[m].kind = heap[m].kind
               \/ heap[m].kind = "MultiJoin" /\ heap'[m].kind = "Destroyed",
         given' = given
  PROVE  GivenOK'
<1>1. /\ given.heap \in Seq(HeapNodes) /\ Len(given.heap) <= Len(heap)
      /\ \A n \in DOMAIN given.heap :
            /\ heap[n].cond = given.heap[n].cond /\ heap[n].rel = given.heap[n].rel
            /\ \/ heap[n].kind = given.heap[n].kind
               \/ given.heap[n].kind = "MultiJoin" /\ heap[n].kind = "Destroyed"
  BY DEF GivenOK
<1>2. Len(given.heap) \in Nat /\ DOMAIN given.heap = 1 .. Len(given.heap)
  BY <1>1
<1>3. Len(given.heap) <= Len(heap')
  BY <1>1, <1>2
<1>4. DOMAIN given.heap \subseteq DOMAIN heap
  BY <1>1, <1>2
<1>5. ASSUME NEW n \in DOMAIN given.heap
      PROVE  /\ heap'[n].cond = given.heap[n].cond /\ heap'[n].rel = given.heap[n].rel
             /\ \/ heap'[n].kind = given.heap[n].kind
                \/ given.heap[n].kind = "MultiJoin" /\ heap'[n].kind = "Destroyed"
  BY <1>1, <1>4
<1> QED
  BY <1>1, <1>3, <1>5 DEF GivenOK

LEMMA TrieKept ==
  ASSUME StructureOK, frames # <<>>, SamePass, join_trie' = join_trie,
         \/ Here.pass = "choose"
         \/ DOMAIN heap' = DOMAIN heap /\ \A m \in DOMAIN heap : heap'[m].kind = heap[m].kind
  PROVE  TrieOK'
<1>1. Len(frames) \in DOMAIN frames /\ Here = frames[Len(frames)]
  BY HereOK
<1>2. CASE Here.pass = "choose"
  BY <1>2 DEF TrieOK, SamePass
<1>3. CASE DOMAIN heap' = DOMAIN heap /\ \A m \in DOMAIN heap : heap'[m].kind = heap[m].kind
  <2>1. (\E i \in DOMAIN frames' : frames'[i].pass = "push")
        => (\E i \in DOMAIN frames : frames[i].pass = "push")
    BY <1>1 DEF SamePass
  <2>2. TrieOK
    BY DEF StructureOK
  <2>3. HasMultiJoin(heap)' => HasMultiJoin(heap)
    BY <1>3 DEF HasMultiJoin
  <2> QED
    BY <1>3, <2>1, <2>2, <2>3 DEF TrieOK
<1> QED
  BY <1>2, <1>3

(* Every schema still goes with those of the children. *)
LEMMA SchemasAgain ==
  ASSUME StructureOK, OwnersOK, SchemasOK, frames # <<>>,
         NEW n, n = Null \/ OnTop(n), OnlyAt(n), BelowSame,
         NEW sc, (n \in DOMAIN heap /\ Live(n)') => NodeFits(heap', n, sc),
         \A i \in DOMAIN frames' :
            \/ i \in DOMAIN frames /\ i # Len(frames) /\ frames'[i] = frames[i]
            \/ frames'[i].node = n /\ FrameFits(heap', frames'[i], Below(i)', sc)
            \/ Free(frames'[i]),
         \A m \in DOMAIN heap' : m \notin DOMAIN heap => \E s : SchemasFit(m, s)'
  PROVE  SchemasOK'
<1> SUFFICES ASSUME NEW m \in DOMAIN heap', Live(m)'
             PROVE  \E s : SchemasFit(m, s)'
  BY DEF SchemasOK
<1>1. CASE m \notin DOMAIN heap
  BY <1>1
<1>2. CASE m \in DOMAIN heap /\ m # n
  <2>1. Live(m)
    BY <1>2 DEF OnlyAt, Live
  <2>2. \A i \in DOMAIN frames' : frames'[i].node = m =>
            \/ i \in DOMAIN frames /\ i # Len(frames) /\ frames'[i] = frames[i]
            \/ Free(frames'[i])
    BY <1>2
  <2> QED
    BY <1>2, <2>1, <2>2, SchemaStays
<1>3. CASE m \in DOMAIN heap /\ m = n
  <2>1. m # Null
    BY <1>3, NodesTyped DEF StructureOK, HeapOK, Formed, Null
  <2>2. \A i \in DOMAIN frames : i # Len(frames) => frames[i].node # n
    BY <1>3, <2>1, Elsewhere, LocalIs DEF Slots
  <2>3. \A i \in DOMAIN frames' : frames'[i].node = n => FrameFits(heap', frames'[i], Below(i)', sc)
    BY <2>2 DEF Free, FrameFits
  <2> QED
    BY <1>3, <2>3 DEF SchemasFit
<1> QED
  BY <1>1, <1>2, <1>3

-----------------------------------------------------------------------------
(* The invariant after each kind of step *)

LEMMA SomeArity ==
  ASSUME NEW node, ArityOK(node), node.kind \in {"Filter", "Projection", "BinaryJoin"}
  PROVE  Len(node.child) > 0 /\ (node.kind # "BinaryJoin" => Len(node.child) = 1)
         /\ (node.kind = "BinaryJoin" => Len(node.child) = 2)
<1> QED
  BY DEF ArityOK

LEMMA NewFrameOK ==
  ASSUME NEW h \in Seq(HeapNodes), NEW c \in DOMAIN h, h[c].kind # "Destroyed", IsWhole(h[c]),
         ArityOK(h[c]), NEW pass \in {"choose", "push"}, NEW arr \in Seq(FilterEntries),
         pass = "choose" => arr = <<>>, pass = "push" => h[c].kind # "MultiJoin",
         \A i \in DOMAIN arr : IsLoose(h, arr[i].filter)
  PROVE  FrameOK(Frame(pass, c, arr), h)
<1> DEFINE f == Frame(pass, c, arr)
<1>1. c \in Nat /\ Len(h[c].child) \in Nat /\ DOMAIN h[c].child = 1 .. Len(h[c].child)
  BY NodesTyped
<1>2. /\ f.pass = pass /\ f.node = c /\ f.at = "enter" /\ f.cur = Null
      /\ f.done = 0 /\ f.arr = arr /\ f.rgt = <<>> /\ f.stay = <<>>
  BY <1>1, NewFrame
<1> HIDE DEF f
<1>3. \A k \in DOMAIN h[c].child : h[c].child[k] # Null /\ ~(k <= 0)
  BY <1>1 DEF IsWhole
<1>4. CarriesOK(f, h)
  BY <1>2 DEF CarriesOK
<1>5. pass = "choose" => ChooseShape(f, h[c])
  <2>1. h[c].kind \in {"Filter", "Projection", "BinaryJoin"} => 0 < Len(h[c].child)
    BY SomeArity
  <2> QED
    BY <1>1, <1>2, <1>3, <2>1 DEF ChooseShape
<1>6. pass = "push" => PushShape(f, h[c])
  BY <1>2 DEF PushShape
<1> QED
  BY <1>2, <1>4, <1>5, <1>6 DEF FrameOK, f

(* A child of the top node: it is live and has all its children. *)
LEMMA ChildIs ==
  ASSUME StructureOK, OwnersOK, frames # <<>>,
         NEW k \in DOMAIN heap[Here.node].child, heap[Here.node].child[k] # Null
  PROVE  LET c == heap[Here.node].child[k]
         IN  /\ c \in DOMAIN heap /\ Live(c) /\ IsWhole(heap[c]) /\ c # Here.node /\ c \in Nat
             /\ ArityOK(heap[c]) /\ heap[c].schema \in Schemas
<1> DEFINE c == heap[Here.node].child[k]
           p == <<"child", Here.node, k>>
<1>1. Here.node \in DOMAIN heap /\ heap \in Seq(HeapNodes) /\ Here.node # Null
  BY HereOK
<1>2. Here.node \in Nat /\ k \in Nat
  BY <1>1, NodesTyped
<1>3. p \in Places /\ p[1] \in Kinds /\ What(p) = c
  BY <1>1, <1>2, SomePlaces, WhatNow DEF ChildAt, Kinds
<1>4. OnTop(Here.node)
  BY LocalIs DEF OnTop, Slots
<1> HIDE DEF p
<1>5. c \in DOMAIN heap /\ Live(c) /\ c # Here.node
  BY <1>1, <1>3, <1>4, HeldIsLive, Elsewhere
<1>6. IsWhole(heap[c])
  BY <1>3 DEF OwnersOK, HolesOK, Kinds
<1>7. c \in Nat /\ heap[c].schema \in Schemas
  BY <1>1, <1>5, NodesTyped
<1>8. ArityOK(heap[c])
  BY <1>5 DEF StructureOK, HeapOK, Formed
<1> QED
  BY <1>5, <1>6, <1>7, <1>8

LEMMA NodeOnTop ==
  OnTop(Here.node)
<1> QED
  BY LocalIs DEF OnTop, Slots

(* The node that is returned. *)
LEMMA RetIs ==
  ASSUME StructureOK, OwnersOK, frames # <<>>, ret # Null
  PROVE  /\ ret \in DOMAIN heap /\ Live(ret) /\ IsWhole(heap[ret]) /\ ret \in Nat
         /\ \A n : OnTop(n) => ret # n
<1> DEFINE p == <<"ret", 0, 0>>
<1>1. p \in Places /\ p[1] \in Kinds /\ What(p) = ret
  BY SomePlaces, WhatNow DEF Kinds
<1> HIDE DEF p
<1>2. ret \in DOMAIN heap /\ Live(ret) /\ \A n : OnTop(n) => ret # n
  BY <1>1, HeldIsLive, Elsewhere
<1>3. IsWhole(heap[ret])
  BY <1>1 DEF OwnersOK, HolesOK, Kinds
<1>4. ret \in Nat
  BY <1>2, NodesTyped DEF StructureOK, HeapOK, Formed
<1> QED
  BY <1>2, <1>3, <1>4

LEMMA TopLoose ==
  ASSUME StructureOK, OwnersOK, frames # <<>>, NEW n, n # Null, OnTop(n)
  PROVE  Loose(heap, n)
<1> SUFFICES ASSUME NEW m \in DOMAIN heap, NEW k \in DOMAIN heap[m].child
             PROVE  heap[m].child[k] # n
  BY DEF Loose, ChildrenOf
<1> DEFINE p == <<"child", m, k>>
<1>1. m \in Nat /\ k \in Nat
  BY NodesTyped DEF StructureOK, HeapOK, Formed
<1>2. p \in Places /\ p[1] \in Kinds /\ What(p) = heap[m].child[k]
  BY <1>1, SomePlaces, WhatNow DEF ChildAt, Kinds
<1> HIDE DEF p
<1> QED
  BY <1>2, Elsewhere

\* What a step of a pass leaves alone in any case.
LEMMA QuietKeeps ==
  ASSUME StructureOK, frames # <<>>, Quiet, outcome' \in {outcome, Here.pass}
  PROVE  /\ CallsOK' /\ join_trie' = join_trie /\ given' = given /\ passes' = passes
<1>1. Here.pass \in {"choose", "push"}
  BY HereOK, FrameTyped
<1> QED
  BY <1>1 DEF Quiet, CallsOK, StructureOK

(* The heap when only children of the top node are written. *)
LEMMA TopWritten ==
  ASSUME OptimizerInv, frames # <<>>, SameBut(heap', heap, Here.node), given' = given
  PROVE  /\ OnlyAt(Here.node) /\ GivenOK' /\ DOMAIN heap' = DOMAIN heap
         /\ \A m \in DOMAIN heap : heap'[m].kind = heap[m].kind
<1>1. /\ StructureOK /\ GivenOK
  BY DEF OptimizerInv
<1>2. Here.node \in DOMAIN heap /\ heap \in Seq(HeapNodes) /\ outcome # "threw"
  BY <1>1, HereOK
<1>3. /\ OnlyAt(Here.node) /\ DOMAIN heap' = DOMAIN heap /\ Len(heap') = Len(heap)
      /\ \A m \in DOMAIN heap : /\ heap'[m].kind = heap[m].kind /\ heap'[m].rel = heap[m].rel
                                /\ heap'[m].cond = heap[m].cond
  BY <1>2 DEF SameBut, OnlyAt
<1>4. Len(heap) \in Nat /\ DOMAIN heap = 1 .. Len(heap) /\ Len(heap) <= Len(heap')
  BY <1>2, <1>3
<1>5. GivenOK'
  BY <1>1, <1>2, <1>3, <1>4, GivenKept
<1> QED
  BY <1>3, <1>5

\* What is known of an activation f that calls its pass on child k, with these filters.
Calls(k, f, arr) ==
  /\ FrameOK(f, heap') /\ Waits(f) /\ f.pass = Here.pass /\ WaitsFor(f) = k /\ f.done = Here.done
  /\ f.pass = "choose" => arr = <<>>
  /\ \A i \in DOMAIN arr : IsLoose(heap', arr[i].filter)
  /\ root' = root /\ outcome' = outcome /\ Quiet

LEMMA TakeStructure ==
  ASSUME OptimizerInv, frames # <<>>, NEW k, NEW j, NEW f, NEW arr, Takes(k, j, f, arr),
         Calls(k, f, arr)
  PROVE  StructureOK' /\ HolesOK' /\ GivenOK' /\ OnlyAt(Here.node)
<1> DEFINE n == Here.node
           c == heap[n].child[k]
<1>1. /\ StructureOK /\ OwnersOK
  BY DEF OptimizerInv
<1>2. /\ heap \in Seq(HeapNodes) /\ n \in DOMAIN heap /\ n # Null /\ ret \in {Null} \cup DOMAIN heap
      /\ Here.pass \in {"choose", "push"} /\ Here.pass = "push" => PushShape(Here, heap[n])
  BY <1>1, HereOK, FrameTyped
<1>3. /\ k \in DOMAIN heap[n].child /\ c # Null /\ j \in DOMAIN heap[n].child
      /\ SameBut(heap', heap, n)
      /\ \A m, i \in Nat : (m # n \/ i \notin {j, k}) => ChildAt(heap', m, i) = ChildAt(heap, m, i)
      /\ ChildAt(heap', n, k) = Null
      /\ IF j = k THEN ret = Null ELSE ChildAt(heap, n, j) = Null /\ ChildAt(heap', n, j) = ret
      /\ root' = root /\ ret' = Null
      /\ f \in FrameTypes /\ arr \in Seq(FilterEntries) /\ Recurse(f, c, arr)
      /\ f.node = n /\ f.cur = Here.cur
  BY DEF Takes
<1>4. /\ FrameOK(f, heap') /\ Waits(f) /\ f.pass = Here.pass
      /\ f.pass = "choose" => arr = <<>>
      /\ \A i \in DOMAIN arr : IsLoose(heap', arr[i].filter)
      /\ outcome' = outcome /\ Quiet
  BY DEF Calls
<1>5. /\ CallsOK' /\ join_trie' = join_trie /\ given' = given /\ passes' = passes
  BY <1>1, <1>4, QuietKeeps
<1>6. OnlyAt(n) /\ GivenOK' /\ DOMAIN heap' = DOMAIN heap
      /\ \A m \in DOMAIN heap : heap'[m].kind = heap[m].kind
  BY <1>3, <1>5, TopWritten
<1>7. /\ c \in DOMAIN heap /\ Live(c) /\ IsWhole(heap[c]) /\ c # n /\ c \in Nat /\ ArityOK(heap[c])
  BY <1>1, <1>3, ChildIs
<1> HIDE DEF c
<1>8. heap'[c] = heap[c] /\ c \in DOMAIN heap' /\ heap' \in Seq(HeapNodes)
  BY <1>6, <1>7 DEF OnlyAt
<1>9. FrameOK(Frame(f.pass, c, arr), heap')
  <2>1. f.pass = "push" => heap'[c].kind # "MultiJoin"
    <3>1. f.pass = "push"
          => TrieOK /\ Len(frames) \in DOMAIN frames /\ frames[Len(frames)].pass = "push"
      BY <1>1, <1>4, HereOK DEF StructureOK
    <3>2. f.pass = "push" => ~HasMultiJoin(heap)
      BY <3>1 DEF TrieOK
    <3> QED
      BY <1>7, <1>8, <3>2 DEF HasMultiJoin
  <2>2. heap'[c].kind # "Destroyed" /\ IsWhole(heap'[c]) /\ ArityOK(heap'[c])
    BY <1>7, <1>8 DEF Live
  <2>3. f.pass \in {"choose", "push"}
    BY <1>3, FrameTyped
  <2> QED
    BY <1>3, <1>4, <1>8, <2>1, <2>2, <2>3, NewFrameOK
<1>10. OthersOK
  BY <1>1, <1>6, NodeOnTop, FramesKept DEF OthersOK
<1>11. FramesOK' /\ StackOK' /\ SamePass
  BY <1>1, <1>3, <1>4, <1>7, <1>9, <1>10, StackRecurses DEF c
<1>12. HeapOK'
  <2>1. ASSUME NEW m \in DOMAIN heap'
        PROVE  ArityOK(heap'[m]) /\ \A i \in DOMAIN heap'[m].child :
                                      heap'[m].child[i] \in {Null} \cup DOMAIN heap'
    <3>1. CASE m # n
      BY <1>1, <1>6, <3>1 DEF StructureOK, HeapOK, Formed, OnlyAt
    <3>2. CASE m = n
      <4>1. ArityOK(heap[n]) /\ \A i \in DOMAIN heap[n].child :
            heap[n].child[i] \in {Null} \cup DOMAIN heap
        BY <1>1, HereOK
      <4>2. ArityOK(heap'[n])
        BY <1>3, <4>1 DEF SameBut, ArityOK
      <4>3. ASSUME NEW i \in DOMAIN heap'[n].child
            PROVE  heap'[n].child[i] \in {Null} \cup DOMAIN heap
        <5>1. i \in DOMAIN heap[n].child /\ i \in Nat /\ n \in Nat
          BY <1>2, <1>3, NodesTyped DEF SameBut
        <5>2. ChildAt(heap', n, i) = heap'[n].child[i] /\ ChildAt(heap, n, i) = heap[n].child[i]
          BY <1>2, <1>6, <5>1 DEF ChildAt
        <5>3. ChildAt(heap', n, i) \in {ChildAt(heap, n, i), Null, ret}
          BY <1>3, <5>1
        <5> QED
          BY <1>2, <4>1, <5>1, <5>2, <5>3
      <4> QED
        BY <1>6, <3>2, <4>2, <4>3
    <3> QED
      BY <3>1, <3>2
  <2> QED
    BY <1>8, <2>1 DEF HeapOK, Formed
<1>13. TrieOK'
  BY <1>1, <1>5, <1>6, <1>11, TrieKept
<1>14. HolesOK'
  <2>1. \A m, i \in Nat : Sound(ChildAt(heap', m, i))
    BY <1>3, SoundNow
  <2>2. Sound(root') /\ Sound(ret') /\ Sound(f.cur)
    BY <1>1, <1>3, SoundNow, CurIsSound
  <2>3. \A i, x \in Nat : Sound(FrameAt(frames', "cur", i, x))
    BY <1>1, <1>3, <1>7, <2>2, RecursedSound DEF c
  <2> QED
    BY <1>1, <1>6, <2>1, <2>2, <2>3, NodeOnTop, HolesFilled
<1> QED
  BY <1>5, <1>6, <1>11, <1>12, <1>13, <1>14 DEF StructureOK

LEMMA TakeSchemas ==
  ASSUME OptimizerInv, frames # <<>>, NEW k, NEW j, NEW f, NEW arr, Takes(k, j, f, arr),
         Calls(k, f, arr), SameSchemas(heap', heap), j # k => Waits(Here) /\ j = WaitsFor(Here)
  PROVE  SchemasOK'
<1> DEFINE n == Here.node
           c == heap[n].child[k]
<1>1. /\ StructureOK /\ OwnersOK /\ SchemasOK
  BY DEF OptimizerInv
<1> PICK N : N = Len(frames)
  OBVIOUS
<1>2. /\ heap \in Seq(HeapNodes) /\ n \in DOMAIN heap /\ ret \in {Null} \cup DOMAIN heap /\ Live(n)
      /\ frames \in Seq(FrameTypes) /\ N \in DOMAIN frames /\ N \in Nat /\ Here = frames[N]
      /\ Waits(Here) <=> ret # Null
      /\ \A i \in DOMAIN heap[n].child : heap[n].child[i] \in {Null} \cup DOMAIN heap
      /\ Here.cur \in {Null} \cup DOMAIN heap
  BY <1>1, HereOK
<1>3. /\ k \in DOMAIN heap[n].child /\ c # Null /\ j \in DOMAIN heap[n].child
      /\ SameBut(heap', heap, n)
      /\ \A m, i \in Nat : (m # n \/ i \notin {j, k}) => ChildAt(heap', m, i) = ChildAt(heap, m, i)
      /\ ChildAt(heap', n, k) = Null
      /\ IF j = k THEN ret = Null ELSE ChildAt(heap, n, j) = Null /\ ChildAt(heap', n, j) = ret
      /\ f \in FrameTypes /\ arr \in Seq(FilterEntries) /\ Recurse(f, c, arr)
      /\ f.node = n /\ f.cur = Here.cur
  BY DEF Takes
<1>4. f.pass = Here.pass /\ WaitsFor(f) = k /\ f.done = Here.done /\ Waits(f)
  BY DEF Calls
<1>5. OnlyAt(n)
  BY TakeStructure
<1>6. c \in DOMAIN heap /\ c \in Nat
  BY <1>1, <1>3, ChildIs
<1> HIDE DEF c
<1>7. heap'[f.node].schema = heap[n].schema
  BY <1>2, <1>3 DEF SameSchemas
<1>8. BelowSame
  BY <1>1, <1>3, <1>5, <1>6, <1>7, NodeOnTop, BelowRecurses DEF c
<1>9. PICK sc : SchemasFit(n, sc)
  BY <1>1, <1>2 DEF SchemasOK
<1>10. NodeFits(heap, n, sc) /\ FrameFits(heap, Here, Below(N), sc)
  BY <1>2, <1>9 DEF SchemasFit
<1>11. j # k => sc[j] = heap[ret].schema /\ ret \in DOMAIN heap
  BY <1>2, <1>10 DEF FrameFits, Below
<1>12. NodeFits(heap', n, sc)
  <2>1. Fits(heap'[n], sc) /\ Len(heap'[n].child) = Len(heap[n].child)
        /\ DOMAIN heap'[n].child = DOMAIN heap[n].child
    <3>1. /\ heap'[n].kind = heap[n].kind /\ heap'[n].rel = heap[n].rel
          /\ heap'[n].schema = heap[n].schema
      BY <1>2, <1>3 DEF SameSchemas, SameBut
    <3>2. Fits(heap[n], sc)
      BY <1>10 DEF NodeFits
    <3>3. Fits(heap'[n], sc)
      BY <3>1, <3>2 DEF Fits
    <3> QED
      BY <1>3, <3>3 DEF SameBut
  <2>2. ASSUME NEW i \in DOMAIN heap[n].child, heap'[n].child[i] # Null
        PROVE  sc[i] = heap'[heap'[n].child[i]].schema
    <3>1. i \in Nat /\ n \in Nat
      BY <1>2, NodesTyped
    <3>2. ChildAt(heap', n, i) = heap'[n].child[i] /\ ChildAt(heap, n, i) = heap[n].child[i]
      BY <1>2, <1>3, <2>1 DEF ChildAt, SameBut
    <3>3. CASE i \notin {j, k}
      <4>1. heap'[n].child[i] = heap[n].child[i]
        BY <1>3, <3>1, <3>2, <3>3
      <4>2. sc[i] = heap[heap[n].child[i]].schema /\ heap[n].child[i] \in DOMAIN heap
        BY <1>2, <1>10, <2>2, <4>1 DEF NodeFits
      <4> QED
        BY <4>1, <4>2 DEF SameSchemas
    <3>4. CASE i = k
      BY <1>3, <2>2, <3>2, <3>4
    <3>5. CASE i = j /\ j # k
      BY <1>3, <1>11, <3>2, <3>5 DEF SameSchemas
    <3> QED
      BY <3>3, <3>4, <3>5
  <2> QED
    BY <1>10, <2>1, <2>2 DEF NodeFits
<1>13. /\ Len(frames') = N + 1 /\ DOMAIN frames' = DOMAIN frames \cup {N + 1}
       /\ frames'[N] = f /\ frames'[N + 1] = Frame(f.pass, c, arr)
       /\ \A i \in DOMAIN frames : i # N => frames'[i] = frames[i]
  <2>1. c \in Nat /\ Recurse(f, c, arr)
    BY <1>3, <1>6 DEF c
  <2> QED
    BY <1>2, <1>3, <2>1, Recursed
<1>14. Frame(f.pass, c, arr).node = c /\ Free(Frame(f.pass, c, arr))
  <2>1. f.pass \in {"choose", "push"}
    BY <1>3, FrameTyped
  <2> QED
    BY <1>3, <1>6, <2>1, NewFrame DEF Free, Waits
<1>15. FrameFits(heap', f, Below(N)', sc)
  <2>1. Below(N)' = c
    <3>1. N < N + 1
      BY <1>2
    <3> QED
      BY <1>13, <1>14, <3>1 DEF Below
  <2>2. sc[k] = heap[c].schema
    BY <1>3, <1>10 DEF NodeFits, c
  <2>3. f.cur # Null => Joined(sc)[f.done] = heap[f.cur].schema /\ f.cur \in DOMAIN heap
    BY <1>2, <1>3, <1>4, <1>10 DEF FrameFits
  <2> QED
    BY <1>4, <1>6, <2>1, <2>2, <2>3 DEF FrameFits, SameSchemas
<1>16. ASSUME NEW i \in DOMAIN frames'
       PROVE  \/ i \in DOMAIN frames /\ i # Len(frames) /\ frames'[i] = frames[i]
              \/ frames'[i].node = n /\ FrameFits(heap', frames'[i], Below(i)', sc)
              \/ Free(frames'[i])
  <2>1. i \in DOMAIN frames \/ i = N + 1
    BY <1>13
  <2>2. CASE i = N
    BY <1>3, <1>13, <1>15, <2>2
  <2>3. CASE i = N + 1
    BY <1>13, <1>14, <2>3
  <2>4. CASE i \in DOMAIN frames /\ i # N
    BY <1>13, <2>4
  <2> QED
    BY <2>1, <2>2, <2>3, <2>4
<1>17. DOMAIN heap' = DOMAIN heap
  BY <1>3 DEF SameBut
<1> QED
  BY <1>1, <1>5, <1>8, <1>12, <1>16, <1>17, NodeOnTop, SchemasAgain

(* A child is taken out and the pass is called on it. *)
LEMMA TakeStep ==
  ASSUME OptimizerInv, frames # <<>>, NEW k, NEW j, NEW f, NEW arr, Takes(k, j, f, arr),
         Calls(k, f, arr), SameSchemas(heap', heap), j # k => Waits(Here) /\ j = WaitsFor(Here),
         Grounded(heap')
  PROVE  OptimizerInv'
<1>1. StructureOK /\ OwnersOK
  BY DEF OptimizerInv
<1>2. StructureOK' /\ HolesOK' /\ GivenOK'
  BY TakeStructure
<1>3. SchemasOK'
  BY TakeSchemas
<1>4. OwnersOK'
  BY <1>1, <1>2, TakeOwners DEF OwnersOK
<1> QED
  BY <1>2, <1>3, <1>4 DEF OptimizerInv

(* transfer_child() on the top node. *)
LEMMA TransferTakes ==
  ASSUME OptimizerInv, frames # <<>>, ret = Null,
         NEW k \in DOMAIN heap[Here.node].child, heap[Here.node].child[k] # Null,
         heap' = transfer_child(heap, Here.node, k), root' = root, ret' = ret
  PROVE  /\ Writes(Here.node, k, Null) /\ Grounded(heap') /\ SameSchemas(heap', heap)
         /\ \A f \in FrameTypes, arr \in Seq(FilterEntries) :
              (/\ Recurse(f, heap[Here.node].child[k], arr) /\ f.node = Here.node
                    /\ f.cur = Here.cur
               /\ Dealt(Here, f, Frame(f.pass, heap[Here.node].child[k], arr)))
              => Takes(k, k, f, arr)
<1> DEFINE n == Here.node
<1>1. StructureOK /\ Formed(heap) /\ Grounded(heap)
  BY DEF OptimizerInv, StructureOK, HeapOK
<1>2. heap \in Seq(HeapNodes) /\ n \in DOMAIN heap
  BY <1>1, HereOK
<1>3. SameBut(heap', heap, n) /\ heap'[n].schema = heap[n].schema
      /\ \A j \in DOMAIN heap[n].child :
           heap'[n].child[j] = IF j = k THEN Null ELSE heap[n].child[j]
  BY <1>2, Transferred
<1>4. WritesIn(heap, heap', n, k, Null)
  BY <1>2, <1>3 DEF WritesIn
<1>5. Grounded(heap')
  BY <1>1, <1>4, GroundedWritten
<1>6. SameSchemas(heap', heap)
  BY <1>3 DEF SameSchemas, SameBut
<1>7. ChildAt(heap', n, k) = Null
      /\ \A m, i \in Nat : (m # n \/ i \notin {k, k}) => ChildAt(heap', m, i) = ChildAt(heap, m, i)
  BY <1>4, SlotWritten
<1> QED
  BY <1>3, <1>4, <1>5, <1>6, <1>7 DEF Takes, Writes

\* Nothing is carried, and nothing is handed down.
LEMMA NothingDealt ==
  ASSUME NEW o, NEW f, NEW g, Unladen(o), Unladen(f), Unladen(g)
  PROVE  Dealt(o, f, g)
<1> QED
  BY Idle DEF Dealt

LEMMA ChooseTakes ==
  ASSUME OptimizerInv, frames # <<>>, Here.pass = "choose", Here.at = "enter",
         Here.done < Len(heap[Here.node].child),
         heap[Here.node].kind \in {"Filter", "Projection", "BinaryJoin", "MultiJoin"},
         heap' = transfer_child(heap, Here.node, Here.done + 1),
         Recurse([Here EXCEPT !.at = "child"], heap[Here.node].child[Here.done + 1], <<>>),
         UNCHANGED <<root, ret, outcome>>, Quiet
  PROVE  OptimizerInv'
<1> DEFINE n == Here.node
           k == Here.done + 1
           f == [Here EXCEPT !.at = "child"]
           none == <<>>
<1>1. StructureOK
  BY DEF OptimizerInv
<1>2. /\ heap \in Seq(HeapNodes) /\ n \in DOMAIN heap /\ Live(n) /\ Here \in FrameTypes
      /\ Here.cur \in {Null} \cup DOMAIN heap /\ ChooseShape(Here, heap[n])
      /\ Waits(Here) <=> ret # Null
  BY <1>1, HereOK
<1>3. Here.done \in Nat /\ heap[n].child \in Seq(Nat) /\ n \in Nat
  BY <1>2, FrameTyped, NodesTyped
<1>4. k \in DOMAIN heap[n].child /\ k # Here.done
  BY <1>3
<1>5. /\ f \in FrameTypes /\ f.pass = Here.pass /\ f.node = Here.node /\ f.at = "child"
      /\ f.cur = Here.cur /\ f.done = Here.done
      /\ f.arr = Here.arr /\ f.rgt = Here.rgt /\ f.stay = Here.stay
  BY <1>2, FrameCalled
<1>6. Here.arr = none /\ Here.rgt = none /\ Here.stay = none
  BY <1>2 DEF ChooseShape
<1>7. heap[n].child[k] # Null
  <2>1. ~(k <= Here.done)
    BY <1>3
  <2> QED
    BY <1>2, <1>4, <2>1 DEF ChooseShape
<1>8. ret = Null
  BY <1>2 DEF Waits
<1>9. none \in Seq(FilterEntries)
  OBVIOUS
<1>10. Recurse(f, heap[n].child[k], none)
  OBVIOUS
<1>11. UNCHANGED <<root, ret, outcome>> /\ heap' = transfer_child(heap, n, k)
  OBVIOUS
<1> HIDE DEF f, k, none
<1>12. heap[n].child[k] \in Nat
  BY <1>3, <1>4
<1>13. Frame(f.pass, heap[n].child[k], none).arr = none
       /\ Unladen(Frame(f.pass, heap[n].child[k], none))
  <2>1. f.pass \in {"choose", "push"}
    BY <1>5, FrameTyped
  <2>2. LET g == Frame(f.pass, heap[n].child[k], none)
        IN  g.arr = none /\ g.rgt = <<>> /\ g.stay = <<>>
    BY <1>9, <1>12, <2>1, NewFrame
  <2> QED
    BY <2>2 DEF Unladen, none
<1>14. Unladen(Here) /\ Unladen(f)
  BY <1>5, <1>6 DEF Unladen, none
<1>15. /\ Writes(n, k, Null) /\ Grounded(heap') /\ SameSchemas(heap', heap)
       /\ Takes(k, k, f, none)
  <2>1. Dealt(Here, f, Frame(f.pass, heap[n].child[k], none))
    BY <1>13, <1>14, NothingDealt
  <2> QED
    BY <1>4, <1>5, <1>7, <1>8, <1>9, <1>10, <1>11, <2>1, TransferTakes
<1>16. FrameOK(f, heap')
  <2>1. SameBut(heap', heap, n) /\ n \in DOMAIN heap
        /\ \A j \in DOMAIN heap[n].child :
             heap'[n].child[j] = IF j = k THEN Null ELSE heap[n].child[j]
    BY <1>15 DEF Writes, WritesIn
  <2>2. /\ heap'[n].kind = heap[n].kind /\ DOMAIN heap' = DOMAIN heap
        /\ Len(heap'[n].child) = Len(heap[n].child) /\ DOMAIN heap'[n].child = DOMAIN heap[n].child
    BY <2>1 DEF SameBut
  <2>3. CarriesOK(f, heap')
    BY <1>14 DEF Unladen, CarriesOK
  <2>4. ChooseShape(f, heap'[n])
    <3>1. heap[n].kind # "TableScan"
      OBVIOUS
    <3>2. heap[n].kind \in {"Filter", "Projection", "BinaryJoin"} =>
            \A j \in DOMAIN heap[n].child : heap'[n].child[j] = Null <=> j = k
      BY <1>2, <2>1 DEF ChooseShape
    <3>3. heap[n].kind = "MultiJoin" =>
            \A j \in DOMAIN heap[n].child : heap'[n].child[j] = Null <=> (j <= Here.done \/ j = k)
      BY <1>2, <2>1 DEF ChooseShape
    <3>4. k = f.done + 1
      BY <1>5 DEF k
    <3> QED
      BY <1>2, <1>5, <1>6, <2>2, <3>1, <3>2, <3>3, <3>4 DEF ChooseShape, none
  <2> QED
    BY <1>2, <1>5, <2>2, <2>3, <2>4 DEF FrameOK, Live
<1>17. Calls(k, f, none)
  <2>1. Waits(f) /\ WaitsFor(f) = k
    BY <1>5 DEF Waits, WaitsFor, k
  <2> QED
    BY <1>5, <1>11, <1>16, <2>1 DEF Calls, none
<1> QED
  BY <1>15, <1>17, TakeStep

LEMMA ChooseChildInv ==
  ASSUME OptimizerInv, ChooseChild
  PROVE  OptimizerInv'
<1>1. /\ frames # <<>> /\ Here.pass = "choose" /\ Here.at = "enter"
      /\ heap[Here.node].kind \in {"Filter", "Projection", "BinaryJoin"}
  BY DEF ChooseChild, In
<1>2. Here.done < Len(heap[Here.node].child)
  <2>1. ChooseShape(Here, heap[Here.node])
    BY <1>1, HereOK DEF OptimizerInv
  <2> QED
    BY <1>1, <2>1 DEF ChooseShape
<1> QED
  BY <1>1, <1>2, ChooseTakes DEF ChooseChild

LEMMA ChooseJoinChildInv ==
  ASSUME OptimizerInv, ChooseJoinChild
  PROVE  OptimizerInv'
<1>1. /\ frames # <<>> /\ Here.pass = "choose" /\ Here.at = "enter"
      /\ heap[Here.node].kind = "MultiJoin" /\ Here.done < Len(heap[Here.node].child)
  BY DEF ChooseJoinChild, In, MoreChildren
<1> QED
  BY <1>1, ChooseTakes DEF ChooseJoinChild

-----------------------------------------------------------------------------
(* How the filters are dealt out *)

LEMMA HasIs ==
  ASSUME NEW f \in FrameTypes, NEW n, n # Null
  PROVE  Has(f, n) <=> \/ \E k \in DOMAIN f.arr : f.arr[k].filter = n
                       \/ \E k \in DOMAIN f.rgt : f.rgt[k].filter = n
                       \/ \E k \in DOMAIN f.stay : f.stay[k] = n
<1>1. /\ f.arr \in Seq(FilterEntries) /\ f.rgt \in Seq(FilterEntries) /\ f.stay \in Seq(Nat)
  BY FrameTyped
<1>2. DOMAIN f.arr \subseteq Nat /\ DOMAIN f.rgt \subseteq Nat /\ DOMAIN f.stay \subseteq Nat
  BY <1>1
<1>3. ASSUME NEW k \in Nat
      PROVE  /\ LocalAt(f, "arr", k) = n <=> (k \in DOMAIN f.arr /\ f.arr[k].filter = n)
             /\ LocalAt(f, "rgt", k) = n <=> (k \in DOMAIN f.rgt /\ f.rgt[k].filter = n)
             /\ LocalAt(f, "stay", k) = n <=> (k \in DOMAIN f.stay /\ f.stay[k] = n)
  BY LocalIs
<1> QED
  BY <1>2, <1>3 DEF Has, Carried

\* No list of f names a node twice, and no two lists name the same node.
Distinct(f) ==
  /\ \A j, k \in DOMAIN f.arr : f.arr[j].filter = f.arr[k].filter => j = k
  /\ \A j, k \in DOMAIN f.rgt : f.rgt[j].filter = f.rgt[k].filter => j = k
  /\ \A j, k \in DOMAIN f.stay : f.stay[j] = f.stay[k] => j = k
  /\ \A j \in DOMAIN f.arr, k \in DOMAIN f.rgt : f.arr[j].filter # f.rgt[k].filter
  /\ \A j \in DOMAIN f.arr, k \in DOMAIN f.stay : f.arr[j].filter # f.stay[k]
  /\ \A j \in DOMAIN f.rgt, k \in DOMAIN f.stay : f.rgt[j].filter # f.stay[k]

LEMMA SingleIf ==
  ASSUME NEW f \in FrameTypes, Distinct(f)
  PROVE  Single(f)
<1> SUFFICES ASSUME NEW s \in Carried, NEW t \in Carried, NEW j \in Nat, NEW k \in Nat,
                    LocalAt(f, s, j) # Null, LocalAt(f, s, j) = LocalAt(f, t, k)
             PROVE  s = t /\ j = k
  BY DEF Single
<1>1. /\ s = "arr" => j \in DOMAIN f.arr /\ LocalAt(f, s, j) = f.arr[j].filter
      /\ s = "rgt" => j \in DOMAIN f.rgt /\ LocalAt(f, s, j) = f.rgt[j].filter
      /\ s = "stay" => j \in DOMAIN f.stay /\ LocalAt(f, s, j) = f.stay[j]
  BY LocalIs
<1>2. /\ t = "arr" => k \in DOMAIN f.arr /\ LocalAt(f, t, k) = f.arr[k].filter
      /\ t = "rgt" => k \in DOMAIN f.rgt /\ LocalAt(f, t, k) = f.rgt[k].filter
      /\ t = "stay" => k \in DOMAIN f.stay /\ LocalAt(f, t, k) = f.stay[k]
  BY LocalIs
<1> QED
  BY <1>1, <1>2 DEF Distinct, Carried

LEMMA DistinctIf ==
  ASSUME NEW f \in FrameTypes, Single(f), NEW h \in Seq(HeapNodes), CarriesOK(f, h)
  PROVE  /\ Distinct(f)
         /\ \A k \in DOMAIN f.arr : f.arr[k].filter # Null
         /\ \A k \in DOMAIN f.rgt : f.rgt[k].filter # Null
         /\ \A k \in DOMAIN f.stay : f.stay[k] # Null
<1>1. /\ \A k \in DOMAIN f.arr : f.arr[k].filter # Null
      /\ \A k \in DOMAIN f.rgt : f.rgt[k].filter # Null
      /\ \A k \in DOMAIN f.stay : f.stay[k] # Null
  <2>1. Null \notin DOMAIN h
    BY NodesTyped DEF Null
  <2> QED
    BY <2>1 DEF CarriesOK, IsLoose
<1>2. /\ \A k \in DOMAIN f.arr : k \in Nat /\ f.arr[k].filter = LocalAt(f, "arr", k)
      /\ \A k \in DOMAIN f.rgt : k \in Nat /\ f.rgt[k].filter = LocalAt(f, "rgt", k)
      /\ \A k \in DOMAIN f.stay : k \in Nat /\ f.stay[k] = LocalAt(f, "stay", k)
  BY CarriesHas
<1>3. \A s, t \in Carried, j, k \in Nat :
        (LocalAt(f, s, j) # Null /\ LocalAt(f, s, j) = LocalAt(f, t, k)) => s = t /\ j = k
  BY DEF Single
<1>4. "arr" \in Carried /\ "rgt" \in Carried /\ "stay" \in Carried
  BY DEF Carried
<1>5. /\ \A j, k \in DOMAIN f.arr : f.arr[j].filter = f.arr[k].filter => j = k
      /\ \A j, k \in DOMAIN f.rgt : f.rgt[j].filter = f.rgt[k].filter => j = k
      /\ \A j, k \in DOMAIN f.stay : f.stay[j] = f.stay[k] => j = k
  BY <1>1, <1>2, <1>3, <1>4
<1>6. ASSUME NEW j \in DOMAIN f.arr, NEW k \in DOMAIN f.rgt
      PROVE  f.arr[j].filter # f.rgt[k].filter
  BY <1>1, <1>2, <1>3, <1>4
<1>7. ASSUME NEW j \in DOMAIN f.arr, NEW k \in DOMAIN f.stay
      PROVE  f.arr[j].filter # f.stay[k]
  BY <1>1, <1>2, <1>3, <1>4
<1>8. ASSUME NEW j \in DOMAIN f.rgt, NEW k \in DOMAIN f.stay
      PROVE  f.rgt[j].filter # f.stay[k]
  BY <1>1, <1>2, <1>3, <1>4
<1> QED
  BY <1>1, <1>5, <1>6, <1>7, <1>8 DEF Distinct

\* g has the filters of one list of o, f those of the others (arr or none in their place).
LEMMA ListDealt ==
  ASSUME NEW o \in FrameTypes, NEW f \in FrameTypes, NEW g \in FrameTypes, Distinct(o),
         f.arr = <<>>, f.rgt = <<>>, g.rgt = <<>>, g.stay = <<>>, f.stay = o.stay,
         \/ g.arr = o.arr /\ o.rgt = <<>>
         \/ g.arr = o.rgt /\ o.arr = <<>>
  PROVE  Dealt(o, f, g)
<1> DEFINE none == <<>>
<1>1. f.arr = none /\ f.rgt = none /\ g.rgt = none /\ g.stay = none /\ DOMAIN none = {}
      /\ \/ g.arr = o.arr /\ o.rgt = none
         \/ g.arr = o.rgt /\ o.arr = none
  OBVIOUS
<1> HIDE DEF none
<1>2. Distinct(f) /\ Distinct(g)
  BY <1>1 DEF Distinct
<1>3. ASSUME NEW n, n # Null
      PROVE  (Has(o, n) <=> (Has(f, n) \/ Has(g, n))) /\ ~(Has(f, n) /\ Has(g, n))
  <2>1. /\ Has(o, n) <=> \/ \E k \in DOMAIN o.arr : o.arr[k].filter = n
                         \/ \E k \in DOMAIN o.rgt : o.rgt[k].filter = n
                         \/ \E k \in DOMAIN o.stay : o.stay[k] = n
        /\ Has(f, n) <=> \E k \in DOMAIN o.stay : o.stay[k] = n
        /\ Has(g, n) <=> \E k \in DOMAIN g.arr : g.arr[k].filter = n
    BY <1>1, <1>3, HasIs
  <2> QED
    BY <1>1, <2>1 DEF Distinct
<1> QED
  BY <1>2, <1>3, SingleIf DEF Dealt

\* Filters that have lost their child, in the locals of f and in arr.
Handed(f, arr) == CarriesOK(f, heap) /\ \A i \in DOMAIN arr : IsLoose(heap, arr[i].filter)

LEMMA HandedOn ==
  ASSUME NEW n \in DOMAIN heap, SameBut(heap', heap, n), heap[n].kind # "Filter",
         NEW f, NEW arr, Handed(f, arr)
  PROVE  CarriesOK(f, heap') /\ \A i \in DOMAIN arr : IsLoose(heap', arr[i].filter)
<1>1. ASSUME NEW x, IsLoose(heap, x) PROVE IsLoose(heap', x)
  <2>1. x # n /\ x \in DOMAIN heap
    BY <1>1 DEF IsLoose
  <2> QED
    BY <1>1, <2>1 DEF IsLoose, SameBut
<1> QED
  BY <1>1 DEF Handed, CarriesOK

(* The first child of a projection or of a join is taken out. *)
LEMMA PushTakes ==
  ASSUME OptimizerInv, frames # <<>>, Here.pass = "push", Here.at = "enter",
         heap[Here.node].kind \in {"Projection", "BinaryJoin"},
         heap' = transfer_child(heap, Here.node, 1),
         NEW f \in FrameTypes, NEW arr \in Seq(FilterEntries),
         Recurse(f, heap[Here.node].child[1], arr),
         f.pass = Here.pass, f.node = Here.node, f.cur = Here.cur, f.done = Here.done, f.arr = <<>>,
         \/ heap[Here.node].kind = "Projection" /\ f.at = "child" /\ f.rgt = <<>> /\ f.stay = <<>>
         \/ heap[Here.node].kind = "BinaryJoin" /\ f.at = "left",
         Handed(f, arr), Dealt(Here, f, Frame(f.pass, heap[Here.node].child[1], arr)),
         UNCHANGED <<root, ret, outcome>>, Quiet
  PROVE  OptimizerInv'
<1> DEFINE n == Here.node
<1>1. StructureOK
  BY DEF OptimizerInv
<1>2. /\ heap \in Seq(HeapNodes) /\ n \in DOMAIN heap /\ Live(n) /\ Here \in FrameTypes
      /\ Here.cur \in {Null} \cup DOMAIN heap /\ PushShape(Here, heap[n]) /\ ArityOK(heap[n])
      /\ Waits(Here) <=> ret # Null
  BY <1>1, HereOK
<1>3. heap[n].child \in Seq(Nat) /\ IsWhole(heap[n]) /\ ret = Null
  BY <1>2, NodesTyped DEF PushShape, Waits
<1>4. 1 \in DOMAIN heap[n].child /\ (heap[n].kind = "BinaryJoin" => 2 \in DOMAIN heap[n].child)
  BY <1>2, <1>3 DEF ArityOK
<1>5. heap[n].child[1] # Null
  BY <1>3, <1>4 DEF IsWhole
<1>6. /\ Writes(n, 1, Null) /\ Grounded(heap') /\ SameSchemas(heap', heap)
      /\ Takes(1, 1, f, arr)
  BY <1>3, <1>4, <1>5, TransferTakes
<1>7. SameBut(heap', heap, n)
      /\ \A j \in DOMAIN heap[n].child :
           heap'[n].child[j] = IF j = 1 THEN Null ELSE heap[n].child[j]
  BY <1>6 DEF Writes, WritesIn
<1>8. CarriesOK(f, heap') /\ \A i \in DOMAIN arr : IsLoose(heap', arr[i].filter)
  BY <1>2, <1>7, HandedOn
<1>9. FrameOK(f, heap')
  <2>1. /\ heap'[n].kind = heap[n].kind /\ DOMAIN heap' = DOMAIN heap
        /\ heap'[n].child[1] = Null
        /\ heap[n].kind = "BinaryJoin" => heap'[n].child[2] # Null
    <3>1. heap[n].kind = "BinaryJoin" => heap'[n].child[2] = heap[n].child[2]
      BY <1>4, <1>7
    <3>2. heap[n].kind = "BinaryJoin" => heap[n].child[2] # Null
      BY <1>3, <1>4 DEF IsWhole
    <3>3. heap'[n].child[1] = Null
      BY <1>4, <1>7
    <3> QED
      BY <1>7, <3>1, <3>2, <3>3 DEF SameBut
  <2>2. PushShape(f, heap'[n])
    BY <1>2, <2>1 DEF PushShape
  <2> QED
    BY <1>2, <1>8, <2>1, <2>2 DEF FrameOK, Live
<1>10. Calls(1, f, arr)
  <2>1. Here.done = 0 /\ Waits(f) /\ WaitsFor(f) = 1
    BY <1>2 DEF Waits, WaitsFor, PushShape
  <2> QED
    BY <1>8, <1>9, <2>1 DEF Calls
<1> QED
  BY <1>6, <1>10, TakeStep

LEMMA PushProjectionInv ==
  ASSUME OptimizerInv, PushProjection
  PROVE  OptimizerInv'
<1> DEFINE n == Here.node
           f == [Here EXCEPT !.at = "child", !.arr = <<>>]
           none == <<>>
<1>1. /\ frames # none /\ Here.pass = "push" /\ Here.at = "enter" /\ heap[n].kind = "Projection"
      /\ heap' = transfer_child(heap, n, 1) /\ Recurse(f, heap[n].child[1], Here.arr)
      /\ UNCHANGED <<root, ret, outcome>> /\ Quiet
  BY DEF PushProjection, In
<1>2. StructureOK /\ OwnersOK
  BY DEF OptimizerInv
<1>3. /\ heap \in Seq(HeapNodes) /\ n \in DOMAIN heap /\ Here \in FrameTypes /\ FrameOK(Here, heap)
      /\ PushShape(Here, heap[n]) /\ Len(frames) \in DOMAIN frames /\ frames \in Seq(FrameTypes)
      /\ Here = frames[Len(frames)] /\ ArityOK(heap[n])
  BY <1>1, <1>2, HereOK
<1>4. /\ f \in FrameTypes /\ f.pass = Here.pass /\ f.node = n /\ f.at = "child"
      /\ f.cur = Here.cur /\ f.done = Here.done /\ f.arr = none /\ f.rgt = Here.rgt
      /\ f.stay = Here.stay
  BY <1>3, FrameProjected
<1> HIDE DEF f, none
<1>5. Here.rgt = none /\ Here.stay = none /\ Here.arr \in Seq(FilterEntries)
  BY <1>1, <1>3, FrameTyped DEF PushShape, none
<1>6. heap[n].child[1] \in Nat
  BY <1>1, <1>3, NodesTyped DEF ArityOK
<1>7. LET g == Frame(f.pass, heap[n].child[1], Here.arr)
      IN  g \in FrameTypes /\ g.arr = Here.arr /\ g.rgt = none /\ g.stay = none
  <2>1. f.pass \in {"choose", "push"}
    BY <1>4, FrameTyped
  <2> QED
    BY <1>5, <1>6, <2>1, NewFrame DEF none
<1>8. Distinct(Here) /\ CarriesOK(Here, heap)
  <2>1. Single(Here)
    BY <1>2, <1>3, CarriedOnce
  <2> QED
    BY <1>3, <2>1, DistinctIf DEF FrameOK
<1>9. Dealt(Here, f, Frame(f.pass, heap[n].child[1], Here.arr))
  BY <1>3, <1>4, <1>5, <1>7, <1>8, ListDealt DEF none
<1>10. Handed(f, Here.arr)
  <2>1. DOMAIN none = {}
    BY DEF none
  <2> QED
    BY <1>4, <1>5, <1>8, <2>1 DEF Handed, CarriesOK
<1> QED
  BY <1>1, <1>4, <1>5, <1>9, <1>10, PushTakes DEF none

LEMMA WriteWrites ==
  ASSUME NEW h \in Seq(HeapNodes), NEW n \in DOMAIN h, NEW k \in DOMAIN h[n].child, NEW c \in Nat
  PROVE  WritesIn(h, Write(h, n, k, c), n, k, c) /\ SameSchemas(Write(h, n, k, c), h)
<1> DEFINE g == Write(h, n, k, c)
<1>1. /\ SameBut(g, h, n) /\ g[n].schema = h[n].schema
      /\ \A j \in DOMAIN h[n].child : g[n].child[j] = IF j = k THEN c ELSE h[n].child[j]
  BY PointerWritten
<1> HIDE DEF g
<1>2. WritesIn(h, g, n, k, c)
  BY <1>1 DEF WritesIn
<1>3. SameSchemas(g, h)
  BY <1>1 DEF SameSchemas, SameBut
<1> QED
  BY <1>2, <1>3 DEF g

(* The node that was awaited comes back as child k of the top node. *)
LEMMA ComesBack ==
  ASSUME OptimizerInv, frames # <<>>, Waits(Here), NEW k, k = WaitsFor(Here),
         k \in DOMAIN heap[Here.node].child,
         heap[Here.node].kind \in {"Filter", "Projection", "BinaryJoin"},
         \A j \in DOMAIN heap[Here.node].child : j # k => heap[Here.node].child[j] # Null
  PROVE  LET g == set_child(heap, Here.node, k, ret)
         IN  /\ WritesIn(heap, g, Here.node, k, ret) /\ SameSchemas(g, heap)
             /\ Formed(g) /\ Grounded(g)
<1> DEFINE n == Here.node
           g == set_child(heap, n, k, ret)
<1>1. StructureOK /\ OwnersOK /\ SchemasOK /\ Grounded(heap) /\ Formed(heap)
  BY DEF OptimizerInv, StructureOK, HeapOK
<1>2. heap \in Seq(HeapNodes) /\ n \in DOMAIN heap /\ n # Null /\ (Waits(Here) <=> ret # Null)
  BY <1>1, HereOK
<1>3. ret \in DOMAIN heap /\ ret \in Nat /\ ret # n
  BY <1>1, <1>2, RetIs, NodeOnTop
<1>4. g = Write(heap, n, k, ret)
  BY <1>1, SetChildWrites
<1>5. WritesIn(heap, g, n, k, ret) /\ SameSchemas(g, heap)
  BY <1>2, <1>3, <1>4, WriteWrites
<1>6. Loose(heap, n)
  BY <1>1, <1>2, TopLoose, NodeOnTop
<1> HIDE DEF g, n
<1>7. Formed(g)
  BY <1>1, <1>3, <1>5, FormedWritten
<1>8. Grounded(g)
  BY <1>1, <1>3, <1>5, <1>6, GroundedWritten
<1> QED
  BY <1>5, <1>7, <1>8 DEF g, n

LEMMA PushJoinRightInv ==
  ASSUME OptimizerInv, PushJoinRight
  PROVE  OptimizerInv'
<1> DEFINE n == Here.node
           h == set_child(heap, n, 1, ret)
           f == [Here EXCEPT !.at = "right", !.rgt = <<>>]
           none == <<>>
           c == h[n].child[2]
<1>1. /\ frames # none /\ Here.pass = "push" /\ Here.at = "left" /\ heap[n].kind = "BinaryJoin"
      /\ heap' = transfer_child(h, n, 2) /\ Recurse(f, heap[n].child[2], Here.rgt)
      /\ ret' = Null /\ UNCHANGED <<root, outcome>> /\ Quiet
  BY DEF PushJoinRight, In
<1>2. StructureOK /\ OwnersOK
  BY DEF OptimizerInv
<1>3. /\ heap \in Seq(HeapNodes) /\ n \in DOMAIN heap /\ n # Null /\ Live(n)
      /\ Here \in FrameTypes /\ FrameOK(Here, heap) /\ Here.cur \in {Null} \cup DOMAIN heap
      /\ PushShape(Here, heap[n]) /\ Len(frames) \in DOMAIN frames /\ frames \in Seq(FrameTypes)
      /\ Here = frames[Len(frames)] /\ ArityOK(heap[n]) /\ (Waits(Here) <=> ret # Null)
  BY <1>1, <1>2, HereOK
<1>4. /\ f \in FrameTypes /\ f.pass = Here.pass /\ f.node = n /\ f.at = "right"
      /\ f.cur = Here.cur /\ f.done = Here.done /\ f.arr = Here.arr /\ f.rgt = none
      /\ f.stay = Here.stay
  BY <1>3, FrameTurned
<1> HIDE DEF f, none, h
<1>5. /\ Here.arr = none /\ Here.rgt \in Seq(FilterEntries) /\ Here.done = 0
      /\ heap[n].child \in Seq(Nat) /\ DOMAIN heap[n].child = {1, 2}
      /\ heap[n].child[1] = Null /\ heap[n].child[2] # Null
  <2>1. heap[n].child \in Seq(Nat) /\ Len(heap[n].child) = 2
    BY <1>1, <1>3, NodesTyped DEF ArityOK
  <2> QED
    BY <1>1, <1>3, <2>1, FrameTyped DEF PushShape, none
<1>6. Waits(Here) /\ WaitsFor(Here) = 1
  BY <1>1 DEF Waits, WaitsFor
<1>7. WritesIn(heap, h, n, 1, ret) /\ SameSchemas(h, heap) /\ Formed(h) /\ Grounded(h)
  BY <1>1, <1>5, <1>6, ComesBack DEF h, none
<1>8. /\ h \in Seq(HeapNodes) /\ n \in DOMAIN h /\ DOMAIN h = DOMAIN heap /\ SameBut(h, heap, n)
      /\ DOMAIN h[n].child = {1, 2} /\ h[n].child[1] = ret
      /\ h[n].child[2] = heap[n].child[2]
  BY <1>3, <1>5, <1>7 DEF WritesIn, SameBut
<1>9. WritesIn(h, heap', n, 2, Null) /\ SameBut(heap', h, n) /\ heap'[n].schema = h[n].schema
  <2>1. SameBut(heap', h, n) /\ heap'[n].schema = h[n].schema
        /\ \A j \in DOMAIN h[n].child : heap'[n].child[j] = IF j = 2 THEN Null ELSE h[n].child[j]
    BY <1>1, <1>8, Transferred
  <2> QED
    BY <1>8, <2>1 DEF WritesIn
<1>10. SameBut(heap', heap, n) /\ heap'[n].child[1] = ret /\ heap'[n].child[2] = Null
       /\ DOMAIN heap'[n].child = {1, 2}
  <2>1. heap'[n].child[1] = ret /\ heap'[n].child[2] = Null /\ DOMAIN heap'[n].child = {1, 2}
    BY <1>8, <1>9 DEF WritesIn, SameBut
  <2> QED
    BY <1>8, <1>9, <2>1 DEF SameBut
<1>11. SameSchemas(heap', heap)
  BY <1>7, <1>8, <1>9 DEF SameSchemas, SameBut
<1>12. Grounded(heap')
  BY <1>7, <1>9, GroundedWritten
<1>13. LET g == Frame(f.pass, heap[n].child[2], Here.rgt)
       IN  g \in FrameTypes /\ g.arr = Here.rgt /\ g.rgt = none /\ g.stay = none
  <2>1. f.pass \in {"choose", "push"} /\ heap[n].child[2] \in Nat
    BY <1>4, <1>5, FrameTyped
  <2> QED
    BY <1>5, <2>1, NewFrame DEF none
<1>14. Distinct(Here) /\ CarriesOK(Here, heap)
  <2>1. Single(Here)
    BY <1>2, <1>3, CarriedOnce
  <2> QED
    BY <1>3, <2>1, DistinctIf DEF FrameOK
<1>15. Dealt(Here, f, Frame(f.pass, heap[n].child[2], Here.rgt))
  BY <1>3, <1>4, <1>5, <1>13, <1>14, ListDealt DEF none
<1>16. CarriesOK(f, heap') /\ \A i \in DOMAIN Here.rgt : IsLoose(heap', Here.rgt[i].filter)
  <2>1. Handed(f, Here.rgt)
    <3>1. DOMAIN none = {}
      BY DEF none
    <3> QED
      BY <1>4, <1>5, <1>14, <3>1 DEF Handed, CarriesOK
  <2> QED
    BY <1>1, <1>3, <1>10, <2>1, HandedOn
<1>17. FrameOK(f, heap')
  <2>1. PushShape(f, heap'[n])
    <3>1. heap'[n].kind = "BinaryJoin" /\ ret # Null
      BY <1>1, <1>3, <1>6, <1>10 DEF SameBut
    <3> QED
      BY <1>3, <1>4, <1>5, <1>10, <3>1 DEF PushShape, none
  <2> QED
    BY <1>3, <1>4, <1>10, <1>16, <2>1, <1>1 DEF FrameOK, Live, SameBut
<1>18. Takes(2, 1, f, Here.rgt)
  <2>1. /\ ChildAt(heap', n, 2) = Null /\ ChildAt(heap, n, 1) = Null /\ ChildAt(heap', n, 1) = ret
    BY <1>3, <1>5, <1>10 DEF ChildAt, SameBut
  <2>2. \A m, i \in Nat : (m # n \/ i \notin {1, 2}) => ChildAt(heap', m, i) = ChildAt(heap, m, i)
    BY <1>5, <1>10 DEF ChildAt, SameBut
  <2>3. Recurse(f, heap[n].child[2], Here.rgt)
    BY <1>1
  <2> QED
    BY <1>1, <1>4, <1>5, <1>10, <1>15, <2>1, <2>2, <2>3 DEF Takes
<1>19. Calls(2, f, Here.rgt)
  <2>1. Waits(f) /\ WaitsFor(f) = 2
    BY <1>4 DEF Waits, WaitsFor
  <2> QED
    BY <1>1, <1>4, <1>16, <1>17, <2>1 DEF Calls
<1> QED
  BY <1>1, <1>6, <1>11, <1>12, <1>18, <1>19, TakeStep DEF none

LEMMA GoingIs ==
  ASSUME NEW arr \in Seq(FilterEntries), NEW dir, NEW mp
  PROVE  LET T == Going(arr, dir, mp)
             Goes(k) == check_direction(arr[k].relations, mp) = dir
         IN  /\ T[0] = <<>>
             /\ \A k \in 1 .. Len(arr) : T[k - 1] \in Seq(FilterEntries) =>
                  T[k] = IF Goes(k) THEN Append(T[k - 1], arr[k]) ELSE T[k - 1]
<1> DEFINE N == Len(arr)
           S == Seq(FilterEntries)
           none == <<>>
           Goes(k) == check_direction(arr[k].relations, mp) = dir
           step == [k \in 1 .. N |-> [q \in S |-> IF Goes(k) THEN Append(q, arr[k]) ELSE q]]
<1>1. N \in Nat /\ none \in S /\ \A k \in 1 .. N : arr[k] \in FilterEntries
  OBVIOUS
<1>2. \A q \in S : \A k \in 1 .. N : Append(q, arr[k]) \in S
  BY <1>1
<1> HIDE DEF N, Goes
<1>3. step \in Steps(N, S)
  <2> HIDE DEF S
  <2> QED
    BY <1>2 DEF Steps
<1>4. \A k \in 1 .. N, q \in S : step[k][q] = IF Goes(k) THEN Append(q, arr[k]) ELSE q
  <2> HIDE DEF S
  <2> QED
    OBVIOUS
<1> HIDE DEF step, none, S
<1>5. Solutions(N, S, none, step) # {}
  BY <1>1, <1>3, RecursionExists
<1>6. PICK f \in [0 .. N -> S] : f[0] = none /\ \A k \in 1 .. N : f[k] = step[k][f[k - 1]]
  BY <1>5 DEF Solutions
<1>7. ASSUME NEW k \in 1 .. N
      PROVE  f[k] = IF Goes(k) THEN Append(f[k - 1], arr[k]) ELSE f[k - 1]
  <2>1. f[k - 1] \in S
    BY <1>1
  <2> QED
    BY <1>4, <1>6, <2>1
<1>8. f = [k \in 0 .. N |-> IF k = 0 THEN none
                            ELSE IF Goes(k) THEN Append(f[k - 1], arr[k]) ELSE f[k - 1]]
  <2>1. f = [k \in 0 .. N |-> f[k]]
    OBVIOUS
  <2>2. \A k \in 0 .. N : f[k] = IF k = 0 THEN none
                                 ELSE IF Goes(k) THEN Append(f[k - 1], arr[k]) ELSE f[k - 1]
    <3> SUFFICES ASSUME NEW k \in 0 .. N
                 PROVE  f[k] = IF k = 0 THEN none
                               ELSE IF Goes(k) THEN Append(f[k - 1], arr[k]) ELSE f[k - 1]
      OBVIOUS
    <3>1. k # 0 => k \in 1 .. N
      BY <1>1
    <3> QED
      BY <1>6, <1>7, <3>1
  <2> QED
    BY <2>1, <2>2
<1> DEFINE Solves(g) == g = [k \in 0 .. N |-> IF k = 0 THEN none
                               ELSE IF Goes(k) THEN Append(g[k - 1], arr[k]) ELSE g[k - 1]]
<1>9. Going(arr, dir, mp) = CHOOSE g : Solves(g)
  BY DEF Going, none, N, Goes
<1>10. Solves(Going(arr, dir, mp))
  BY <1>8, <1>9
<1> DEFINE T == Going(arr, dir, mp)
<1> HIDE DEF T
<1>11. T[0] = none /\ \A k \in 1 .. N :
       T[k] = IF Goes(k) THEN Append(T[k - 1], arr[k]) ELSE T[k - 1]
  <2>1. Solves(T)
    BY <1>10 DEF T
  <2>2. \A k \in 0 .. N : T[k] = IF k = 0 THEN none
                                ELSE IF Goes(k) THEN Append(T[k - 1], arr[k]) ELSE T[k - 1]
    BY <2>1
  <2> QED
    BY <1>1, <2>2
<1> QED
  BY <1>11 DEF T, none, N, Goes

\* t has the first k entries of arr that go in direction dir.
Picked(t, arr, dir, mp, k) ==
  /\ t \in Seq(FilterEntries)
  /\ \A x \in DOMAIN t : \E i \in 1 .. k :
       check_direction(arr[i].relations, mp) = dir /\ t[x] = arr[i]
  /\ \A i \in 1 .. k : check_direction(arr[i].relations, mp) = dir
       => \E x \in DOMAIN t : t[x] = arr[i]
  /\ \A x, y \in DOMAIN t : t[x].filter = t[y].filter => x = y

LEMMA OneMore ==
  ASSUME NEW arr \in Seq(FilterEntries), NEW dir, NEW mp,
         \A i, j \in DOMAIN arr : arr[i].filter = arr[j].filter => i = j,
         NEW k \in DOMAIN arr, NEW t, Picked(t, arr, dir, mp, k - 1)
  PROVE  Picked(IF check_direction(arr[k].relations, mp) = dir THEN Append(t, arr[k]) ELSE t,
                arr, dir, mp, k)
<1> DEFINE Goes(i) == check_direction(arr[i].relations, mp) = dir
           u == Append(t, arr[k])
<1>1. /\ k \in Nat \ {0} /\ 1 .. k = (1 .. k - 1) \cup {k} /\ k \notin 1 .. k - 1
      /\ arr[k] \in FilterEntries /\ t \in Seq(FilterEntries) /\ 1 .. k \subseteq DOMAIN arr
  BY DEF Picked
<1> HIDE DEF Goes
<1>2. /\ \A x \in DOMAIN t : \E i \in 1 .. k - 1 : Goes(i) /\ t[x] = arr[i]
      /\ \A i \in 1 .. k - 1 : Goes(i) => \E x \in DOMAIN t : t[x] = arr[i]
      /\ \A x, y \in DOMAIN t : t[x].filter = t[y].filter => x = y
  BY DEF Picked, Goes
<1>3. CASE ~Goes(k)
  <2>1. Picked(t, arr, dir, mp, k)
    BY <1>1, <1>2, <1>3 DEF Picked, Goes
  <2> QED
    BY <1>3, <2>1 DEF Goes
<1>4. CASE Goes(k)
  <2>1. /\ u \in Seq(FilterEntries) /\ DOMAIN u = DOMAIN t \cup {Len(t) + 1}
        /\ Len(t) + 1 \notin DOMAIN t
        /\ u[Len(t) + 1] = arr[k] /\ \A x \in DOMAIN t : u[x] = t[x]
    BY <1>1
  <2> HIDE DEF u
  <2>2. \A x \in DOMAIN u : \E i \in 1 .. k : Goes(i) /\ u[x] = arr[i]
    BY <1>1, <1>2, <1>4, <2>1
  <2>3. \A i \in 1 .. k : Goes(i) => \E x \in DOMAIN u : u[x] = arr[i]
    BY <1>1, <1>2, <2>1
  <2>4. \A x \in DOMAIN t : t[x].filter # arr[k].filter
    BY <1>1, <1>2
  <2>5. \A x, y \in DOMAIN u : u[x].filter = u[y].filter => x = y
    BY <1>2, <2>1, <2>4
  <2>6. Picked(u, arr, dir, mp, k)
    BY <2>1, <2>2, <2>3, <2>5 DEF Picked, Goes
  <2> QED
    BY <1>4, <2>6 DEF Goes, u
<1> QED
  BY <1>3, <1>4

(* The entries of a filter_arr that are dealt to one side. *)
LEMMA TowardsPicks ==
  ASSUME NEW arr \in Seq(FilterEntries), NEW dir, NEW mp,
         \A i, j \in DOMAIN arr : arr[i].filter = arr[j].filter => i = j
  PROVE  Picked(Towards(arr, dir, mp), arr, dir, mp, Len(arr))
<1> DEFINE T == Going(arr, dir, mp)
           N == Len(arr)
           Good == {k \in 0 .. N : Picked(T[k], arr, dir, mp, k)}
<1>1. N \in Nat /\ DOMAIN arr = 1 .. N
  OBVIOUS
<1>2. /\ T[0] = <<>>
      /\ \A k \in 1 .. N : T[k - 1] \in Seq(FilterEntries) =>
           T[k] = IF check_direction(arr[k].relations, mp) = dir THEN Append(T[k - 1], arr[k])
                  ELSE T[k - 1]
  BY GoingIs
<1> HIDE DEF T, N
<1>3. 0 \in Good
  <2>1. T[0] \in Seq(FilterEntries) /\ DOMAIN T[0] = {} /\ 1 .. 0 = {}
    BY <1>2
  <2>2. Picked(T[0], arr, dir, mp, 0)
    BY <2>1 DEF Picked
  <2> QED
    BY <1>1, <2>2
<1>4. ASSUME NEW k \in 0 .. N - 1, k \in Good PROVE k + 1 \in Good
  <2>1. k + 1 \in 1 .. N /\ (k + 1) - 1 = k /\ k + 1 \in DOMAIN arr /\ k + 1 \in 0 .. N
    BY <1>1
  <2>2. Picked(T[k], arr, dir, mp, k) /\ T[k] \in Seq(FilterEntries)
    BY <1>4 DEF Picked
  <2>3. T[k + 1] = IF check_direction(arr[k + 1].relations, mp) = dir
                   THEN Append(T[k], arr[k + 1]) ELSE T[k]
    BY <1>2, <2>1, <2>2
  <2>4. Picked(T[k + 1], arr, dir, mp, k + 1)
    <3>1. \A m \in DOMAIN arr : \A t :
            Picked(t, arr, dir, mp, m - 1) =>
              Picked(IF check_direction(arr[m].relations, mp) = dir THEN Append(t, arr[m]) ELSE t,
                     arr, dir, mp, m)
      BY OneMore
    <3> QED
      BY <2>1, <2>2, <2>3, <3>1
  <2> QED
    BY <2>1, <2>4
<1>5. 0 .. N \subseteq Good
  <2> HIDE DEF Good
  <2> QED
    BY <1>1, <1>3, <1>4, IntervalInductionSet
<1>6. N \in 0 .. N
  BY <1>1
<1> QED
  BY <1>5, <1>6 DEF Towards, T, N

\* The node that came back is set as child k; the top activation has no other.
Back(k) ==
  LET node == heap[Here.node]
  IN  /\ frames # <<>> /\ Waits(Here) /\ k = WaitsFor(Here) /\ Here.cur = Null
      /\ node.kind \in {"Filter", "Projection", "BinaryJoin"}
      /\ k \in DOMAIN node.child /\ node.child[k] = Null
      /\ \A j \in DOMAIN node.child : j # k => node.child[j] # Null
      /\ heap' = set_child(heap, Here.node, k, ret)

LEMMA BackKeeps ==
  ASSUME OptimizerInv, NEW k, Back(k), Quiet, outcome' \in {outcome, Here.pass}
  PROVE  /\ Writes(Here.node, k, ret) /\ heap[Here.node].child[k] = Null /\ frames # <<>>
         /\ HeapOK' /\ Grounded(heap') /\ OnlyAt(Here.node) /\ OthersOK
         /\ GivenOK' /\ CallsOK' /\ join_trie' = join_trie
         /\ DOMAIN heap' = DOMAIN heap /\ \A m \in DOMAIN heap : heap'[m].kind = heap[m].kind
         /\ IsWhole(heap'[Here.node]) /\ heap'[Here.node].schema = heap[Here.node].schema
         /\ \A m, j \in Nat : Sound(ChildAt(heap', m, j))
         /\ \E sc : NodeFits(heap', Here.node, sc)
<1> DEFINE n == Here.node
<1> PICK N : N = Len(frames)
  OBVIOUS
<1>1. StructureOK /\ OwnersOK /\ SchemasOK
  BY DEF OptimizerInv
<1>2. /\ frames # <<>> /\ Waits(Here) /\ k = WaitsFor(Here) /\ Here.cur = Null
      /\ heap[n].kind \in {"Filter", "Projection", "BinaryJoin"}
      /\ k \in DOMAIN heap[n].child /\ heap[n].child[k] = Null
      /\ \A j \in DOMAIN heap[n].child : j # k => heap[n].child[j] # Null
      /\ heap' = set_child(heap, n, k, ret)
  BY DEF Back
<1>3. /\ heap \in Seq(HeapNodes) /\ n \in DOMAIN heap /\ Live(n) /\ (Waits(Here) <=> ret # Null)
      /\ N \in DOMAIN frames /\ Here = frames[N] /\ ret \in {Null} \cup DOMAIN heap
      /\ \A j \in DOMAIN heap[n].child : heap[n].child[j] \in {Null} \cup DOMAIN heap
  BY <1>1, <1>2, HereOK
<1>4. /\ WritesIn(heap, heap', n, k, ret) /\ SameSchemas(heap', heap)
      /\ Formed(heap') /\ Grounded(heap')
  BY <1>2, ComesBack
<1>5. SameBut(heap', heap, n)
      /\ \A j \in DOMAIN heap[n].child : heap'[n].child[j] = IF j = k THEN ret ELSE heap[n].child[j]
  BY <1>4 DEF WritesIn
<1>6. CallsOK' /\ join_trie' = join_trie /\ given' = given
  BY <1>1, <1>2, QuietKeeps
<1>7. OnlyAt(n) /\ GivenOK' /\ DOMAIN heap' = DOMAIN heap
      /\ \A m \in DOMAIN heap : heap'[m].kind = heap[m].kind
  BY <1>2, <1>5, <1>6, TopWritten
<1>8. OthersOK
  BY <1>1, <1>2, <1>7, NodeOnTop, FramesKept DEF OthersOK
<1>9. IsWhole(heap'[n])
  BY <1>2, <1>3, <1>5 DEF IsWhole, SameBut
<1>10. \A m, j \in Nat : Sound(ChildAt(heap', m, j))
  BY <1>4, SoundNow, WrittenSound DEF Writes
<1>11. \E sc : NodeFits(heap', n, sc)
  <2>1. PICK sc : SchemasFit(n, sc)
    BY <1>1, <1>3 DEF SchemasOK
  <2>2. NodeFits(heap, n, sc) /\ FrameFits(heap, Here, Below(N), sc)
    BY <1>3, <2>1 DEF SchemasFit
  <2>3. ret \in DOMAIN heap /\ sc[k] = heap[ret].schema
    BY <1>2, <1>3, <2>2 DEF FrameFits, Below
  <2>4. NodeFits(heap', n, sc)
    BY <1>3, <1>4, <2>2, <2>3, NodeStillFits
  <2> QED
    BY <2>4
<1>12. HeapOK'
  BY <1>4 DEF HeapOK
<1>13. heap'[n].schema = heap[n].schema /\ Writes(n, k, ret)
  BY <1>3, <1>4 DEF SameSchemas, Writes
<1> QED
  BY <1>2, <1>4, <1>6, <1>7, <1>8, <1>9, <1>10, <1>11, <1>12, <1>13

LEMMA BackContinues ==
  ASSUME OptimizerInv, NEW k, Back(k), Quiet,
         NEW f \in FrameTypes, Continue(f), SameSlots(Here, f), f.pass = Here.pass, ~Waits(f),
         IsWhole(heap'[Here.node]) => FrameOK(f, heap'),
         root' = root, ret' = Null, outcome' = outcome
  PROVE  OptimizerInv'
<1> DEFINE n == Here.node
<1>1. StructureOK /\ OwnersOK /\ SchemasOK
  BY DEF OptimizerInv
<1>2. /\ Writes(n, k, ret) /\ heap[n].child[k] = Null /\ frames # <<>>
      /\ HeapOK' /\ Grounded(heap') /\ OnlyAt(n) /\ OthersOK
      /\ GivenOK' /\ CallsOK' /\ join_trie' = join_trie
      /\ DOMAIN heap' = DOMAIN heap /\ \A m \in DOMAIN heap : heap'[m].kind = heap[m].kind
      /\ IsWhole(heap'[n]) /\ heap'[n].schema = heap[n].schema
      /\ \A m, j \in Nat : Sound(ChildAt(heap', m, j))
      /\ \E sc : NodeFits(heap', n, sc)
  BY BackKeeps
<1>3. f.node = n /\ f.cur = Null
  BY DEF SameSlots, Back
<1>4. FramesOK' /\ StackOK' /\ SamePass
  BY <1>1, <1>2, StackContinues
<1>5. TrieOK'
  BY <1>1, <1>2, <1>4, TrieKept
<1>6. HolesOK'
  <2>1. Sound(root') /\ Sound(ret') /\ Sound(f.cur)
    BY <1>3, SoundNow
  <2>2. \A i, x \in Nat : Sound(FrameAt(frames', "cur", i, x))
    BY <1>1, <1>2, <2>1, ContinuedSound
  <2> QED
    BY <1>1, <1>2, <2>1, <2>2, NodeOnTop, HolesFilled
<1>7. Owned(Holding, LiveNodes)'
  BY <1>1, <1>2, SetOwners
<1>8. SchemasOK'
  <2>1. BelowSame
    BY <1>1, <1>2, <1>3, NodeOnTop, BelowContinues
  <2>2. PICK sc : NodeFits(heap', n, sc)
    BY <1>2
  <2>3. ASSUME NEW i \in DOMAIN frames'
        PROVE  \/ i \in DOMAIN frames /\ i # Len(frames) /\ frames'[i] = frames[i]
               \/ Free(frames'[i])
    <3>1. /\ DOMAIN frames' = DOMAIN frames /\ frames'[Len(frames)] = f
          /\ \A j \in DOMAIN frames : j # Len(frames) => frames'[j] = frames[j]
      BY <1>1, <1>2, HereOK, Continued
    <3> QED
      BY <1>3, <3>1 DEF Free
  <2> QED
    BY <1>1, <1>2, <2>1, <2>2, <2>3, NodeOnTop, SchemasAgain
<1> QED
  BY <1>2, <1>4, <1>5, <1>6, <1>7, <1>8 DEF OptimizerInv, StructureOK, OwnersOK

LEMMA BackReturns ==
  ASSUME OptimizerInv, NEW k, Back(k), Quiet, Unladen(Here), GiveBack(Here.node)
  PROVE  OptimizerInv'
<1> DEFINE n == Here.node
<1>1. StructureOK /\ OwnersOK /\ SchemasOK /\ frames # <<>> /\ Here.cur = Null
  BY DEF OptimizerInv, Back
<1>2. n \in DOMAIN heap /\ n # Null /\ frames \in Seq(FrameTypes)
  BY <1>1, HereOK
<1>3. outcome' \in {outcome, Here.pass}
  BY <1>1, <1>2, GivenBack
<1>4. /\ Writes(n, k, ret) /\ heap[n].child[k] = Null
      /\ HeapOK' /\ Grounded(heap') /\ OnlyAt(n) /\ OthersOK
      /\ GivenOK' /\ CallsOK' /\ join_trie' = join_trie
      /\ DOMAIN heap' = DOMAIN heap /\ \A m \in DOMAIN heap : heap'[m].kind = heap[m].kind
      /\ IsWhole(heap'[n]) /\ heap'[n].schema = heap[n].schema
      /\ \A m, j \in Nat : Sound(ChildAt(heap', m, j))
      /\ \E sc : NodeFits(heap', n, sc)
  BY <1>3, BackKeeps
<1>5. FramesOK' /\ StackOK' /\ SamePass
  BY <1>1, <1>2, <1>4, StackGivesBack
<1>6. TrieOK'
  BY <1>1, <1>4, <1>5, TrieKept
<1>7. HolesOK'
  <2>1. Sound(n)
    BY <1>2, <1>4 DEF Sound
  <2>2. Sound(root') /\ Sound(ret') /\ \A i, x \in Nat : Sound(FrameAt(frames', "cur", i, x))
    BY <1>1, <2>1, GivenBackSound
  <2> QED
    BY <1>1, <1>4, <2>1, <2>2, NodeOnTop, HolesFilled
<1>8. Owned(Holding, LiveNodes)'
  BY <1>1, <1>4, ReturnOwners
<1>9. SchemasOK'
  <2>1. BelowSame
    BY <1>1, <1>4, NodeOnTop, BelowGivesBack
  <2>2. PICK sc : NodeFits(heap', n, sc)
    BY <1>4
  <2>3. ASSUME NEW i \in DOMAIN frames'
        PROVE  i \in DOMAIN frames /\ i # Len(frames) /\ frames'[i] = frames[i]
    BY <1>1, <1>2, GivenBack
  <2> QED
    BY <1>1, <1>4, <2>1, <2>2, <2>3, NodeOnTop, SchemasAgain
<1> QED
  BY <1>4, <1>5, <1>6, <1>7, <1>8, <1>9 DEF OptimizerInv, StructureOK, OwnersOK

LEMMA ChooseSetChildInv ==
  ASSUME OptimizerInv, ChooseSetChild
  PROVE  OptimizerInv'
<1> DEFINE n == Here.node
           k == Here.done + 1
           f == [Here EXCEPT !.at = "enter", !.done = @ + 1]
           none == <<>>
<1>1. /\ frames # none /\ Here.pass = "choose" /\ Here.at = "child"
      /\ heap[n].kind \in {"Filter", "Projection", "BinaryJoin"}
      /\ heap' = set_child(heap, n, k, ret) /\ Quiet
      /\ \/ k < Len(heap[n].child) /\ Continue(f) /\ ret' = Null /\ UNCHANGED <<root, outcome>>
         \/ GiveBack(n)
  BY DEF ChooseSetChild, In
<1>2. StructureOK
  BY DEF OptimizerInv
<1>3. /\ heap \in Seq(HeapNodes) /\ n \in DOMAIN heap /\ Live(n) /\ Here \in FrameTypes
      /\ ChooseShape(Here, heap[n]) /\ FrameOK(Here, heap)
  BY <1>1, <1>2, HereOK
<1>4. Here.done \in Nat /\ heap[n].child \in Seq(Nat)
  BY <1>3, FrameTyped, NodesTyped
<1>5. /\ f \in FrameTypes /\ f.pass = Here.pass /\ f.node = n /\ f.at = "enter"
      /\ f.cur = Here.cur /\ f.done = k /\ f.arr = Here.arr /\ f.rgt = Here.rgt
      /\ f.stay = Here.stay
  BY <1>3, FrameAdvanced
<1> HIDE DEF f, none
<1>6. /\ Here.arr = none /\ Here.rgt = none /\ Here.stay = none /\ Here.cur = Null
      /\ Here.done < Len(heap[n].child)
      /\ \A j \in DOMAIN heap[n].child : heap[n].child[j] = Null <=> j = k
  BY <1>1, <1>3 DEF ChooseShape, none
<1>7. k \in DOMAIN heap[n].child
  BY <1>4, <1>6
<1>8. Waits(Here) /\ k = WaitsFor(Here)
  BY <1>1 DEF Waits, WaitsFor
<1> HIDE DEF k
<1>9. Back(k)
  BY <1>1, <1>6, <1>7, <1>8 DEF Back, none
<1>10. CASE k < Len(heap[n].child) /\ Continue(f) /\ ret' = Null /\ UNCHANGED <<root, outcome>>
  <2>1. SameSlots(Here, f) /\ ~Waits(f)
    BY <1>5 DEF SameSlots, Waits
  <2>2. ASSUME IsWhole(heap'[n]) PROVE FrameOK(f, heap')
    <3>1. SameBut(heap', heap, n)
      <4>1. Writes(n, k, ret)
        BY <1>1, <1>9, <1>10, BackKeeps
      <4> QED
        BY <4>1 DEF Writes, WritesIn
    <3>2. CarriesOK(f, heap')
      <4>1. DOMAIN none = {}
        BY DEF none
      <4> QED
        BY <1>5, <1>6, <4>1 DEF CarriesOK
    <3>3. ChooseShape(f, heap'[n])
      BY <1>1, <1>5, <1>6, <1>10, <2>2, <3>1 DEF ChooseShape, SameBut, IsWhole, none
    <3> QED
      BY <1>1, <1>3, <1>5, <1>6, <3>1, <3>2, <3>3 DEF FrameOK, Live, SameBut
  <2> QED
    BY <1>1, <1>5, <1>9, <1>10, <2>1, <2>2, BackContinues
<1>11. CASE GiveBack(n)
  BY <1>1, <1>6, <1>9, <1>11, BackReturns DEF Unladen, none
<1> QED
  BY <1>1, <1>10, <1>11

LEMMA PushProjectionEndInv ==
  ASSUME OptimizerInv, PushProjectionEnd
  PROVE  OptimizerInv'
<1> DEFINE n == Here.node
           none == <<>>
<1>1. /\ frames # none /\ Here.pass = "push" /\ Here.at = "child"
      /\ heap[n].kind = "Projection" /\ heap' = set_child(heap, n, 1, ret) /\ Quiet /\ GiveBack(n)
  BY DEF PushProjectionEnd, In
<1>2. StructureOK
  BY DEF OptimizerInv
<1>3. /\ heap \in Seq(HeapNodes) /\ n \in DOMAIN heap
      /\ PushShape(Here, heap[n]) /\ ArityOK(heap[n])
  BY <1>1, <1>2, HereOK
<1> HIDE DEF none
<1>4. /\ Here.arr = none /\ Here.rgt = none /\ Here.stay = none /\ Here.cur = Null
      /\ heap[n].child[1] = Null /\ Here.done = 0
  BY <1>1, <1>3 DEF PushShape, none
<1>5. DOMAIN heap[n].child = {1}
  BY <1>1, <1>3, NodesTyped DEF ArityOK
<1>6. Waits(Here) /\ 1 = WaitsFor(Here)
  BY <1>1, <1>4 DEF Waits, WaitsFor
<1>7. Back(1)
  BY <1>1, <1>4, <1>5, <1>6 DEF Back, none
<1> QED
  BY <1>1, <1>4, <1>7, BackReturns DEF Unladen, none

LEMMA PushJoinEndInv ==
  ASSUME OptimizerInv, PushJoinEnd
  PROVE  OptimizerInv'
<1> DEFINE n == Here.node
           f == [Here EXCEPT !.at = "wrap"]
           none == <<>>
<1>1. /\ frames # none /\ Here.pass = "push" /\ Here.at = "right"
      /\ heap[n].kind = "BinaryJoin" /\ heap' = set_child(heap, n, 2, ret) /\ Quiet
      /\ Continue(f) /\ ret' = Null /\ UNCHANGED <<root, outcome>>
  BY DEF PushJoinEnd, In
<1>2. StructureOK
  BY DEF OptimizerInv
<1>3. /\ heap \in Seq(HeapNodes) /\ n \in DOMAIN heap
      /\ PushShape(Here, heap[n]) /\ ArityOK(heap[n])
      /\ Here \in FrameTypes /\ FrameOK(Here, heap) /\ Live(n)
  BY <1>1, <1>2, HereOK
<1>4. /\ f \in FrameTypes /\ f.pass = Here.pass /\ f.node = n /\ f.at = "wrap"
      /\ f.cur = Here.cur /\ f.done = Here.done /\ f.arr = Here.arr /\ f.rgt = Here.rgt
      /\ f.stay = Here.stay
  BY <1>3, FrameJoined
<1> HIDE DEF none, f
<1>5. /\ Here.arr = none /\ Here.rgt = none /\ Here.cur = Null
      /\ heap[n].child[2] = Null /\ heap[n].child[1] # Null /\ Here.done = 0
  BY <1>1, <1>3 DEF PushShape, none
<1>6. DOMAIN heap[n].child = {1, 2}
  BY <1>1, <1>3, NodesTyped DEF ArityOK
<1>7. Waits(Here) /\ 2 = WaitsFor(Here)
  BY <1>1 DEF Waits, WaitsFor
<1>8. Back(2)
  BY <1>1, <1>5, <1>6, <1>7 DEF Back, none
<1>9. SameSlots(Here, f) /\ ~Waits(f)
  BY <1>4 DEF SameSlots, Waits
<1>10. ASSUME IsWhole(heap'[n]) PROVE FrameOK(f, heap')
  <2>1. SameBut(heap', heap, n)
    <3>1. Writes(n, 2, ret)
      BY <1>1, <1>8, BackKeeps
    <3> QED
      BY <3>1 DEF Writes, WritesIn
  <2>2. Handed(f, none)
    <3>1. CarriesOK(Here, heap) /\ DOMAIN none = {}
      BY <1>3 DEF FrameOK, none
    <3> QED
      BY <1>4, <3>1 DEF Handed, CarriesOK
  <2>3. CarriesOK(f, heap')
    BY <1>1, <1>3, <2>1, <2>2, HandedOn
  <2>4. PushShape(f, heap'[n])
    BY <1>1, <1>4, <1>5, <1>10, <2>1 DEF PushShape, SameBut, none
  <2> QED
    BY <1>1, <1>3, <1>4, <1>5, <2>1, <2>3, <2>4 DEF FrameOK, Live, SameBut
<1> QED
  BY <1>1, <1>4, <1>8, <1>9, <1>10, BackContinues

LEMMA DirectionIs ==
  ASSUME NEW mp, \A rel \in DOMAIN mp : mp[rel] \in {"Left", "Right"}, NEW relations \in Seq(STRING)
  PROVE  check_direction(relations, mp) \in {"Left", "Right", "Invalid"}
<1>1. relations # <<>> => 1 \in DOMAIN relations
  BY EmptyIs
<1> QED
  BY <1>1 DEF check_direction

LEMMA FiltersAre ==
  ASSUME NEW arr \in Seq(FilterEntries)
  PROVE  /\ FiltersOf(arr) \in Seq(Nat) /\ DOMAIN FiltersOf(arr) = DOMAIN arr
         /\ Len(FiltersOf(arr)) = Len(arr)
         /\ \A k \in DOMAIN arr : FiltersOf(arr)[k] = arr[k].filter /\ arr[k].filter \in Nat
<1>1. \A k \in DOMAIN arr : arr[k].filter \in Nat
  <2>1. \A k \in DOMAIN arr : arr[k] \in FilterEntries
    OBVIOUS
  <2> QED
    BY <2>1 DEF FilterEntries
<1>2. DOMAIN arr = 1 .. Len(arr) /\ Len(arr) \in Nat
  OBVIOUS
<1>3. FiltersOf(arr) \in [1 .. Len(arr) -> Nat]
  BY <1>1, <1>2 DEF FiltersOf
<1>4. \A k \in DOMAIN arr : FiltersOf(arr)[k] = arr[k].filter
  BY DEF FiltersOf
<1> QED
  BY <1>1, <1>2, <1>3, <1>4

LEMMA PickedFilters ==
  ASSUME NEW arr \in Seq(FilterEntries), NEW dir, NEW mp, NEW t, Picked(t, arr, dir, mp, Len(arr)),
         NEW n
  PROVE  (\E x \in DOMAIN t : t[x].filter = n)
         <=> \E i \in DOMAIN arr : check_direction(arr[i].relations, mp) = dir /\ arr[i].filter = n
<1> DEFINE Goes(i) == check_direction(arr[i].relations, mp) = dir
<1>1. DOMAIN arr = 1 .. Len(arr)
  OBVIOUS
<1> HIDE DEF Goes
<1>2. /\ \A x \in DOMAIN t : \E i \in DOMAIN arr : Goes(i) /\ t[x] = arr[i]
      /\ \A i \in DOMAIN arr : Goes(i) => \E x \in DOMAIN t : t[x] = arr[i]
  BY <1>1 DEF Picked, Goes
<1>3. (\E x \in DOMAIN t : t[x].filter = n) <=> \E i \in DOMAIN arr : Goes(i) /\ arr[i].filter = n
  BY <1>2
<1> QED
  BY <1>3 DEF Goes

(* A join deals its filters out to both sides and to itself. *)
LEMMA JoinDealt ==
  ASSUME NEW o \in FrameTypes, NEW f \in FrameTypes, NEW g \in FrameTypes, Distinct(o),
         NEW mp, \A rel \in DOMAIN mp : mp[rel] \in {"Left", "Right"},
         o.rgt = <<>>, o.stay = <<>>,
         f.arr = <<>>, f.rgt = Towards(o.arr, "Right", mp),
         f.stay = FiltersOf(Towards(o.arr, "Invalid", mp)),
         g.arr = Towards(o.arr, "Left", mp), g.rgt = <<>>, g.stay = <<>>
  PROVE  /\ Dealt(o, f, g)
         /\ \A k \in DOMAIN g.arr : \E i \in DOMAIN o.arr : g.arr[k].filter = o.arr[i].filter
         /\ \A k \in DOMAIN f.rgt : \E i \in DOMAIN o.arr : f.rgt[k].filter = o.arr[i].filter
         /\ \A k \in DOMAIN f.stay : \E i \in DOMAIN o.arr : f.stay[k] = o.arr[i].filter
<1> DEFINE none == <<>>
           arr == o.arr
           lft == Towards(arr, "Left", mp)
           rgt == Towards(arr, "Right", mp)
           inv == Towards(arr, "Invalid", mp)
           Side(i) == check_direction(arr[i].relations, mp)
           From(i, n) == arr[i].filter = n
<1>1. /\ o.rgt = none /\ o.stay = none /\ f.arr = none /\ f.rgt = rgt /\ f.stay = FiltersOf(inv)
      /\ g.arr = lft /\ g.rgt = none /\ g.stay = none /\ DOMAIN none = {}
  OBVIOUS
<1>2. arr \in Seq(FilterEntries) /\ \A i, j \in DOMAIN arr : arr[i].filter = arr[j].filter => i = j
  BY FrameTyped DEF Distinct
<1>3. \A i \in DOMAIN arr : Side(i) \in {"Left", "Right", "Invalid"}
  <2>1. \A i \in DOMAIN arr : arr[i].relations \in Seq(STRING)
    <3>1. \A i \in DOMAIN arr : arr[i] \in FilterEntries
      BY <1>2
    <3> QED
      BY <3>1 DEF FilterEntries
  <2> QED
    BY <2>1, DirectionIs
<1>4. /\ Picked(lft, arr, "Left", mp, Len(arr)) /\ Picked(rgt, arr, "Right", mp, Len(arr))
      /\ Picked(inv, arr, "Invalid", mp, Len(arr))
  BY <1>2, TowardsPicks
<1> HIDE DEF none, arr, lft, rgt, inv
<1>5. ASSUME NEW n
      PROVE  /\ (\E x \in DOMAIN lft : lft[x].filter = n)
                  <=> \E i \in DOMAIN arr : Side(i) = "Left" /\ From(i, n)
             /\ (\E x \in DOMAIN rgt : rgt[x].filter = n)
                  <=> \E i \in DOMAIN arr : Side(i) = "Right" /\ From(i, n)
             /\ (\E x \in DOMAIN inv : inv[x].filter = n)
                  <=> \E i \in DOMAIN arr : Side(i) = "Invalid" /\ From(i, n)
  <2>1. ASSUME NEW t, NEW dir, Picked(t, arr, dir, mp, Len(arr))
        PROVE  (\E x \in DOMAIN t : t[x].filter = n)
               <=> \E i \in DOMAIN arr :
                 check_direction(arr[i].relations, mp) = dir /\ arr[i].filter = n
    BY <1>2, <2>1, PickedFilters
  <2>2. (\E x \in DOMAIN lft : lft[x].filter = n)
        <=> \E i \in DOMAIN arr : Side(i) = "Left" /\ From(i, n)
    BY <1>4, <2>1
  <2>3. (\E x \in DOMAIN rgt : rgt[x].filter = n)
        <=> \E i \in DOMAIN arr : Side(i) = "Right" /\ From(i, n)
    BY <1>4, <2>1
  <2>4. (\E x \in DOMAIN inv : inv[x].filter = n)
        <=> \E i \in DOMAIN arr : Side(i) = "Invalid" /\ From(i, n)
    BY <1>4, <2>1
  <2> QED
    BY <2>2, <2>3, <2>4
<1>6. /\ \A x, y \in DOMAIN lft : lft[x].filter = lft[y].filter => x = y
      /\ \A x, y \in DOMAIN rgt : rgt[x].filter = rgt[y].filter => x = y
      /\ \A x, y \in DOMAIN inv : inv[x].filter = inv[y].filter => x = y
  BY <1>4 DEF Picked
<1>7. DOMAIN f.stay = DOMAIN inv /\ \A x \in DOMAIN inv : f.stay[x] = inv[x].filter
  <2>1. inv \in Seq(FilterEntries)
    BY <1>4 DEF Picked
  <2> QED
    BY <1>1, <2>1, FiltersAre
<1>8. \A n : \A i, j \in DOMAIN arr : (From(i, n) /\ From(j, n)) => Side(i) = Side(j)
  BY <1>2
<1> HIDE DEF Side, From
<1>9. \A x \in DOMAIN rgt, y \in DOMAIN inv : rgt[x].filter # inv[y].filter
  <2> SUFFICES ASSUME NEW x \in DOMAIN rgt, NEW y \in DOMAIN inv, rgt[x].filter = inv[y].filter
               PROVE  FALSE
    OBVIOUS
  <2>1. PICK i \in DOMAIN arr : Side(i) = "Right" /\ From(i, inv[y].filter)
    BY <1>5
  <2>2. PICK j \in DOMAIN arr : Side(j) = "Invalid" /\ From(j, inv[y].filter)
    BY <1>5
  <2> QED
    BY <1>8, <2>1, <2>2
<1>10. Distinct(f) /\ Distinct(g)
  BY <1>1, <1>6, <1>7, <1>9 DEF Distinct
<1>11. ASSUME NEW n, n # Null
       PROVE  /\ Has(o, n) <=> \E i \in DOMAIN arr : From(i, n)
              /\ Has(f, n) <=> \/ \E i \in DOMAIN arr : Side(i) = "Right" /\ From(i, n)
                               \/ \E i \in DOMAIN arr : Side(i) = "Invalid" /\ From(i, n)
              /\ Has(g, n) <=> \E i \in DOMAIN arr : Side(i) = "Left" /\ From(i, n)
  <2>1. Has(o, n) <=> \E i \in DOMAIN arr : From(i, n)
    <3>1. Has(o, n) <=> \/ \E k \in DOMAIN o.arr : o.arr[k].filter = n
                        \/ \E k \in DOMAIN o.rgt : o.rgt[k].filter = n
                        \/ \E k \in DOMAIN o.stay : o.stay[k] = n
      BY <1>11, HasIs
    <3> QED
      BY <1>1, <3>1 DEF arr, From
  <2>2. Has(f, n) <=> \/ \E k \in DOMAIN rgt : rgt[k].filter = n
                      \/ \E k \in DOMAIN inv : inv[k].filter = n
    <3>1. Has(f, n) <=> \/ \E k \in DOMAIN f.arr : f.arr[k].filter = n
                        \/ \E k \in DOMAIN f.rgt : f.rgt[k].filter = n
                        \/ \E k \in DOMAIN f.stay : f.stay[k] = n
      BY <1>11, HasIs
    <3> QED
      BY <1>1, <1>7, <3>1
  <2>3. Has(g, n) <=> \E k \in DOMAIN lft : lft[k].filter = n
    <3>1. Has(g, n) <=> \/ \E k \in DOMAIN g.arr : g.arr[k].filter = n
                        \/ \E k \in DOMAIN g.rgt : g.rgt[k].filter = n
                        \/ \E k \in DOMAIN g.stay : g.stay[k] = n
      BY <1>11, HasIs
    <3> QED
      BY <1>1, <3>1
  <2> QED
    BY <1>5, <2>1, <2>2, <2>3
<1>12. ASSUME NEW n, n # Null
       PROVE  (Has(o, n) <=> (Has(f, n) \/ Has(g, n))) /\ ~(Has(f, n) /\ Has(g, n))
  <2>1. Has(o, n) <=> (Has(f, n) \/ Has(g, n))
    BY <1>3, <1>11, <1>12 DEF Side
  <2>2. ~(Has(f, n) /\ Has(g, n))
    BY <1>8, <1>11, <1>12
  <2> QED
    BY <2>1, <2>2
<1>13. Dealt(o, f, g)
  BY <1>10, <1>12, SingleIf DEF Dealt
<1>14. \A k \in DOMAIN lft : \E i \in DOMAIN arr : lft[k].filter = arr[i].filter
  BY <1>5 DEF From
<1>15. \A k \in DOMAIN rgt : \E i \in DOMAIN arr : rgt[k].filter = arr[i].filter
  BY <1>5 DEF From
<1>16. \A k \in DOMAIN inv : \E i \in DOMAIN arr : inv[k].filter = arr[i].filter
  BY <1>5 DEF From
<1> QED
  BY <1>1, <1>7, <1>13, <1>14, <1>15, <1>16 DEF arr

LEMMA PushJoinInv ==
  ASSUME OptimizerInv, PushJoin
  PROVE  OptimizerInv'
<1> DEFINE n == Here.node
           mp == join_trie[n]
           lft == Towards(Here.arr, "Left", mp)
           rgt == Towards(Here.arr, "Right", mp)
           inv == Towards(Here.arr, "Invalid", mp)
           stay == FiltersOf(inv)
           f == [Here EXCEPT !.at = "left", !.arr = <<>>, !.rgt = rgt, !.stay = stay]
           none == <<>>
<1>1. /\ frames # none /\ Here.pass = "push" /\ Here.at = "enter" /\ heap[n].kind = "BinaryJoin"
      /\ heap' = transfer_child(heap, n, 1) /\ Recurse(f, heap[n].child[1], lft)
      /\ UNCHANGED <<root, ret, outcome>> /\ Quiet
  BY DEF PushJoin, In
<1>2. StructureOK /\ OwnersOK
  BY DEF OptimizerInv
<1>3. /\ heap \in Seq(HeapNodes) /\ n \in DOMAIN heap /\ Here \in FrameTypes /\ FrameOK(Here, heap)
      /\ PushShape(Here, heap[n]) /\ Len(frames) \in DOMAIN frames /\ frames \in Seq(FrameTypes)
      /\ Here = frames[Len(frames)] /\ ArityOK(heap[n])
  BY <1>1, <1>2, HereOK
<1>4. Distinct(Here) /\ CarriesOK(Here, heap)
  <2>1. Single(Here)
    BY <1>2, <1>3, CarriedOnce
  <2> QED
    BY <1>3, <2>1, DistinctIf DEF FrameOK
<1>5. Here.arr \in Seq(FilterEntries)
      /\ \A i, j \in DOMAIN Here.arr : Here.arr[i].filter = Here.arr[j].filter => i = j
  BY <1>3, <1>4, FrameTyped DEF Distinct
<1>6. lft \in Seq(FilterEntries) /\ rgt \in Seq(FilterEntries) /\ stay \in Seq(Nat)
  <2>1. lft \in Seq(FilterEntries) /\ rgt \in Seq(FilterEntries) /\ inv \in Seq(FilterEntries)
    BY <1>5, TowardsPicks DEF Picked
  <2> QED
    BY <2>1, FiltersAre
<1>7. \A rel \in DOMAIN mp : mp[rel] \in {"Left", "Right"}
  BY <1>1, <1>2, <1>3 DEF StructureOK, TrieOK
<1> HIDE DEF mp, lft, rgt, inv, stay
<1>8. /\ f \in FrameTypes /\ f.pass = Here.pass /\ f.node = n /\ f.at = "left"
      /\ f.cur = Here.cur /\ f.done = Here.done /\ f.arr = none /\ f.rgt = rgt /\ f.stay = stay
  <2>1. \A r \in Seq(FilterEntries), s \in Seq(Nat) :
          LET e == [Here EXCEPT !.at = "left", !.arr = <<>>, !.rgt = r, !.stay = s]
          IN  /\ e \in FrameTypes /\ e.pass = Here.pass /\ e.node = Here.node /\ e.at = "left"
              /\ e.cur = Here.cur /\ e.done = Here.done /\ e.arr = <<>> /\ e.rgt = r /\ e.stay = s
    BY <1>3, FrameDealt
  <2> QED
    BY <1>6, <2>1
<1> HIDE DEF f, none
<1>9. heap[n].child[1] \in Nat
  BY <1>1, <1>3, NodesTyped DEF ArityOK
<1> DEFINE g == Frame(f.pass, heap[n].child[1], lft)
<1>10. g \in FrameTypes /\ g.arr = lft /\ g.rgt = none /\ g.stay = none
  <2>1. f.pass \in {"choose", "push"}
    BY <1>8, FrameTyped
  <2> QED
    BY <1>6, <1>9, <2>1, NewFrame DEF none
<1> HIDE DEF g
<1>11. Here.rgt = none /\ Here.stay = none
  BY <1>1, <1>3 DEF PushShape, none
<1>12. /\ Dealt(Here, f, g)
       /\ \A k \in DOMAIN g.arr : \E i \in DOMAIN Here.arr : g.arr[k].filter = Here.arr[i].filter
       /\ \A k \in DOMAIN f.rgt : \E i \in DOMAIN Here.arr : f.rgt[k].filter = Here.arr[i].filter
       /\ \A k \in DOMAIN f.stay : \E i \in DOMAIN Here.arr : f.stay[k] = Here.arr[i].filter
  BY <1>3, <1>4, <1>7, <1>8, <1>10, <1>11, JoinDealt DEF none, lft, rgt, stay, inv
<1>13. Handed(f, lft)
  <2>1. \A i \in DOMAIN Here.arr : IsLoose(heap, Here.arr[i].filter)
    BY <1>4 DEF CarriesOK
  <2>2. DOMAIN none = {}
    BY DEF none
  <2> QED
    BY <1>8, <1>10, <1>12, <2>1, <2>2 DEF Handed, CarriesOK
<1> QED
  BY <1>1, <1>6, <1>8, <1>12, <1>13, PushTakes DEF none, g

\* What a step that leaves the heap alone keeps.
LEMMA HeapKept ==
  ASSUME OptimizerInv, frames # <<>>, heap' = heap, Quiet, outcome' \in {outcome, Here.pass}
  PROVE  /\ HeapOK' /\ Grounded(heap') /\ OnlyAt(Null) /\ OthersOK
         /\ GivenOK' /\ CallsOK' /\ join_trie' = join_trie
         /\ DOMAIN heap' = DOMAIN heap /\ \A m \in DOMAIN heap : heap'[m].kind = heap[m].kind
         /\ \A m, j \in Nat : Sound(ChildAt(heap', m, j))
<1>1. StructureOK /\ OwnersOK /\ Grounded(heap) /\ HeapOK /\ GivenOK
  BY DEF OptimizerInv, StructureOK
<1>2. /\ heap \in Seq(HeapNodes) /\ outcome # "threw"
      /\ Len(heap) \in Nat /\ DOMAIN heap = 1 .. Len(heap)
  BY <1>1, HereOK
<1>3. CallsOK' /\ join_trie' = join_trie /\ given' = given
  BY <1>1, QuietKeeps
<1>4. OnlyAt(Null)
  BY <1>2 DEF OnlyAt
<1>5. OthersOK
  BY <1>1, <1>4, FramesKept DEF OthersOK
<1>6. GivenOK'
  BY <1>1, <1>2, <1>3, GivenKept
<1>7. \A m, j \in Nat : Sound(ChildAt(heap', m, j))
  BY SoundNow
<1>8. HeapOK' /\ Grounded(heap')
  BY <1>1 DEF HeapOK
<1> QED
  BY <1>3, <1>4, <1>5, <1>6, <1>7, <1>8

(* The top activation returns its node. *)
LEMMA ReturnsNode ==
  ASSUME OptimizerInv, frames # <<>>, Unladen(Here), Here.cur = Null, ~Waits(Here),
         IsWhole(heap[Here.node]), heap' = heap, Quiet, GiveBack(Here.node)
  PROVE  OptimizerInv'
<1> DEFINE n == Here.node
<1>1. StructureOK /\ OwnersOK /\ SchemasOK
  BY DEF OptimizerInv
<1>2. n \in DOMAIN heap /\ n # Null /\ frames \in Seq(FrameTypes) /\ ret = Null
  BY <1>1, HereOK
<1>3. outcome' \in {outcome, Here.pass}
  BY <1>1, <1>2, GivenBack
<1>4. /\ HeapOK' /\ Grounded(heap') /\ OnlyAt(Null) /\ OthersOK
      /\ GivenOK' /\ CallsOK' /\ join_trie' = join_trie
      /\ DOMAIN heap' = DOMAIN heap /\ \A m \in DOMAIN heap : heap'[m].kind = heap[m].kind
      /\ \A m, j \in Nat : Sound(ChildAt(heap', m, j))
  BY <1>3, HeapKept
<1>5. FramesOK' /\ StackOK' /\ SamePass
  BY <1>1, <1>2, <1>4, StackGivesBack
<1>6. TrieOK'
  BY <1>1, <1>4, <1>5, TrieKept
<1>7. HolesOK'
  <2>1. Sound(n)
    BY <1>2, <1>4 DEF Sound
  <2>2. Sound(root') /\ Sound(ret') /\ \A i, x \in Nat : Sound(FrameAt(frames', "cur", i, x))
    BY <1>1, <2>1, GivenBackSound
  <2> QED
    BY <1>1, <1>4, <2>2, HolesFilled
<1>8. Owned(Holding, LiveNodes)'
  BY <1>1, <1>2, GiveOwners
<1>9. SchemasOK'
  <2>1. BelowSame
    BY <1>1, <1>4, BelowGivesBack
  <2>2. ASSUME NEW i \in DOMAIN frames'
        PROVE  i \in DOMAIN frames /\ i # Len(frames) /\ frames'[i] = frames[i]
    BY <1>1, <1>2, GivenBack
  <2>3. Null \notin DOMAIN heap
    BY <1>1, NodesTyped DEF StructureOK, HeapOK, Formed, Null
  <2> QED
    BY <1>1, <1>4, <2>1, <2>2, <2>3, SchemasAgain
<1> QED
  BY <1>4, <1>5, <1>6, <1>7, <1>8, <1>9 DEF OptimizerInv, StructureOK, OwnersOK

LEMMA ChooseScanInv ==
  ASSUME OptimizerInv, ChooseScan
  PROVE  OptimizerInv'
<1>1. /\ frames # <<>> /\ Here.pass = "choose" /\ Here.at = "enter"
      /\ heap[Here.node].kind = "TableScan" /\ GiveBack(Here.node) /\ heap' = heap /\ Quiet
  BY DEF ChooseScan, In
<1>2. /\ heap \in Seq(HeapNodes) /\ Here.node \in DOMAIN heap
      /\ ChooseShape(Here, heap[Here.node]) /\ ArityOK(heap[Here.node])
  BY <1>1, HereOK DEF OptimizerInv
<1>3. Unladen(Here) /\ Here.cur = Null /\ ~Waits(Here)
  BY <1>1, <1>2 DEF ChooseShape, Unladen, Waits
<1>4. IsWhole(heap[Here.node])
  <2>1. DOMAIN heap[Here.node].child = {}
    BY <1>1, <1>2, NodesTyped DEF ArityOK
  <2> QED
    BY <2>1 DEF IsWhole
<1> QED
  BY <1>1, <1>3, <1>4, ReturnsNode

\* Filters are put back at the end of push_down_filter only.
LEMMA AtWrap ==
  ASSUME StructureOK, frames # <<>>, Here.at = "wrap"
  PROVE  /\ Here.pass = "push" /\ PushShape(Here, heap[Here.node]) /\ IsWhole(heap[Here.node])
         /\ Here.arr = <<>> /\ Here.rgt = <<>> /\ Here.cur = Null /\ ~Waits(Here) /\ ret = Null
<1>1. /\ Here \in FrameTypes
      /\ Here.pass = "choose" => ChooseShape(Here, heap[Here.node])
      /\ Here.pass = "push" => PushShape(Here, heap[Here.node])
      /\ Waits(Here) <=> ret # Null
  BY HereOK
<1>2. Here.pass = "push"
  BY <1>1, FrameTyped DEF ChooseShape
<1> QED
  BY <1>1, <1>2 DEF PushShape, Waits

LEMMA WrapEndInv ==
  ASSUME OptimizerInv, WrapEnd
  PROVE  OptimizerInv'
<1>1. /\ frames # <<>> /\ Here.at = "wrap" /\ Here.stay = <<>> /\ GiveBack(Here.node)
      /\ heap' = heap /\ Quiet
  BY DEF WrapEnd
<1>2. /\ IsWhole(heap[Here.node]) /\ Here.arr = <<>> /\ Here.rgt = <<>> /\ Here.cur = Null
      /\ ~Waits(Here)
  BY <1>1, AtWrap DEF OptimizerInv
<1> QED
  BY <1>1, <1>2, ReturnsNode DEF Unladen

(* The filters of a scan are moved from filter_arr to the list that is put back. *)
LEMMA ScanReloads ==
  ASSUME NEW o \in FrameTypes, NEW f \in FrameTypes, Distinct(o), o.rgt = <<>>, o.stay = <<>>,
         f.arr = <<>>, f.rgt = <<>>, f.stay = FiltersOf(o.arr)
  PROVE  Reloaded(o, f)
<1> DEFINE none == <<>>
           arr == o.arr
<1>1. /\ o.rgt = none /\ o.stay = none /\ f.arr = none /\ f.rgt = none /\ f.stay = FiltersOf(arr)
      /\ DOMAIN none = {}
  OBVIOUS
<1>2. arr \in Seq(FilterEntries) /\ \A i, j \in DOMAIN arr : arr[i].filter = arr[j].filter => i = j
  BY FrameTyped DEF Distinct
<1>3. DOMAIN f.stay = DOMAIN arr /\ \A k \in DOMAIN arr : f.stay[k] = arr[k].filter
  BY <1>2, FiltersAre
<1> HIDE DEF none
<1>4. Distinct(f)
  BY <1>1, <1>2, <1>3 DEF Distinct
<1>5. ASSUME NEW n, n # Null PROVE Has(o, n) <=> Has(f, n)
  <2>1. Has(o, n) <=> \/ \E k \in DOMAIN o.arr : o.arr[k].filter = n
                      \/ \E k \in DOMAIN o.rgt : o.rgt[k].filter = n
                      \/ \E k \in DOMAIN o.stay : o.stay[k] = n
    BY <1>5, HasIs
  <2>2. Has(f, n) <=> \/ \E k \in DOMAIN f.arr : f.arr[k].filter = n
                      \/ \E k \in DOMAIN f.rgt : f.rgt[k].filter = n
                      \/ \E k \in DOMAIN f.stay : f.stay[k] = n
    BY <1>5, HasIs
  <2> QED
    BY <1>1, <1>3, <2>1, <2>2
<1> QED
  BY <1>4, <1>5, SingleIf DEF Reloaded

(* The top activation goes on, and so does the heap. *)
LEMMA GoesOn ==
  ASSUME OptimizerInv, frames # <<>>, heap' = heap, Quiet, Here.cur = Null,
         NEW f \in FrameTypes, Continue(f), f.node = Here.node, f.cur = Null, f.pass = Here.pass,
         Reloaded(Here, f), FrameOK(f, heap'), ~Waits(f), ret = Null,
         UNCHANGED <<root, ret, outcome>>
  PROVE  OptimizerInv'
<1>1. StructureOK /\ OwnersOK /\ SchemasOK
  BY DEF OptimizerInv
<1>2. /\ HeapOK' /\ Grounded(heap') /\ OnlyAt(Null) /\ OthersOK
      /\ GivenOK' /\ CallsOK' /\ join_trie' = join_trie
      /\ DOMAIN heap' = DOMAIN heap /\ \A m \in DOMAIN heap : heap'[m].kind = heap[m].kind
      /\ \A m, j \in Nat : Sound(ChildAt(heap', m, j))
  BY HeapKept
<1>3. FramesOK' /\ StackOK' /\ SamePass
  BY <1>1, <1>2, StackContinues
<1>4. TrieOK'
  BY <1>1, <1>2, <1>3, TrieKept
<1>5. HolesOK'
  <2>1. Sound(root') /\ Sound(ret') /\ Sound(f.cur)
    BY SoundNow
  <2>2. \A i, x \in Nat : Sound(FrameAt(frames', "cur", i, x))
    BY <1>1, <2>1, ContinuedSound
  <2> QED
    BY <1>1, <1>2, <2>1, <2>2, HolesFilled
<1>6. Owned(Holding, LiveNodes)'
  BY <1>1, ReloadOwners
<1>7. SchemasOK'
  <2>1. BelowSame
    BY <1>1, <1>2, BelowContinues
  <2>2. ASSUME NEW i \in DOMAIN frames'
        PROVE  \/ i \in DOMAIN frames /\ i # Len(frames) /\ frames'[i] = frames[i]
               \/ Free(frames'[i])
    <3>1. /\ DOMAIN frames' = DOMAIN frames /\ frames'[Len(frames)] = f
          /\ \A j \in DOMAIN frames : j # Len(frames) => frames'[j] = frames[j]
      BY <1>1, HereOK, Continued
    <3> QED
      BY <3>1 DEF Free
  <2>3. Null \notin DOMAIN heap
    BY <1>1, NodesTyped DEF StructureOK, HeapOK, Formed, Null
  <2> QED
    BY <1>1, <1>2, <2>1, <2>2, <2>3, SchemasAgain
<1> QED
  BY <1>2, <1>3, <1>4, <1>5, <1>6, <1>7 DEF OptimizerInv, StructureOK, OwnersOK

LEMMA PushScanInv ==
  ASSUME OptimizerInv, PushScan
  PROVE  OptimizerInv'
<1> DEFINE n == Here.node
           stay == FiltersOf(Here.arr)
           f == [Here EXCEPT !.at = "wrap", !.arr = <<>>, !.stay = stay]
           none == <<>>
<1>1. /\ frames # none /\ Here.pass = "push" /\ Here.at = "enter" /\ heap[n].kind = "TableScan"
      /\ Continue(f) /\ heap' = heap /\ UNCHANGED <<root, ret, outcome>> /\ Quiet
  BY DEF PushScan, In
<1>2. StructureOK /\ OwnersOK
  BY DEF OptimizerInv
<1>3. /\ n \in DOMAIN heap /\ Live(n) /\ Here \in FrameTypes
      /\ FrameOK(Here, heap) /\ PushShape(Here, heap[n])
      /\ Len(frames) \in DOMAIN frames /\ frames \in Seq(FrameTypes) /\ heap \in Seq(HeapNodes)
      /\ Here = frames[Len(frames)] /\ (Waits(Here) <=> ret # Null)
  BY <1>1, <1>2, HereOK
<1>4. Distinct(Here) /\ CarriesOK(Here, heap)
  <2>1. Single(Here)
    BY <1>2, <1>3, CarriedOnce
  <2> QED
    BY <1>3, <2>1, DistinctIf DEF FrameOK
<1>5. /\ Here.arr \in Seq(FilterEntries) /\ stay \in Seq(Nat) /\ DOMAIN stay = DOMAIN Here.arr
      /\ \A k \in DOMAIN stay : stay[k] = Here.arr[k].filter
  BY <1>3, FrameTyped, FiltersAre
<1> HIDE DEF stay
<1>6. /\ f \in FrameTypes /\ f.pass = Here.pass /\ f.node = n /\ f.at = "wrap"
      /\ f.cur = Here.cur /\ f.done = Here.done /\ f.arr = none /\ f.rgt = Here.rgt
      /\ f.stay = stay
  BY <1>3, <1>5, FrameScanned
<1> HIDE DEF none, f
<1>7. Here.rgt = none /\ Here.stay = none /\ Here.cur = Null /\ Here.done = 0 /\ IsWhole(heap[n])
  BY <1>1, <1>3 DEF PushShape, none
<1>8. Reloaded(Here, f)
  BY <1>3, <1>4, <1>6, <1>7, ScanReloads DEF none, stay
<1>9. FrameOK(f, heap)
  <2>1. CarriesOK(f, heap)
    <3>1. DOMAIN none = {}
      BY DEF none
    <3> QED
      BY <1>4, <1>5, <1>6, <1>7, <3>1 DEF CarriesOK
  <2>2. PushShape(f, heap[n])
    BY <1>1, <1>6, <1>7 DEF PushShape, none
  <2> QED
    BY <1>1, <1>3, <1>6, <1>7, <2>1, <2>2 DEF FrameOK, Live
<1>10. ~Waits(f) /\ ret = Null
  BY <1>1, <1>3, <1>6 DEF Waits
<1> QED
  BY <1>1, <1>6, <1>7, <1>8, <1>9, <1>10, GoesOn DEF none

LEMMA JoinNode ==
  ASSUME NEW child \in Seq(Nat), NEW cond \in Conditions, NEW s \in Schemas, NEW t \in Schemas
  PROVE  LET node == Node("BinaryJoin", NoTable, child, cond, s)
         IN  /\ node \in HeapNodes /\ node.kind = "BinaryJoin" /\ node.child = child
             /\ node.schema = s
             /\ [node EXCEPT !.schema = t] = Node("BinaryJoin", NoTable, child, cond, t)
<1> DEFINE node == Node("BinaryJoin", NoTable, child, cond, s)
<1>1. node \in HeapNodes /\ node.kind = "BinaryJoin" /\ node.child = child /\ node.schema = s
  BY DEF Node, HeapNodes
<1>2. [node EXCEPT !.schema = t] = Node("BinaryJoin", NoTable, child, cond, t)
  BY DEF Node
<1> QED
  BY <1>1, <1>2

(* A new binary join of two nodes. *)
LEMMA JoinBuilt ==
  ASSUME NEW h \in Seq(HeapNodes), NEW a \in DOMAIN h, NEW b \in DOMAIN h
  PROVE  LET g == BinaryJoinPlanNode(h, a, b)
             x == Len(h) + 1
         IN  JoinsIn(h, g, x, a, b) /\ g[x].schema = h[a].schema \o h[b].schema
<1> DEFINE x == Len(h) + 1
           pair == <<a, b>>
           node == Node("BinaryJoin", NoTable, pair, NoCondition, <<>>)
           e == Append(h, node)
           sch == h[a].schema \o h[b].schema
           done == Node("BinaryJoin", NoTable, pair, NoCondition, sch)
           g == BinaryJoinPlanNode(h, a, b)
<1>1. a \in Nat /\ b \in Nat /\ Len(h) \in Nat /\ x \in Nat \ {0} /\ x \notin DOMAIN h
      /\ h[a].schema \in Schemas /\ h[b].schema \in Schemas
  BY NodesTyped
<1>2. pair \in Seq(Nat) /\ Len(pair) = 2 /\ DOMAIN pair = {1, 2} /\ pair[1] = a /\ pair[2] = b
  BY <1>1
<1>3. sch \in Schemas /\ <<>> \in Schemas /\ NoCondition \in Conditions
  BY <1>1 DEF Schemas, NoCondition, Conditions
<1> HIDE DEF pair, sch
<1>4. node \in HeapNodes /\ node.kind = "BinaryJoin" /\ node.child = pair
  BY <1>2, <1>3, JoinNode
<1>5. done \in HeapNodes /\ done.kind = "BinaryJoin" /\ done.child = pair /\ done.schema = sch
      /\ done = [node EXCEPT !.schema = sch]
  BY <1>2, <1>3, JoinNode
<1> HIDE DEF node, done
<1>6. /\ e \in Seq(HeapNodes) /\ Len(e) = x /\ DOMAIN e = DOMAIN h \cup {x} /\ e[x] = node
      /\ \A m \in DOMAIN h : e[m] = h[m]
  BY <1>1, <1>4
<1> HIDE DEF e
<1>7. OutputSchema(e, x) = sch
  BY <1>1, <1>2, <1>4, <1>6 DEF OutputSchema, JoinSchema, sch
<1>8. g = [e EXCEPT ![x].schema = sch]
  BY <1>7 DEF BinaryJoinPlanNode, build_output_schema, e, node, pair
<1>9. g = [e EXCEPT ![x] = done]
  BY <1>5, <1>6, <1>8
<1> HIDE DEF g
<1>10. /\ g \in Seq(HeapNodes) /\ Len(g) = x /\ DOMAIN g = DOMAIN h \cup {x} /\ g[x] = done
       /\ \A m \in DOMAIN h : g[m] = h[m]
  <2>1. /\ g \in Seq(HeapNodes) /\ Len(g) = Len(e) /\ DOMAIN g = DOMAIN e /\ g[x] = done
        /\ \A m \in DOMAIN e : m # x => g[m] = e[m]
    <3>1. x \in DOMAIN e
      BY <1>6
    <3> HIDE DEF x
    <3> QED
      BY <1>5, <1>6, <1>9, <3>1
  <2> QED
    BY <1>1, <1>6, <2>1
<1>11. JoinsIn(h, g, x, a, b)
  BY <1>1, <1>2, <1>5, <1>10 DEF JoinsIn
<1>12. g[x].schema = h[a].schema \o h[b].schema
  BY <1>5, <1>10 DEF sch
<1> QED
  BY <1>11, <1>12 DEF g

\* The chosen child becomes cur, or the right side of a new join x that becomes cur.
ChosenFrame(f) ==
  /\ f \in FrameTypes /\ f.pass = "choose" /\ f.node = Here.node /\ f.at = "enter"
  /\ f.cur # Null /\ f.done = Here.done + 1 /\ f.arr = <<>> /\ f.rgt = <<>> /\ f.stay = <<>>
  /\ Continue(f)

\* A multi-way join whose next child has come back.
Choosing(sc) ==
  LET n == Here.node
  IN  /\ frames # <<>> /\ Here.pass = "choose" /\ Here.at = "child" /\ n \in DOMAIN heap
      /\ heap[n].kind = "MultiJoin" /\ Here.done \in Nat /\ Here.done < Len(heap[n].child)
      /\ (Here.cur = Null <=> Here.done = 0)
      /\ \A k \in DOMAIN heap[n].child : heap[n].child[k] = Null <=> k <= Here.done + 1
      /\ NodeFits(heap, n, sc)
      /\ ret \in DOMAIN heap /\ sc[Here.done + 1] = heap[ret].schema
      /\ Here.cur # Null
           => Here.cur \in DOMAIN heap /\ Joined(sc)[Here.done] = heap[Here.cur].schema

LEMMA ChoosingIs ==
  ASSUME OptimizerInv, In("choose", {"MultiJoin"}, "child")
  PROVE  \E sc : Choosing(sc)
<1> DEFINE n == Here.node
<1> PICK N : N = Len(frames)
  OBVIOUS
<1>1. /\ frames # <<>> /\ Here.pass = "choose" /\ Here.at = "child" /\ heap[n].kind = "MultiJoin"
  BY DEF In
<1>2. StructureOK /\ SchemasOK
  BY DEF OptimizerInv
<1>3. /\ n \in DOMAIN heap /\ Live(n) /\ Here \in FrameTypes /\ Here.cur \in {Null} \cup DOMAIN heap
      /\ ChooseShape(Here, heap[n]) /\ N \in DOMAIN frames /\ Here = frames[N] /\ N \in Nat
      /\ (Waits(Here) <=> ret # Null) /\ ret \in {Null} \cup DOMAIN heap
      /\ heap \in Seq(HeapNodes)
  BY <1>1, <1>2, HereOK
<1>4. Waits(Here) /\ WaitsFor(Here) = Here.done + 1
  BY <1>1 DEF Waits, WaitsFor
<1>5. PICK sc : SchemasFit(n, sc)
  BY <1>2, <1>3 DEF SchemasOK
<1>6. NodeFits(heap, n, sc) /\ FrameFits(heap, Here, Below(N), sc)
  BY <1>3, <1>5 DEF SchemasFit
<1>7. Below(N) = ret
  BY DEF Below
<1>8. /\ ret \in DOMAIN heap /\ sc[Here.done + 1] = heap[ret].schema
      /\ Here.cur # Null => Joined(sc)[Here.done] = heap[Here.cur].schema
  BY <1>3, <1>4, <1>6, <1>7 DEF FrameFits
<1>9. Here.done \in Nat /\ heap[n].child \in Seq(Nat)
  BY <1>3, FrameTyped, NodesTyped
<1>10. \A k \in DOMAIN heap[n].child : heap[n].child[k] = Null <=> k <= Here.done + 1
  <2>1. \A k \in DOMAIN heap[n].child : k \in Nat
    BY <1>9
  <2>2. \A k \in DOMAIN heap[n].child :
          heap[n].child[k] = Null
            <=> k <= Here.done \/ (Here.at = "child" /\ k = Here.done + 1)
    BY <1>1, <1>3 DEF ChooseShape
  <2>3. \A k \in Nat : (k <= Here.done \/ k = Here.done + 1) <=> k <= Here.done + 1
    BY <1>9
  <2>4. Here.at = "child"
    BY <1>1
  <2> HIDE DEF n
  <2> QED
    BY <2>1, <2>2, <2>3, <2>4
<1>11. Here.done < Len(heap[n].child) /\ (Here.cur = Null <=> Here.done = 0)
  BY <1>1, <1>3 DEF ChooseShape
<1>12. Choosing(sc)
  BY <1>1, <1>3, <1>6, <1>8, <1>9, <1>10, <1>11 DEF Choosing
<1> QED
  BY <1>12

\* The schema of the join of the first children.
LEMMA ChosenSchema ==
  ASSUME NEW sc, Choosing(sc), heap \in Seq(HeapNodes)
  PROVE  Joined(sc)[Here.done + 1] = IF Here.cur = Null THEN heap[ret].schema
                                     ELSE heap[Here.cur].schema \o heap[ret].schema
<1>1. /\ sc \in Seq(Schemas) /\ Here.done \in Nat /\ Here.done + 1 \in 1 .. Len(sc)
      /\ (Here.cur = Null <=> Here.done = 0)
      /\ ret \in DOMAIN heap /\ sc[Here.done + 1] = heap[ret].schema
      /\ Here.cur # Null => Joined(sc)[Here.done] = heap[Here.cur].schema
  BY NodesTyped DEF Choosing, NodeFits
<1>2. Joined(sc)[Here.done + 1] = Joined(sc)[Here.done] \o sc[Here.done + 1]
  <2>1. \A k \in 1 .. Len(sc) : Joined(sc)[k] = Joined(sc)[k - 1] \o sc[k]
    BY <1>1, JoinedIs
  <2>2. (Here.done + 1) - 1 = Here.done
    BY <1>1
  <2> QED
    BY <1>1, <2>1, <2>2
<1>3. CASE Here.cur = Null
  <2>1. Joined(sc)[0] = <<>> /\ heap[ret].schema \in Seq(Columns)
    BY <1>1, JoinedIs, NodesTyped DEF Schemas
  <2>2. <<>> \o heap[ret].schema = heap[ret].schema
    BY <2>1
  <2> QED
    BY <1>1, <1>2, <1>3, <2>1, <2>2
<1>4. CASE Here.cur # Null
  BY <1>1, <1>2, <1>4
<1> QED
  BY <1>3, <1>4

\* The heap has all the nodes it had, and perhaps new ones.
Grown ==
  /\ heap' \in Seq(HeapNodes) /\ DOMAIN heap \subseteq DOMAIN heap' /\ Len(heap) <= Len(heap')
  /\ \A m \in DOMAIN heap : heap'[m] = heap[m]

LEMMA ChosenStep ==
  ASSUME OptimizerInv, NEW sc, Choosing(sc), NEW f, ChosenFrame(f), Grown, Quiet,
         f.cur \in DOMAIN heap', Joined(sc)[Here.done + 1] = heap'[f.cur].schema,
         Sound(f.cur), \A m, j \in Nat : Sound(ChildAt(heap', m, j)),
         root' = root, ret' = Null, outcome' = outcome,
         Formed(heap'), Grounded(heap'), Owned(Holding, LiveNodes)',
         \A m \in DOMAIN heap' : m \notin DOMAIN heap => \E s : NodeFits(heap', m, s)
  PROVE  OptimizerInv'
<1> DEFINE n == Here.node
           none == <<>>
<1>1. StructureOK /\ OwnersOK /\ SchemasOK /\ GivenOK
  BY DEF OptimizerInv
<1>2. /\ frames # none /\ Here.pass = "choose" /\ Here.at = "child" /\ n \in DOMAIN heap
      /\ heap[n].kind = "MultiJoin" /\ Here.done \in Nat /\ Here.done < Len(heap[n].child)
      /\ \A k \in DOMAIN heap[n].child : heap[n].child[k] = Null <=> k <= Here.done + 1
      /\ NodeFits(heap, n, sc)
  BY DEF Choosing
<1>3. /\ f \in FrameTypes /\ f.pass = "choose" /\ f.node = n /\ f.at = "enter"
      /\ f.cur # Null /\ f.done = Here.done + 1 /\ f.arr = none /\ f.rgt = none /\ f.stay = none
      /\ Continue(f)
  BY DEF ChosenFrame
<1>4. /\ heap' \in Seq(HeapNodes) /\ DOMAIN heap \subseteq DOMAIN heap' /\ Len(heap) <= Len(heap')
      /\ \A m \in DOMAIN heap : heap'[m] = heap[m]
  BY DEF Grown
<1>5. /\ heap \in Seq(HeapNodes) /\ Live(n) /\ frames \in Seq(FrameTypes) /\ outcome # "threw"
      /\ n # Null
      /\ \A k \in DOMAIN heap[n].child : heap[n].child[k] \in {Null} \cup DOMAIN heap
      /\ \A i \in DOMAIN frames : FrameOK(frames[i], heap)
  BY <1>1, <1>2, HereOK DEF StructureOK, FramesOK, none
<1>6. OnlyAt(n)
  BY <1>4 DEF OnlyAt
<1>7. CallsOK' /\ join_trie' = join_trie /\ given' = given
  BY <1>1, <1>2, QuietKeeps DEF none
<1>8. GivenOK'
  <2>1. Len(heap) \in Nat /\ Len(heap') \in Nat /\ DOMAIN heap = 1 .. Len(heap)
    BY <1>4, <1>5
  <2> QED
    BY <1>1, <1>4, <1>5, <1>7, <2>1, GivenKept
<1>9. OthersOK
  BY <1>1, <1>2, <1>6, NodeOnTop, FramesKept DEF OthersOK, none
<1>10. FrameOK(f, heap')
  <2>1. ChooseShape(f, heap'[n])
    <3>1. heap'[n] = heap[n] /\ heap[n].child \in Seq(Nat)
      BY <1>2, <1>4, <1>5, NodesTyped
    <3>2. f.done <= Len(heap[n].child) /\ f.done # 0 /\ f.cur # Null
      BY <1>2, <1>3, <3>1
    <3> QED
      BY <1>2, <1>3, <3>1, <3>2 DEF ChooseShape, none
  <2>2. CarriesOK(f, heap')
    <3>1. DOMAIN none = {}
      OBVIOUS
    <3> QED
      BY <1>3, <3>1 DEF CarriesOK
  <2> QED
    BY <1>2, <1>3, <1>4, <2>1, <2>2 DEF FrameOK
<1> HIDE DEF none
<1>11. ~Waits(f)
  BY <1>3 DEF Waits
<1>12. FramesOK' /\ StackOK' /\ SamePass
  BY <1>1, <1>2, <1>3, <1>9, <1>10, <1>11, StackContinues DEF none
<1>13. TrieOK'
  BY <1>1, <1>2, <1>7, <1>12, TrieKept DEF none
<1>14. HolesOK'
  <2>1. Sound(root') /\ Sound(ret')
    BY SoundNow
  <2>2. \A i, x \in Nat : Sound(FrameAt(frames', "cur", i, x))
    BY <1>1, <1>2, <1>3, ContinuedSound DEF none
  <2> QED
    BY <1>1, <1>2, <1>6, <2>1, <2>2, NodeOnTop, HolesFilled DEF none
<1>15. SchemasOK'
  <2>1. BelowSame
    BY <1>1, <1>2, <1>3, <1>4, <1>6, NodeOnTop, BelowContinues DEF none
  <2>2. NodeFits(heap', n, sc)
    BY <1>2, <1>4, <1>5 DEF NodeFits
  <2>3. FrameFits(heap', f, Below(Len(frames))', sc)
    BY <1>3, <1>11 DEF FrameFits
  <2>4. /\ DOMAIN frames' = DOMAIN frames /\ frames'[Len(frames)] = f
        /\ \A j \in DOMAIN frames : j # Len(frames) => frames'[j] = frames[j]
    BY <1>2, <1>3, <1>5, Continued DEF none
  <2>5. ASSUME NEW i \in DOMAIN frames'
        PROVE  \/ i \in DOMAIN frames /\ i # Len(frames) /\ frames'[i] = frames[i]
               \/ frames'[i].node = n /\ FrameFits(heap', frames'[i], Below(i)', sc)
    <3>1. CASE i = Len(frames)
      <4>1. FrameFits(heap', f, Below(i)', sc)
        BY <1>3, <1>11 DEF FrameFits
      <4> QED
        BY <1>3, <2>4, <3>1, <4>1
    <3>2. CASE i # Len(frames)
      BY <2>4, <3>2
    <3> QED
      BY <3>1, <3>2
  <2>6. ASSUME NEW m \in DOMAIN heap', m \notin DOMAIN heap PROVE \E s : SchemasFit(m, s)'
    <3>1. PICK s : NodeFits(heap', m, s)
      BY <2>6
    <3>2. ASSUME NEW i \in DOMAIN frames' PROVE frames'[i].node # m
      BY <1>2, <1>3, <1>5, <2>4, <2>6 DEF FrameOK
    <3>3. SchemasFit(m, s)'
      BY <3>1, <3>2 DEF SchemasFit
    <3> QED
      BY <3>3
  <2> QED
    BY <1>1, <1>2, <1>6, <2>1, <2>2, <2>5, <2>6, NodeOnTop, SchemasAgain DEF none
<1> QED
  BY <1>7, <1>8, <1>12, <1>13, <1>14, <1>15 DEF OptimizerInv, StructureOK, HeapOK, OwnersOK

LEMMA ChosenIs ==
  ASSUME OptimizerInv, In("choose", {"MultiJoin"}, "child"), NEW c \in Nat, c # Null,
         Continue([Here EXCEPT !.at = "enter", !.done = @ + 1, !.cur = c])
  PROVE  LET f == [Here EXCEPT !.at = "enter", !.done = @ + 1, !.cur = c]
         IN  /\ ChosenFrame(f) /\ f.cur = c
             /\ \A s \in Carried, k \in Nat : LocalAt(f, s, k) = LocalAt(Here, s, k)
<1> DEFINE f == [Here EXCEPT !.at = "enter", !.done = @ + 1, !.cur = c]
           none == <<>>
<1>1. frames # none /\ Here.pass = "choose"
  BY DEF In
<1>2. Here \in FrameTypes /\ ChooseShape(Here, heap[Here.node])
  BY <1>1, HereOK DEF OptimizerInv
<1>3. /\ f \in FrameTypes /\ f.pass = Here.pass /\ f.node = Here.node /\ f.at = "enter"
      /\ f.cur = c /\ f.done = Here.done + 1 /\ f.arr = Here.arr /\ f.rgt = Here.rgt
      /\ f.stay = Here.stay
  BY <1>2, FrameJoining
<1>4. Continue(f)
  OBVIOUS
<1> HIDE DEF f, none
<1>5. Here.arr = none /\ Here.rgt = none /\ Here.stay = none
  BY <1>2 DEF ChooseShape, none
<1>6. ChosenFrame(f)
  BY <1>1, <1>3, <1>4, <1>5 DEF ChosenFrame, none
<1>7. \A s \in Carried, k \in Nat : LocalAt(f, s, k) = LocalAt(Here, s, k)
  BY <1>3 DEF LocalAt, Carried
<1> QED
  BY <1>3, <1>6, <1>7 DEF f

LEMMA ChooseJoinInv ==
  ASSUME OptimizerInv, ChooseJoin
  PROVE  OptimizerInv'
<1> DEFINE n == Here.node
           none == <<>>
<1>1. In("choose", {"MultiJoin"}, "child") /\ ret' = Null /\ UNCHANGED <<root, outcome>> /\ Quiet
  BY DEF ChooseJoin
<1>2. StructureOK /\ OwnersOK /\ Grounded(heap) /\ Formed(heap)
  BY DEF OptimizerInv, StructureOK, HeapOK
<1>3. PICK sc : Choosing(sc)
  BY <1>1, ChoosingIs
<1>4. frames # none /\ n \in DOMAIN heap /\ ret \in DOMAIN heap
      /\ (Here.cur # Null => Here.cur \in DOMAIN heap)
  BY <1>3 DEF Choosing
<1>5. heap \in Seq(HeapNodes) /\ Null \notin DOMAIN heap /\ Len(heap) \in Nat
  <2>1. heap \in Seq(HeapNodes)
    BY <1>2 DEF Formed
  <2> QED
    BY <2>1, NodesTyped DEF Null
<1>6. Joined(sc)[Here.done + 1] = IF Here.cur = Null THEN heap[ret].schema
                                  ELSE heap[Here.cur].schema \o heap[ret].schema
  BY <1>3, <1>5, ChosenSchema
<1>7. CASE Here.cur = Null
  <2> DEFINE f == [Here EXCEPT !.at = "enter", !.done = @ + 1, !.cur = ret]
  <2>1. heap' = heap /\ Continue(f)
    BY <1>7 DEF ChooseJoin
  <2>2. ret \in Nat /\ ret # Null
    BY <1>4, <1>5
  <2>3. /\ ChosenFrame(f) /\ f.cur = ret
        /\ \A s \in Carried, k \in Nat : LocalAt(f, s, k) = LocalAt(Here, s, k)
    BY <1>1, <2>1, <2>2, ChosenIs
  <2> HIDE DEF f
  <2>4. Owned(Holding, LiveNodes)'
    BY <1>1, <1>2, <1>4, <1>7, <2>1, <2>3, FirstOwners DEF ChosenFrame, none
  <2>5. Grown
    BY <1>5, <2>1 DEF Grown
  <2>6. Sound(f.cur) /\ \A m, j \in Nat : Sound(ChildAt(heap', m, j))
    BY <2>1, <2>3, SoundNow
  <2> QED
    BY <1>1, <1>2, <1>3, <1>4, <1>6, <1>7, <2>1, <2>3, <2>4, <2>5, <2>6, ChosenStep
<1>8. CASE Here.cur # Null
  <2> DEFINE x == Len(heap) + 1
             f == [Here EXCEPT !.at = "enter", !.done = @ + 1, !.cur = x]
             pair == <<heap[Here.cur].schema, heap[ret].schema>>
  <2>1. heap' = BinaryJoinPlanNode(heap, Here.cur, ret) /\ Continue(f)
    BY <1>8 DEF ChooseJoin
  <2>2. x \in Nat /\ x # Null /\ x # n /\ x \notin DOMAIN heap
    BY <1>4, <1>5 DEF Null
  <2>3. JoinsIn(heap, heap', x, Here.cur, ret)
        /\ heap'[x].schema = heap[Here.cur].schema \o heap[ret].schema
    BY <1>4, <1>5, <1>8, <2>1, JoinBuilt
  <2> HIDE DEF x
  <2>4. /\ ChosenFrame(f) /\ f.cur = x
        /\ \A s \in Carried, k \in Nat : LocalAt(f, s, k) = LocalAt(Here, s, k)
    BY <1>1, <2>1, <2>2, ChosenIs
  <2> HIDE DEF f
  <2>5. /\ heap' \in Seq(HeapNodes) /\ Len(heap') = Len(heap) + 1
        /\ DOMAIN heap' = DOMAIN heap \cup {x}
        /\ \A m \in DOMAIN heap : heap'[m] = heap[m]
        /\ heap'[x].kind = "BinaryJoin" /\ Len(heap'[x].child) = 2 /\ DOMAIN heap'[x].child = {1, 2}
        /\ heap'[x].child[1] = Here.cur /\ heap'[x].child[2] = ret
    BY <2>3 DEF JoinsIn
  <2>6. Owned(Holding, LiveNodes)'
    BY <1>1, <1>2, <1>4, <2>1, <2>3, <2>4, JoinOwners DEF ChosenFrame, none
  <2>7. Grown
    BY <1>5, <2>5 DEF Grown
  <2>8. IsWhole(heap'[x])
    BY <1>4, <1>5, <1>8, <2>5 DEF IsWhole
  <2>9. Sound(x)
    BY <2>5, <2>8 DEF Sound
  <2>10. ASSUME NEW m \in Nat, NEW j \in Nat PROVE Sound(ChildAt(heap', m, j))
    <3>1. CASE m = x
      <4>1. ChildAt(heap', m, j) \in {Null, Here.cur, ret}
        BY <2>5, <3>1 DEF ChildAt
      <4> QED
        BY <1>2, <1>4, <4>1, SoundNow, CurIsSound DEF none
    <3>2. CASE m # x
      <4>1. ChildAt(heap', m, j) = ChildAt(heap, m, j)
        BY <2>5, <3>2 DEF ChildAt
      <4> QED
        BY <4>1, SoundNow
    <3> QED
      BY <3>1, <3>2
  <2>11. Formed(heap')
    <3>1. ASSUME NEW m \in DOMAIN heap'
          PROVE  ArityOK(heap'[m]) /\ \A k \in DOMAIN heap'[m].child :
                                        heap'[m].child[k] \in {Null} \cup DOMAIN heap'
      <4>1. CASE m = x
        BY <1>4, <1>8, <2>5, <4>1 DEF ArityOK
      <4>2. CASE m # x
        BY <1>2, <2>5, <4>2 DEF Formed
      <4> QED
        BY <4>1, <4>2
    <3> QED
      BY <2>5, <3>1 DEF Formed
  <2>12. Grounded(heap')
    <3>1. \A m \in DOMAIN heap' : m # x
          => m \in DOMAIN heap /\ ChildrenOf(heap', m) \subseteq ChildrenOf(heap, m)
      BY <2>5 DEF ChildrenOf
    <3>2. Loose(heap', x)
      <4>1. \A m \in DOMAIN heap : \A k \in DOMAIN heap[m].child : heap[m].child[k] # x
        BY <1>2, <2>2 DEF Formed
      <4>2. \A k \in DOMAIN heap'[x].child : heap'[x].child[k] # x
        BY <1>4, <1>8, <2>2, <2>5
      <4> QED
        BY <2>5, <4>1, <4>2 DEF Loose, ChildrenOf
    <3> QED
      BY <1>2, <1>5, <2>5, <3>1, <3>2, MoreHang
  <2>13. NodeFits(heap', x, pair)
    <3>1. heap[Here.cur].schema \in Schemas /\ heap[ret].schema \in Schemas
      BY <1>4, <1>5, <1>8, NodesTyped
    <3>2. pair \in Seq(Schemas) /\ Len(pair) = 2 /\ pair[1] = heap[Here.cur].schema
          /\ pair[2] = heap[ret].schema
      BY <3>1
    <3> HIDE DEF pair
    <3>3. Fits(heap'[x], pair)
      BY <2>3, <2>5, <3>2 DEF Fits
    <3> QED
      BY <1>4, <1>8, <2>5, <3>2, <3>3 DEF NodeFits
  <2>14. Joined(sc)[Here.done + 1] = heap'[x].schema
    BY <1>6, <1>8, <2>3
  <2> QED
    BY <1>1, <1>3, <2>4, <2>5, <2>6, <2>7, <2>9, <2>10, <2>11, <2>12, <2>13, <2>14, ChosenStep
<1> QED
  BY <1>7, <1>8

LEMMA SeqTyped ==
  ASSUME NEW S, NEW N \in Nat, NEW g \in [1 .. N -> S]
  PROVE  g \in Seq(S) /\ Len(g) = N /\ DOMAIN g = 1 .. N
OBVIOUS

LEMMA DestroyedIs ==
  ASSUME NEW h \in Seq(HeapNodes), NEW n \in DOMAIN h
  PROVE  LET g == destroy(h, {n})
         IN  /\ g \in Seq(HeapNodes) /\ Len(g) = Len(h) /\ DOMAIN g = DOMAIN h
             /\ \A m \in DOMAIN h : m # n => g[m] = h[m]
             /\ g[n].kind = "Destroyed" /\ g[n].child = <<>> /\ g[n].rel = h[n].rel
             /\ g[n].cond = h[n].cond
<1> DEFINE g == destroy(h, {n})
           none == <<>>
           gone == [h[n] EXCEPT !.kind = "Destroyed", !.child = none]
<1>1. h[n] \in HeapNodes /\ Len(h) \in Nat /\ DOMAIN h = 1 .. Len(h) /\ none \in Seq(Nat)
  OBVIOUS
<1>0. g = [m \in DOMAIN h |-> IF m = n THEN gone ELSE h[m]]
  BY DEF destroy
<1> HIDE DEF none, g
<1>2. /\ gone \in HeapNodes /\ gone.kind = "Destroyed" /\ gone.child = none
      /\ gone.rel = h[n].rel /\ gone.cond = h[n].cond
  <2>1. gone \in HeapNodes
    BY <1>1 DEF HeapNodes
  <2>2. /\ gone.kind = "Destroyed" /\ gone.child = none
        /\ gone.rel = h[n].rel /\ gone.cond = h[n].cond
    BY <1>1 DEF HeapNodes
  <2> QED
    BY <2>1, <2>2
<1> HIDE DEF gone
<1>4. \A m \in 1 .. Len(h) : (IF m = n THEN gone ELSE h[m]) \in HeapNodes
  BY <1>1, <1>2
<1>5. g \in [1 .. Len(h) -> HeapNodes]
  BY <1>0, <1>1, <1>4
<1>6. g \in Seq(HeapNodes) /\ Len(g) = Len(h) /\ DOMAIN g = DOMAIN h
  BY <1>1, <1>5, SeqTyped
<1>7. \A m \in DOMAIN h : g[m] = IF m = n THEN gone ELSE h[m]
  BY <1>0
<1> QED
  BY <1>2, <1>6, <1>7 DEF g, none

LEMMA ChooseJoinEndInv ==
  ASSUME OptimizerInv, ChooseJoinEnd
  PROVE  OptimizerInv'
<1> DEFINE none == <<>>
<1> PICK n, c : n = Here.node /\ c = Here.cur
  OBVIOUS
<1> PICK N : N = Len(frames)
  OBVIOUS
<1>1. /\ frames # none /\ Here.pass = "choose" /\ Here.at = "enter" /\ heap[n].kind = "MultiJoin"
      /\ ~(Here.done < Len(heap[n].child)) /\ GiveBack(c) /\ Quiet
      /\ heap' = destroy(heap, {n} \cup (ChildrenOf(heap, n) \ {Null}))
  BY DEF ChooseJoinEnd, In, MoreChildren
<1>2. StructureOK /\ OwnersOK /\ SchemasOK /\ Grounded(heap) /\ GivenOK /\ Formed(heap)
  BY DEF OptimizerInv, StructureOK, HeapOK
<1>3. /\ heap \in Seq(HeapNodes) /\ n \in DOMAIN heap /\ n # Null /\ Live(n) /\ Here \in FrameTypes
      /\ ChooseShape(Here, heap[n]) /\ ArityOK(heap[n]) /\ c \in {Null} \cup DOMAIN heap
      /\ (Waits(Here) <=> ret # Null) /\ outcome # "threw" /\ frames \in Seq(FrameTypes)
      /\ N \in DOMAIN frames /\ N \in Nat /\ Here = frames[N]
  BY <1>1, <1>2, HereOK
<1>4. heap[n].child \in Seq(Nat) /\ Here.done \in Nat
  BY <1>3, NodesTyped, FrameTyped
<1> HIDE DEF none
<1>5. /\ Here.done = Len(heap[n].child) /\ Here.done > 0 /\ c # Null
      /\ \A k \in DOMAIN heap[n].child : heap[n].child[k] = Null
      /\ Here.arr = none /\ Here.rgt = none /\ Here.stay = none
  <2>1. Here.done = Len(heap[n].child) /\ Here.done > 0 /\ c # Null
    BY <1>1, <1>3, <1>4 DEF ChooseShape, ArityOK
  <2>2. \A k \in DOMAIN heap[n].child : k <= Here.done
    BY <1>4, <2>1
  <2> QED
    BY <1>1, <1>3, <2>1, <2>2 DEF ChooseShape, none
<1>6. Unladen(Here) /\ ret = Null
  BY <1>1, <1>3, <1>5 DEF Unladen, Waits, none
<1>7. heap' = destroy(heap, {n})
  <2>1. {n} \cup (ChildrenOf(heap, n) \ {Null}) = {n}
    BY <1>5 DEF ChildrenOf
  <2> QED
    BY <1>1, <2>1
<1>8. /\ heap' \in Seq(HeapNodes) /\ Len(heap') = Len(heap) /\ DOMAIN heap' = DOMAIN heap
      /\ \A m \in DOMAIN heap : m # n => heap'[m] = heap[m]
      /\ heap'[n].kind = "Destroyed" /\ heap'[n].child = none /\ heap'[n].rel = heap[n].rel
      /\ heap'[n].cond = heap[n].cond /\ DOMAIN none = {} /\ Len(none) = 0
  <2>1. DOMAIN none = {} /\ Len(none) = 0
    BY DEF none
  <2> QED
    BY <1>3, <1>7, <2>1, DestroyedIs DEF none
<1>9. OnlyAt(n)
  BY <1>8 DEF OnlyAt
<1>10. c # n
  <2>1. <<"cur", N, 0>> \in Places /\ What(<<"cur", N, 0>>) = FrameAt(frames, "cur", N, 0)
    BY <1>3, SomePlaces, WhatNow DEF Slots
  <2>2. FrameAt(frames, "cur", N, 0) = c
    BY <1>3, LocalIs DEF FrameAt
  <2>3. \A p \in Places : p[1] \in Kinds => What(p) # n
    BY <1>1, <1>2, <1>3, NodeOnTop, Elsewhere DEF none
  <2> QED
    BY <2>1, <2>2, <2>3 DEF Kinds
<1>11. heap'[c].schema = heap[n].schema
  <2>1. PICK sc : SchemasFit(n, sc)
    BY <1>2, <1>3 DEF SchemasOK
  <2>2. NodeFits(heap, n, sc) /\ FrameFits(heap, Here, Below(N), sc)
    BY <1>3, <2>1 DEF SchemasFit
  <2>3. Joined(sc)[Here.done] = heap[c].schema
    BY <1>5, <2>2 DEF FrameFits
  <2>4. heap[n].schema = Joined(sc)[Here.done]
    BY <1>1, <1>5, <2>2 DEF NodeFits, Fits
  <2> QED
    BY <1>3, <1>5, <1>8, <1>10, <2>3, <2>4
<1>12. outcome' \in {outcome, Here.pass}
  BY <1>1, <1>3, GivenBack DEF none
<1>13. CallsOK' /\ join_trie' = join_trie /\ given' = given
  BY <1>1, <1>2, <1>12, QuietKeeps DEF none
<1>14. GivenOK'
  <2>1. Len(heap) \in Nat /\ DOMAIN heap = 1 .. Len(heap) /\ Len(heap) <= Len(heap')
    BY <1>3, <1>8
  <2>2. \A m \in DOMAIN heap :
           /\ heap'[m].cond = heap[m].cond /\ heap'[m].rel = heap[m].rel
           /\ \/ heap'[m].kind = heap[m].kind
              \/ heap[m].kind = "MultiJoin" /\ heap'[m].kind = "Destroyed"
    BY <1>1, <1>8
  <2> QED
    BY <1>2, <1>3, <1>8, <1>13, <2>1, <2>2, GivenKept
<1>15. OthersOK
  BY <1>1, <1>2, <1>9, NodeOnTop, FramesKept DEF OthersOK, none
<1>16. FramesOK' /\ StackOK' /\ SamePass
  BY <1>1, <1>2, <1>3, <1>5, <1>8, <1>15, StackGivesBack DEF none
<1>17. TrieOK'
  BY <1>1, <1>2, <1>13, <1>16, TrieKept DEF none
<1>18. HeapOK'
  <2>1. ASSUME NEW m \in DOMAIN heap'
        PROVE  ArityOK(heap'[m]) /\ \A k \in DOMAIN heap'[m].child :
                                      heap'[m].child[k] \in {Null} \cup DOMAIN heap'
    <3>1. CASE m = n
      BY <1>8, <3>1 DEF ArityOK
    <3>2. CASE m # n
      BY <1>2, <1>8, <3>2 DEF Formed
    <3> QED
      BY <3>1, <3>2
  <2> QED
    BY <1>8, <2>1 DEF HeapOK, Formed
<1>19. Grounded(heap')
  <2>1. \A m \in DOMAIN heap : ChildrenOf(heap', m) \ {Null} \subseteq ChildrenOf(heap, m)
    BY <1>8 DEF ChildrenOf
  <2> QED
    BY <1>2, <1>3, <1>8, <2>1, FewerHang
<1>20. \A m, k : ChildAt(heap', m, k) = ChildAt(heap, m, k)
  BY <1>5, <1>8 DEF ChildAt
<1>21. HolesOK'
  <2>1. Sound(c) /\ \A m, k \in Nat : Sound(ChildAt(heap', m, k))
    BY <1>1, <1>2, <1>20, SoundNow, CurIsSound DEF none
  <2>2. Sound(root') /\ Sound(ret') /\ \A i, x \in Nat : Sound(FrameAt(frames', "cur", i, x))
    BY <1>1, <1>2, <2>1, GivenBackSound DEF none
  <2> QED
    BY <1>1, <1>2, <1>9, <2>1, <2>2, NodeOnTop, HolesFilled DEF none
<1>22. Owned(Holding, LiveNodes)'
  <2>1. LiveNodes' = LiveNodes \ {n}
    BY <1>3, <1>8 DEF LiveNodes, Live
  <2>2. SameChildren(Holding, Holding', {})
    BY <1>20, HoldsNow, HoldsNext DEF SameChildren, Same
  <2> QED
    BY <1>1, <1>2, <1>5, <1>6, <2>1, <2>2, EndOwners DEF none
<1>23. SchemasOK'
  <2>1. BelowSame
    BY <1>1, <1>2, <1>9, <1>11, NodeOnTop, BelowGivesBack DEF none
  <2>2. ASSUME NEW i \in DOMAIN frames'
        PROVE  i \in DOMAIN frames /\ i # Len(frames) /\ frames'[i] = frames[i]
    BY <1>1, <1>3, GivenBack DEF none
  <2>3. ~Live(n)'
    BY <1>8 DEF Live
  <2> QED
    BY <1>1, <1>2, <1>8, <1>9, <2>1, <2>2, <2>3, NodeOnTop, SchemasAgain DEF none
<1> QED
  BY <1>13, <1>14, <1>16, <1>17, <1>18, <1>19, <1>21, <1>22, <1>23
     DEF OptimizerInv, StructureOK, OwnersOK

LEMMA RelationsTyped ==
  ASSUME NEW cond \in Conditions
  PROVE  RelationsOf(cond) \in Seq(STRING)
<1>1. cond.cols \in Seq(Columns)
  BY DEF Conditions
<1>2. \A i \in DOMAIN cond.cols : cond.cols[i].relation \in STRING
  <2>1. ASSUME NEW x \in Columns
        PROVE  x.relation \in STRING
    BY DEF Columns
  <2>2. \A i \in DOMAIN cond.cols : cond.cols[i] \in Columns
    BY <1>1
  <2> QED
    BY <2>1, <2>2
<1> QED
  BY <1>1, <1>2 DEF RelationsOf

Filtered(f, n, c, cond) ==
  [f EXCEPT !.node = c, !.arr = Append(@, [filter |-> n, relations |-> RelationsOf(cond)])]

EntryIn(f, g, n, c) ==
  /\ g \in FrameTypes /\ g.pass = f.pass /\ g.node = c /\ g.at = f.at
  /\ g.cur = f.cur /\ g.done = f.done /\ g.rgt = f.rgt /\ g.stay = f.stay
  /\ TakesUp(f, g, Len(f.arr) + 1, n)
  /\ \A k \in DOMAIN g.arr :
       g.arr[k].filter = n \/ \E j \in DOMAIN f.arr : g.arr[k].filter = f.arr[j].filter

LEMMA EntryAdded ==
  ASSUME NEW f \in FrameTypes, NEW n \in Nat, NEW c \in Nat, NEW cond \in Conditions
  PROVE  EntryIn(f, Filtered(f, n, c, cond), n, c)
<1> DEFINE e == [filter |-> n, relations |-> RelationsOf(cond)]
           x == Len(f.arr) + 1
           a == Append(f.arr, e)
           g == Filtered(f, n, c, cond)
<1>1. f.arr \in Seq(FilterEntries) /\ e.filter = n /\ e \in FilterEntries
  BY FrameTyped, RelationsTyped DEF FilterEntries
<1>0. g = [f EXCEPT !.node = c, !.arr = a]
  BY DEF Filtered
<1> HIDE DEF e, g
<1>5. a \in Seq(FilterEntries)
  BY <1>1
<1> HIDE DEF a
<1>6. /\ g \in FrameTypes /\ g.pass = f.pass /\ g.node = c /\ g.at = f.at
      /\ g.cur = f.cur /\ g.done = f.done /\ g.arr = a /\ g.rgt = f.rgt /\ g.stay = f.stay
  <2>1. \A b \in Seq(FilterEntries) :
          LET o == [f EXCEPT !.node = c, !.arr = b]
          IN  /\ o \in FrameTypes /\ o.pass = f.pass /\ o.node = c /\ o.at = f.at
              /\ o.cur = f.cur /\ o.done = f.done /\ o.arr = b /\ o.rgt = f.rgt /\ o.stay = f.stay
    BY FrameFiltered
  <2> QED
    BY <1>0, <1>5, <2>1
<1>2. /\ DOMAIN g.arr = DOMAIN f.arr \cup {x} /\ x \notin DOMAIN f.arr /\ x \in Nat /\ g.arr[x] = e
      /\ \A k \in DOMAIN f.arr : g.arr[k] = f.arr[k]
  BY <1>1, <1>6 DEF a
<1> HIDE DEF x
<1>3. LocalAt(f, "arr", x) = Null /\ LocalAt(g, "arr", x) = n
  BY <1>1, <1>2, <1>6, LocalIs
<1>4. ASSUME NEW s \in Carried, NEW y \in Nat, s # "arr" \/ y # x
      PROVE  LocalAt(g, s, y) = LocalAt(f, s, y)
  <2>1. CASE s = "arr"
    <3>1. LocalAt(g, "arr", y) = LocalAt(f, "arr", y)
      BY <1>2, <1>4, <1>6, <2>1, LocalIs
    <3> QED
      BY <2>1, <3>1
  <2>2. CASE s = "rgt"
    BY <1>6, <2>2, LocalIs
  <2>3. CASE s = "stay"
    BY <1>6, <2>3, LocalIs
  <2> QED
    BY <2>1, <2>2, <2>3 DEF Carried
<1> QED
  BY <1>1, <1>2, <1>3, <1>4, <1>6 DEF TakesUp, EntryIn, g, x

LEMMA PushFilterInv ==
  ASSUME OptimizerInv, PushFilter
  PROVE  OptimizerInv'
<1> DEFINE none == <<>>
<1> PICK n : n = Here.node
  OBVIOUS
<1>0. PICK c : c = heap[n].child[1]
  OBVIOUS
<1>9. PICK f : f = Filtered(Here, n, c, heap[n].cond)
  OBVIOUS
<1>1. /\ frames # none /\ Here.pass = "push" /\ Here.at = "enter" /\ heap[n].kind = "Filter"
      /\ heap' = transfer_child(heap, n, 1) /\ Continue(f)
      /\ root' = root /\ ret' = ret /\ outcome' = outcome /\ Quiet
  BY <1>0, <1>9 DEF PushFilter, In, Filtered
<1>2. StructureOK /\ OwnersOK /\ SchemasOK /\ Grounded(heap) /\ GivenOK /\ Formed(heap)
  BY DEF OptimizerInv, StructureOK, HeapOK
<1> HIDE DEF none
<1>3. /\ heap \in Seq(HeapNodes) /\ n \in DOMAIN heap /\ n # Null /\ Live(n) /\ Here \in FrameTypes
      /\ PushShape(Here, heap[n]) /\ ArityOK(heap[n]) /\ FrameOK(Here, heap)
      /\ (Waits(Here) <=> ret # Null) /\ outcome # "threw" /\ frames \in Seq(FrameTypes)
  BY <1>1, <1>2, HereOK DEF none
<1>4. /\ 1 \in DOMAIN heap[n].child /\ c # Null /\ ret = Null /\ Here.cur = Null /\ Here.done = 0
      /\ Here.rgt = none /\ Here.stay = none /\ n \in Nat /\ heap[n].child[1] = c
  <2>1. heap[n].child \in Seq(Nat) /\ Len(heap[n].child) = 1
    BY <1>1, <1>3, NodesTyped DEF ArityOK
  <2> QED
    BY <1>0, <1>1, <1>3, <2>1, NodesTyped DEF PushShape, IsWhole, Waits, none
<1>5. c \in DOMAIN heap /\ Live(c) /\ IsWhole(heap[c]) /\ c # n /\ c \in Nat
  BY <1>1, <1>2, <1>4, ChildIs DEF none
<1>6. Writes(n, 1, Null) /\ Grounded(heap') /\ SameSchemas(heap', heap)
  BY <1>1, <1>4, TransferTakes DEF none
<1>8. EntryIn(Here, f, n, c)
  <2>1. heap[n].cond \in Conditions
    BY <1>3, NodesTyped
  <2>2. PICK cond \in Conditions : cond = heap[n].cond
    BY <2>1
  <2>3. f = Filtered(Here, n, c, cond)
    BY <1>9, <2>2
  <2> QED
    BY <1>3, <1>4, <1>5, <2>3, EntryAdded
<1>7. /\ f \in FrameTypes /\ f.pass = Here.pass /\ f.node = c /\ f.at = Here.at
      /\ f.cur = Here.cur /\ f.done = Here.done /\ f.rgt = Here.rgt /\ f.stay = Here.stay
  BY <1>8 DEF EntryIn
<1>10. /\ TakesUp(Here, f, Len(Here.arr) + 1, n)
       /\ \A k \in DOMAIN f.arr :
            f.arr[k].filter = n \/ \E j \in DOMAIN Here.arr : f.arr[k].filter = Here.arr[j].filter
  BY <1>8 DEF EntryIn
<1>11. SameBut(heap', heap, n) /\ heap'[n].child[1] = Null /\ heap'[c] = heap[c]
  BY <1>4, <1>5, <1>6 DEF Writes, WritesIn, SameBut
<1>12. /\ OnlyAt(n) /\ GivenOK' /\ DOMAIN heap' = DOMAIN heap
       /\ \A m \in DOMAIN heap : heap'[m].kind = heap[m].kind
  <2>1. given' = given
    BY <1>1 DEF Quiet
  <2> QED
    BY <1>1, <1>11, <2>1, TopWritten DEF none
<1>13. CallsOK' /\ join_trie' = join_trie
  BY <1>1, <1>2, QuietKeeps DEF none
<1>14. HeapOK'
  BY <1>2, <1>6, FormedWritten DEF HeapOK, Writes
<1>15. ~HasMultiJoin(heap)
  <2>1. TrieOK /\ Len(frames) \in DOMAIN frames /\ Here = frames[Len(frames)]
    BY <1>1, <1>2, HereOK DEF StructureOK, none
  <2> QED
    BY <1>1, <2>1 DEF TrieOK
<1>16. CarriesOK(f, heap')
  <2>1. CarriesOK(Here, heap)
    BY <1>3 DEF FrameOK
  <2>2. ASSUME NEW x, IsLoose(heap, x)
        PROVE  IsLoose(heap', x)
    <3>1. x # n
      BY <1>4, <2>2 DEF IsLoose
    <3> QED
      BY <1>11, <1>12, <2>2, <3>1 DEF IsLoose, SameBut
  <2>3. IsLoose(heap', n)
    BY <1>1, <1>3, <1>11, <1>12 DEF IsLoose
  <2>4. \A k \in DOMAIN f.arr : IsLoose(heap', f.arr[k].filter)
    BY <1>10, <2>1, <2>2, <2>3 DEF CarriesOK
  <2>5. DOMAIN none = {}
    BY DEF none
  <2> QED
    BY <1>4, <1>7, <2>4, <2>5 DEF CarriesOK
<1>17. FrameOK(f, heap')
  <2>1. heap[c].kind # "MultiJoin" /\ heap[c].kind # "Destroyed"
    BY <1>5, <1>15 DEF HasMultiJoin, Live
  <2>2. PushShape(f, heap'[c])
    BY <1>1, <1>4, <1>5, <1>7, <1>11, <2>1 DEF PushShape, none
  <2> QED
    BY <1>1, <1>4, <1>5, <1>7, <1>11, <1>12, <1>16, <2>1, <2>2 DEF FrameOK
<1>18. OthersOK
  BY <1>1, <1>2, <1>12, NodeOnTop, FramesKept DEF OthersOK, none
<1>19. ~Waits(f) /\ Free(f)
  BY <1>1, <1>4, <1>7 DEF Waits, Free
<1>20. FramesOK' /\ StackOK' /\ SamePass
  BY <1>1, <1>2, <1>4, <1>7, <1>17, <1>18, <1>19, StackContinues DEF none
<1>21. TrieOK'
  BY <1>1, <1>2, <1>12, <1>13, <1>20, TrieKept DEF none
<1>22. HolesOK'
  <2>1. Sound(Null) /\ Sound(root') /\ Sound(ret')
    BY <1>1, SoundNow
  <2>2. \A m, j \in Nat : Sound(ChildAt(heap', m, j))
    BY <1>6, <2>1, WrittenSound
  <2>3. \A i, x \in Nat : Sound(FrameAt(frames', "cur", i, x))
    BY <1>1, <1>2, <1>4, <1>7, <2>1, ContinuedSound DEF none
  <2> QED
    BY <1>1, <1>2, <1>12, <2>1, <2>2, <2>3, NodeOnTop, HolesFilled DEF none
<1>23. Owned(Holding, LiveNodes)'
  <2>1. /\ heap[n].child[1] = c /\ Writes(Here.node, 1, Null)
        /\ TakesUp(Here, f, Len(Here.arr) + 1, Here.node)
    BY <1>4, <1>6, <1>10
  <2>2. f.node = heap[Here.node].child[1]
    BY <1>7, <2>1
  <2> QED
    BY <1>1, <1>2, <1>7, <2>1, <2>2, FilterOwners DEF none
<1>24. SchemasOK'
  <2>1. PICK sc : SchemasFit(n, sc)
    BY <1>2, <1>3 DEF SchemasOK
  <2>2. NodeFits(heap, n, sc)
    BY <2>1 DEF SchemasFit
  <2>3. heap'[f.node].schema = heap[n].schema
    BY <1>1, <1>4, <1>7, <1>11, <2>2 DEF NodeFits, Fits
  <2>4. BelowSame
    BY <1>1, <1>2, <1>7, <1>12, <2>3, NodeOnTop, BelowContinues DEF none
  <2>5. NodeFits(heap', n, sc)
    <3>1. \A j \in DOMAIN heap[n].child : heap[n].child[j] \in {Null} \cup DOMAIN heap
      BY <1>2, <1>3 DEF Formed
    <3> QED
      BY <1>6, <2>2, <3>1, NodeStillFits DEF Writes
  <2>6. ASSUME NEW i \in DOMAIN frames'
        PROVE  (i \in DOMAIN frames /\ i # Len(frames) /\ frames'[i] = frames[i])
                 \/ Free(frames'[i])
    BY <1>1, <1>3, <1>7, <1>19, Continued DEF none
  <2> QED
    BY <1>1, <1>2, <1>12, <2>4, <2>5, <2>6, NodeOnTop, SchemasAgain DEF none
<1> QED
  BY <1>6, <1>12, <1>13, <1>14, <1>20, <1>21, <1>22, <1>23, <1>24
     DEF OptimizerInv, StructureOK, OwnersOK

(* A filter is put above a node and takes its schema. *)
LEMMA FilterSet ==
  ASSUME NEW h \in Seq(HeapNodes), NEW w \in DOMAIN h, NEW n \in DOMAIN h, w # n,
         h[w].kind = "Filter", 1 \in DOMAIN h[w].child
  PROVE  WritesIn(h, set_child(h, w, 1, n), w, 1, n)
         /\ set_child(h, w, 1, n)[w].schema = h[n].schema
<1> PICK g : g = Write(h, w, 1, n)
  OBVIOUS
<1>1. n \in Nat /\ h[n].schema \in Schemas
  BY NodesTyped
<1>2. /\ SameBut(g, h, w)
      /\ \A j \in DOMAIN h[w].child : g[w].child[j] = IF j = 1 THEN n ELSE h[w].child[j]
  BY <1>1, PointerWritten
<1>3. g \in Seq(HeapNodes) /\ w \in DOMAIN g /\ g[w] \in HeapNodes /\ g[w].child[1] = n
      /\ g[w].kind = "Filter" /\ g[n] = h[n]
  BY <1>2 DEF SameBut
<1> PICK s : s = h[n].schema
  OBVIOUS
<1>4. set_child(h, w, 1, n) = [g EXCEPT ![w].schema = s]
  <2>1. OutputSchema(g, w) = s
    BY <1>3 DEF OutputSchema, FilterSchema
  <2> QED
    BY <2>1 DEF set_child, build_output_schema, Write
<1> PICK node : node = [g[w] EXCEPT !.schema = s]
  OBVIOUS
<1>5. /\ node \in HeapNodes /\ node.kind = g[w].kind /\ node.rel = g[w].rel /\ node.cond = g[w].cond
      /\ node.child = g[w].child /\ node.schema = s
  BY <1>1, <1>3 DEF HeapNodes
<1> PICK t : t = [g EXCEPT ![w].schema = s]
  OBVIOUS
<1>6. t = [g EXCEPT ![w] = node]
  OBVIOUS
<1>7. /\ t \in Seq(HeapNodes) /\ Len(t) = Len(g) /\ DOMAIN t = DOMAIN g /\ t[w] = node
      /\ \A m \in DOMAIN g : m # w => t[m] = g[m]
  BY <1>3, <1>5, <1>6
<1>8. WritesIn(h, t, w, 1, n)
  BY <1>2, <1>5, <1>7 DEF WritesIn, SameBut
<1> QED
  BY <1>4, <1>5, <1>7, <1>8

\* The first filter that stays is put above the node.
Wrapped(f, w) == [f EXCEPT !.node = w, !.stay = Tail(@)]

WrapIn(f, g, w) ==
  /\ g \in FrameTypes /\ g.pass = f.pass /\ g.node = w /\ g.at = f.at
  /\ g.cur = f.cur /\ g.done = f.done /\ g.arr = f.arr /\ g.rgt = f.rgt
  /\ PutsBack(f, g, w)
  /\ \A x \in DOMAIN g.stay : x + 1 \in DOMAIN f.stay /\ g.stay[x] = f.stay[x + 1]

LEMMA WrapIs ==
  ASSUME NEW f \in FrameTypes, f.stay # <<>>
  PROVE  WrapIn(f, Wrapped(f, f.stay[1]), f.stay[1])
<1>6. PICK o, s : o = f.stay /\ s = Tail(f.stay)
  OBVIOUS
<1>7. PICK w : w = f.stay[1]
  OBVIOUS
<1> DEFINE g == Wrapped(f, w)
<1> HIDE DEF g
<1>1. o \in Seq(Nat) /\ o # <<>> /\ w = o[1] /\ s = Tail(o)
  BY <1>6, <1>7, FrameTyped
<1>2. /\ w \in Nat /\ s \in Seq(Nat) /\ 1 \in DOMAIN o /\ 0 \notin DOMAIN o /\ 0 \notin DOMAIN s
      /\ \A x \in Nat \ {0} : x \in DOMAIN s <=> x + 1 \in DOMAIN o
      /\ \A x \in DOMAIN s : x \in Nat \ {0} /\ s[x] = o[x + 1]
  BY <1>1
<1>3. /\ g \in FrameTypes /\ g.pass = f.pass /\ g.node = w /\ g.at = f.at
      /\ g.cur = f.cur /\ g.done = f.done /\ g.arr = f.arr /\ g.rgt = f.rgt /\ g.stay = s
  <2>1. \A c \in Nat, b \in Seq(Nat) :
          LET e == [f EXCEPT !.node = c, !.stay = b]
          IN  /\ e \in FrameTypes /\ e.pass = f.pass /\ e.node = c /\ e.at = f.at
              /\ e.cur = f.cur /\ e.done = f.done /\ e.arr = f.arr /\ e.rgt = f.rgt /\ e.stay = b
    BY FrameWrapped
  <2>3. w \in Nat /\ s \in Seq(Nat)
    BY <1>2
  <2>4. LET e == [f EXCEPT !.node = w, !.stay = s]
        IN  /\ e \in FrameTypes /\ e.pass = f.pass /\ e.node = w /\ e.at = f.at
            /\ e.cur = f.cur /\ e.done = f.done /\ e.arr = f.arr /\ e.rgt = f.rgt /\ e.stay = s
    BY <2>1, <2>3, Zenon
  <2>2. g = [f EXCEPT !.node = w, !.stay = s]
    BY <1>6 DEF Wrapped, g
  <2> QED
    BY <2>2, <2>4
<1>4. \A x : /\ LocalAt(f, "stay", x) = IF x \in DOMAIN o THEN o[x] ELSE Null
             /\ LocalAt(g, "stay", x) = IF x \in DOMAIN s THEN s[x] ELSE Null
  BY <1>3, <1>6, LocalIs
<1>5. PutsBack(f, g, w)
  <2>1. LocalAt(f, "stay", 0) = Null /\ LocalAt(f, "stay", 1) = w /\ LocalAt(g, "stay", 0) = Null
    BY <1>1, <1>2, <1>4
  <2>2. \A x \in Nat \ {0} : LocalAt(g, "stay", x) = LocalAt(f, "stay", x + 1)
    BY <1>2, <1>4
  <2>3. ASSUME NEW t \in {"cur", "arr", "rgt"}, NEW x \in Nat
        PROVE  LocalAt(g, t, x) = LocalAt(f, t, x)
    BY <1>3, LocalIs
  <2> QED
    BY <2>1, <2>2, <2>3 DEF PutsBack
<1> QED
  BY <1>2, <1>3, <1>5, <1>6, <1>7 DEF WrapIn, g

LEMMA WrapInv ==
  ASSUME OptimizerInv, Wrap
  PROVE  OptimizerInv'
<1> DEFINE none == <<>>
<1> PICK n : n = Here.node
  OBVIOUS
<1>0. PICK w : w = Here.stay[1]
  OBVIOUS
<1>9. PICK f : f = Wrapped(Here, w)
  OBVIOUS
<1>1. /\ frames # none /\ Here.at = "wrap" /\ Here.stay # none
      /\ heap' = set_child(heap, w, 1, n) /\ Continue(f)
      /\ root' = root /\ ret' = ret /\ outcome' = outcome /\ Quiet
  BY <1>0, <1>9 DEF Wrap, Wrapped
<1>2. StructureOK /\ OwnersOK /\ SchemasOK /\ Grounded(heap) /\ GivenOK /\ Formed(heap)
  BY DEF OptimizerInv, StructureOK, HeapOK
<1> HIDE DEF none
<1>3. /\ heap \in Seq(HeapNodes) /\ n \in DOMAIN heap /\ n # Null /\ Live(n) /\ Here \in FrameTypes
      /\ ArityOK(heap[n]) /\ FrameOK(Here, heap) /\ Len(frames) \in DOMAIN frames
      /\ outcome # "threw" /\ frames \in Seq(FrameTypes) /\ Here = frames[Len(frames)]
  BY <1>1, <1>2, HereOK DEF none
<1>4. /\ Here.pass = "push" /\ PushShape(Here, heap[n]) /\ IsWhole(heap[n])
      /\ Here.arr = none /\ Here.rgt = none /\ Here.cur = Null /\ ~Waits(Here) /\ ret = Null
  BY <1>1, <1>2, AtWrap DEF none
<1>5. WrapIn(Here, f, w)
  BY <1>0, <1>1, <1>3, <1>9, WrapIs DEF none
<1>6. /\ f \in FrameTypes /\ f.pass = Here.pass /\ f.node = w /\ f.at = Here.at
      /\ f.cur = Here.cur /\ f.done = Here.done /\ f.arr = Here.arr /\ f.rgt = Here.rgt
      /\ PutsBack(Here, f, w)
      /\ \A x \in DOMAIN f.stay : x + 1 \in DOMAIN Here.stay /\ f.stay[x] = Here.stay[x + 1]
  BY <1>5 DEF WrapIn
<1>7. 1 \in DOMAIN Here.stay /\ IsLoose(heap, w) /\ CarriesOK(Here, heap)
  <2>1. Here.stay \in Seq(Nat)
    BY <1>3, FrameTyped
  <2>2. 1 \in DOMAIN Here.stay
    BY <1>1, <2>1 DEF none
  <2> QED
    BY <1>0, <1>3, <2>2 DEF FrameOK, CarriesOK
<1>8. /\ w \in DOMAIN heap /\ heap[w].kind = "Filter" /\ heap[w].child[1] = Null /\ w \in Nat
      /\ w # Null /\ 1 \in DOMAIN heap[w].child /\ DOMAIN heap[w].child = {1} /\ w # n
      /\ Len(heap[w].child) = 1
  <2>1. w \in DOMAIN heap /\ heap[w].kind = "Filter" /\ heap[w].child[1] = Null
    BY <1>7 DEF IsLoose
  <2>2. heap[w].child \in Seq(Nat) /\ Len(heap[w].child) = 1 /\ w \in Nat \ {0}
    BY <1>2, <1>3, <2>1, NodesTyped DEF Formed, ArityOK
  <2>3. 1 \in DOMAIN heap[w].child /\ DOMAIN heap[w].child = {1}
    BY <2>2
  <2> QED
    BY <1>4, <2>1, <2>2, <2>3 DEF IsWhole, Null
<1>10. OnTop(w)
  <2>1. LocalAt(Here, "stay", 1) = w /\ "stay" \in Slots \ {"cur"}
    BY <1>6 DEF PutsBack, Slots, Carried
  <2> QED
    BY <2>1 DEF OnTop
<1>11. Writes(w, 1, n) /\ heap'[w].schema = heap[n].schema
  BY <1>1, <1>3, <1>8, FilterSet DEF Writes
<1>12. /\ SameBut(heap', heap, w) /\ heap'[w].child[1] = n /\ heap'[n] = heap[n]
       /\ DOMAIN heap' = DOMAIN heap /\ \A m \in DOMAIN heap : m # w => heap'[m] = heap[m]
  BY <1>3, <1>8, <1>11 DEF Writes, WritesIn, SameBut
<1>13. OnlyAt(w)
  BY <1>12 DEF OnlyAt, SameBut
<1>14. CallsOK' /\ join_trie' = join_trie /\ given' = given
  BY <1>1, <1>2, QuietKeeps DEF none
<1>15. \A m \in DOMAIN heap : heap'[m].kind = heap[m].kind /\ heap'[m].cond = heap[m].cond
                              /\ heap'[m].rel = heap[m].rel
  BY <1>12 DEF SameBut
<1>16. GivenOK'
  <2>1. Len(heap) \in Nat /\ DOMAIN heap = 1 .. Len(heap) /\ Len(heap') = Len(heap)
    BY <1>3, <1>12 DEF SameBut
  <2>2. Len(heap') \in Nat /\ Len(heap) <= Len(heap')
    BY <2>1
  <2> QED
    BY <1>2, <1>3, <1>14, <1>15, <2>1, <2>2, GivenKept
<1>17. HeapOK'
  BY <1>2, <1>3, <1>11, FormedWritten DEF HeapOK, Writes
<1>18. Grounded(heap')
  <2>1. Loose(heap, w)
    BY <1>1, <1>2, <1>8, <1>10, TopLoose DEF none
  <2> QED
    BY <1>2, <1>8, <1>11, <2>1, GroundedWritten DEF Writes
<1>19. CarriesOK(f, heap')
  <2>1. DOMAIN none = {}
    BY DEF none
  <2>2. ASSUME NEW x \in DOMAIN f.stay
        PROVE  IsLoose(heap', f.stay[x])
    <3>1. x + 1 \in DOMAIN Here.stay /\ f.stay[x] = Here.stay[x + 1] /\ x + 1 # 1
      <4>1. f.stay \in Seq(Nat)
        BY <1>6, FrameTyped
      <4>2. x \in Nat \ {0}
        BY <4>1
      <4> QED
        BY <1>6, <4>2
    <3>2. Single(Here)
      BY <1>2, <1>3, CarriedOnce
    <3>3. Distinct(Here)
      BY <1>3, <1>7, <3>2, DistinctIf
    <3>4. f.stay[x] # w
      BY <1>0, <1>7, <3>1, <3>3 DEF Distinct
    <3>5. IsLoose(heap, f.stay[x])
      BY <1>7, <3>1 DEF CarriesOK
    <3> QED
      BY <1>12, <3>4, <3>5 DEF IsLoose
  <2> QED
    BY <1>4, <1>6, <2>1, <2>2 DEF CarriesOK
<1>20. FrameOK(f, heap')
  <2>1. IsWhole(heap'[w]) /\ heap'[w].kind = "Filter"
    BY <1>3, <1>8, <1>12 DEF IsWhole, SameBut
  <2>2. PushShape(f, heap'[w])
    BY <1>1, <1>4, <1>6, <2>1 DEF PushShape, none
  <2> QED
    BY <1>4, <1>6, <1>8, <1>12, <1>19, <2>1, <2>2 DEF FrameOK
<1>21. OthersOK
  BY <1>1, <1>2, <1>10, <1>13, FramesKept DEF OthersOK, none
<1>22. ~Waits(f) /\ Free(f)
  BY <1>1, <1>4, <1>6 DEF Waits, Free
<1>23. FramesOK' /\ StackOK' /\ SamePass
  BY <1>1, <1>2, <1>4, <1>6, <1>20, <1>21, <1>22, StackContinues DEF none
<1>24. TrieOK'
  BY <1>1, <1>2, <1>12, <1>14, <1>15, <1>23, TrieKept DEF none
<1>25. HolesOK'
  <2>1. Sound(Null) /\ Sound(root') /\ Sound(ret') /\ Sound(n)
    BY <1>1, <1>3, <1>4, <1>12, SoundNow DEF Sound
  <2>2. \A m, j \in Nat : Sound(ChildAt(heap', m, j))
    BY <1>11, <2>1, WrittenSound
  <2>3. \A i, x \in Nat : Sound(FrameAt(frames', "cur", i, x))
    BY <1>1, <1>2, <1>4, <1>6, <2>1, ContinuedSound DEF none
  <2> QED
    BY <1>1, <1>2, <1>10, <1>13, <2>1, <2>2, <2>3, HolesFilled DEF none
<1>26. Owned(Holding, LiveNodes)'
  <2>1. Writes(w, 1, Here.node)
    BY <1>11
  <2> QED
    BY <1>1, <1>2, <1>6, <1>8, <2>1, WrapOwners DEF none
<1>27. SchemasOK'
  <2>1. heap'[f.node].schema = heap[n].schema
    BY <1>6, <1>11
  <2>2. BelowSame
    BY <1>1, <1>2, <1>6, <1>10, <1>13, <2>1, BelowContinues DEF none
  <2>3. PICK s \in Schemas : s = heap[n].schema
    BY <1>3, NodesTyped
  <2>4. PICK sc \in Seq(Schemas) : Len(sc) = 1 /\ sc[1] = s
    <3>1. <<s>> \in Seq(Schemas) /\ Len(<<s>>) = 1 /\ <<s>>[1] = s
      OBVIOUS
    <3> QED
      BY <3>1
  <2>5. NodeFits(heap', w, sc)
    <3>1. heap'[w].kind = "Filter" /\ heap'[w].schema = sc[1] /\ Len(heap'[w].child) = Len(sc)
      BY <1>8, <1>11, <1>12, <2>3, <2>4 DEF SameBut
    <3>2. Fits(heap'[w], sc)
      BY <3>1 DEF Fits
    <3>3. ASSUME NEW k \in DOMAIN heap'[w].child
          PROVE  sc[k] = heap'[heap'[w].child[k]].schema
      <4>1. k = 1
        BY <1>8, <1>12 DEF SameBut
      <4> QED
        BY <1>12, <2>3, <2>4, <4>1
    <3> QED
      BY <2>4, <3>1, <3>2, <3>3 DEF NodeFits
  <2>6. ASSUME NEW i \in DOMAIN frames'
        PROVE  (i \in DOMAIN frames /\ i # Len(frames) /\ frames'[i] = frames[i])
                 \/ Free(frames'[i])
    BY <1>1, <1>3, <1>6, <1>22, Continued DEF none
  <2> QED
    BY <1>1, <1>2, <1>10, <1>12, <1>13, <2>2, <2>5, <2>6, SchemasAgain DEF none
<1> QED
  BY <1>14, <1>16, <1>17, <1>18, <1>23, <1>24, <1>25, <1>26, <1>27
     DEF OptimizerInv, StructureOK, OwnersOK

LEMMA FailInv ==
  ASSUME OptimizerInv, Fail, UNCHANGED <<join_trie, custom_optimzers, calls, given>>
  PROVE  OptimizerInv'
<1> DEFINE none == <<>>
<1>1. StructureOK /\ HeapOK /\ CallsOK /\ Grounded(heap) /\ GivenOK
  BY DEF OptimizerInv, StructureOK
<1>2. /\ heap' = destroy(heap, DOMAIN heap) /\ root' = Null /\ ret' = Null /\ frames' = none
      /\ passes' = none /\ outcome' = "threw" /\ heap \in Seq(HeapNodes)
  BY <1>1 DEF Fail, HeapOK, Formed
<1>3. none \in Seq(Nat) /\ none \in Seq({"choose", "push"}) /\ none \in Seq(FrameTypes)
      /\ DOMAIN none = {} /\ Len(none) = 0
  OBVIOUS
<1> HIDE DEF none
<1>4. Owned(Holding, LiveNodes)' /\ LiveNodes' = {} /\ \A p \in Places : What(p)' = Null
  BY <1>1, FailOwners
<1>5. ASSUME NEW m \in DOMAIN heap
      PROVE  heap'[m] \in HeapNodes /\ heap'[m].kind = "Destroyed" /\ heap'[m].child = none
  <2>1. heap[m] \in HeapNodes
    BY <1>2
  <2>2. heap'[m] = [heap[m] EXCEPT !.kind = "Destroyed", !.child = none]
    BY <1>2 DEF destroy, none
  <2>3. heap'[m] \in HeapNodes
    BY <1>3, <2>1, <2>2 DEF HeapNodes
  <2> QED
    BY <2>1, <2>2, <2>3 DEF HeapNodes
<1>6. heap' \in Seq(HeapNodes) /\ DOMAIN heap' = DOMAIN heap
  <2>1. Len(heap) \in Nat /\ DOMAIN heap = 1 .. Len(heap)
    BY <1>2
  <2>2. heap' = [m \in DOMAIN heap |-> heap'[m]]
    BY <1>2 DEF destroy
  <2>3. heap' \in [1 .. Len(heap) -> HeapNodes]
    BY <1>5, <2>1, <2>2
  <2> QED
    BY <2>1, <2>3, SeqTyped
<1>7. HeapOK'
  <2>1. \A m \in DOMAIN heap' : ArityOK(heap'[m]) /\ DOMAIN heap'[m].child = {}
    BY <1>3, <1>5, <1>6 DEF ArityOK
  <2> QED
    BY <1>6, <2>1 DEF HeapOK, Formed
<1>8. FramesOK' /\ TrieOK' /\ CallsOK'
  BY <1>1, <1>2, <1>3 DEF FramesOK, TrieOK, CallsOK
<1>9. StackOK'
  BY <1>2, <1>3 DEF StackOK, none
<1>10. HolesOK'
  BY <1>4 DEF HolesOK
<1>11. SchemasOK'
  BY <1>4, <1>6 DEF SchemasOK, LiveNodes
<1>12. Grounded(heap')
  <2>1. \A m \in DOMAIN heap : ChildrenOf(heap', m) \ {Null} \subseteq ChildrenOf(heap, m)
    BY <1>3, <1>5 DEF ChildrenOf
  <2> QED
    BY <1>1, <1>2, <1>6, <2>1, FewerHang
<1>13. GivenOK'
  BY <1>1, <1>2 DEF GivenOK
<1> QED
  BY <1>4, <1>7, <1>8, <1>9, <1>10, <1>11, <1>12, <1>13 DEF OptimizerInv, StructureOK, OwnersOK

LEMMA TrieSides ==
  ASSUME NEW h, NEW j \in DOMAIN h, h[j].kind = "BinaryJoin", NEW rel \in DOMAIN TrieOf(h)[j]
  PROVE  TrieOf(h)[j][rel] \in {"Left", "Right"}
BY DEF TrieOf

Fresh(f, pass, n, arr) ==
  /\ f \in FrameTypes /\ f.pass = pass /\ f.node = n /\ f.at = "enter" /\ f.cur = Null
  /\ f.arr = arr /\ f.rgt = <<>> /\ f.stay = <<>>

LEMMA FreshFrame ==
  ASSUME NEW pass \in {"choose", "push"}, NEW n \in Nat, NEW arr \in Seq(FilterEntries)
  PROVE  Fresh(Frame(pass, n, arr), pass, n, arr)
BY NewFrame DEF Fresh

LEMMA StartInv ==
  ASSUME OptimizerInv, NEW pass \in {"choose", "push"}, StartPass(pass),
         pass = "push" => ~HasMultiJoin(heap) /\ join_trie' = TrieOf(heap)
  PROVE  OptimizerInv'
<1> DEFINE none == <<>>
<1>0. PICK f : f = Frame(pass, root, none)
  OBVIOUS
<1>1. /\ frames = none /\ passes # none /\ frames' = <<f>> /\ passes' = Tail(passes)
      /\ root' = Null /\ heap' = heap /\ ret' = ret /\ custom_optimzers' = custom_optimzers
      /\ calls' = calls /\ given' = given /\ outcome' = outcome
  BY <1>0 DEF StartPass
<1>2. /\ StructureOK /\ HeapOK /\ StackOK /\ CallsOK
      /\ OwnersOK /\ SchemasOK /\ Grounded(heap) /\ GivenOK
  BY DEF OptimizerInv, StructureOK
<1>3. none \in Seq(FilterEntries) /\ DOMAIN none = {} /\ none = <<>>
  OBVIOUS
<1> HIDE DEF none
<1>4. root # Null /\ root \in DOMAIN heap /\ ret = Null /\ outcome # "threw"
  BY <1>1, <1>2, <1>3 DEF StackOK
<1>5. Live(root) /\ IsWhole(heap[root]) /\ heap \in Seq(HeapNodes) /\ ArityOK(heap[root])
      /\ root \in Nat
  <2>1. <<"root", 0, 0>> \in Places /\ What(<<"root", 0, 0>>) = root
    BY SomePlaces, WhatNow
  <2>2. IsWhole(heap[root])
    BY <1>2, <1>4, <2>1 DEF OwnersOK, HolesOK
  <2>3. Live(root)
    BY <1>2, <1>4, <2>1, HeldIsLive
  <2> QED
    BY <1>2, <1>4, <2>2, <2>3, NodesTyped DEF HeapOK, Formed
<1>6. FrameOK(f, heap')
  <2>1. pass = "push" => heap[root].kind # "MultiJoin"
    BY <1>4 DEF HasMultiJoin
  <2>2. \A i \in DOMAIN none : IsLoose(heap, none[i].filter)
    BY <1>3
  <2> QED
    BY <1>0, <1>1, <1>3, <1>4, <1>5, <2>1, <2>2, NewFrameOK DEF Live
<1>7. /\ f \in FrameTypes /\ f.pass = pass /\ f.node = root /\ f.at = "enter" /\ f.cur = Null
      /\ f.arr = none /\ f.rgt = none /\ f.stay = none
  <2>1. Fresh(f, pass, root, none)
    BY <1>0, <1>3, <1>5, FreshFrame
  <2> QED
    BY <1>3, <2>1 DEF Fresh
<1>8. ~Waits(f)
  BY <1>7 DEF Waits
<1>9. /\ frames' \in Seq(FrameTypes) /\ Len(frames') = 1 /\ DOMAIN frames' = {1} /\ frames'[1] = f
      /\ frames' # none
  BY <1>1, <1>3, <1>7
<1>10. FramesOK'
  BY <1>6, <1>9 DEF FramesOK
<1>11. StackOK'
  BY <1>1, <1>3, <1>4, <1>8, <1>9 DEF StackOK
<1>12. TrieOK'
  BY <1>1, <1>7, <1>9, TrieSides DEF TrieOK, HasMultiJoin
<1>13. CallsOK'
  <2>1. passes \in Seq({"choose", "push"})
    BY <1>2 DEF CallsOK
  <2>2. Tail(passes) \in Seq({"choose", "push"})
    BY <1>1, <1>3, <2>1
  <2> QED
    BY <1>1, <1>2, <2>2 DEF CallsOK
<1>14. Owned(Holding, LiveNodes)'
  <2>1. Starts(f)
    BY <1>1, <1>3, <1>7, <1>9 DEF Starts, Unladen
  <2> QED
    BY <1>1, <1>2, <2>1, StartOwners
<1>15. HolesOK'
  <2> SUFFICES ASSUME NEW p \in Places, What(p)' # Null, p[1] \in {"root", "ret", "child", "cur"}
               PROVE  IsWhole(heap'[What(p)'])
    BY DEF HolesOK
  <2>1. What(p)' = What(p) /\ p[1] = "child"
    <3>1. CASE p[1] = "cur"
      <4>1. What(p)' = FrameAt(frames', "cur", p[2], p[3])
        BY <3>1, PlaceIs, WhatNext DEF Slots
      <4>2. FrameAt(frames', "cur", p[2], p[3]) = Null
        BY <1>7, <1>9, LocalIs DEF FrameAt
      <4> QED
        BY <4>1, <4>2
    <3>2. CASE p[1] = "child"
      BY <1>1, <3>2, PlaceIs, WhatNext, WhatNow
    <3>3. CASE p = <<"root", 0, 0>> \/ p = <<"ret", 0, 0>>
      BY <1>1, <1>4, <3>3, WhatNext
    <3> QED
      BY <3>1, <3>2, <3>3, PlaceIs DEF Slots, Carried
  <2> QED
    BY <1>1, <1>2, <2>1 DEF OwnersOK, HolesOK
<1>16. SchemasOK'
  <2> SUFFICES ASSUME NEW m \in DOMAIN heap, Live(m)
               PROVE  \E sc : SchemasFit(m, sc)'
    BY <1>1 DEF SchemasOK, Live
  <2>1. PICK sc : NodeFits(heap, m, sc)
    BY <1>2 DEF SchemasOK, SchemasFit
  <2>2. NodeFits(heap', m, sc)
    BY <1>1, <2>1
  <2>3. \A i \in DOMAIN frames' : FrameFits(heap', frames'[i], Below(i)', sc)
    BY <1>7, <1>8, <1>9 DEF FrameFits
  <2> QED
    BY <2>2, <2>3 DEF SchemasFit
<1>17. HeapOK' /\ Grounded(heap') /\ GivenOK'
  BY <1>1, <1>2 DEF HeapOK, GivenOK
<1> QED
  BY <1>10, <1>11, <1>12, <1>13, <1>14, <1>15, <1>16, <1>17
     DEF OptimizerInv, StructureOK, OwnersOK

LEMMA CallInv ==
  ASSUME OptimizerInv, NEW todo \in Seq({"choose", "push"}), CallOptimizer(todo)
  PROVE  OptimizerInv'
<1>1. StructureOK /\ OwnersOK /\ SchemasOK /\ Grounded(heap)
  BY DEF OptimizerInv
<1>2. /\ ~Busy /\ outcome # "threw" /\ root # Null /\ calls < MaxCalls
      /\ passes' = todo /\ calls' = calls + 1
      /\ given' = [heap |-> heap, root |-> root, passes |-> todo]
      /\ UNCHANGED <<heap, root, frames, ret, join_trie, custom_optimzers, outcome>>
  BY DEF CallOptimizer
<1>3. OwnersOK'
  BY <1>1, <1>2, StillOwners
<1>4. HeapOK' /\ FramesOK' /\ TrieOK' /\ Grounded(heap')
  BY <1>1, <1>2 DEF StructureOK, HeapOK, FramesOK, TrieOK
<1>5. StackOK'
  BY <1>1, <1>2 DEF StructureOK, StackOK
<1>6. CallsOK'
  <2>1. calls' \in 0 .. MaxCalls
    BY <1>1, <1>2, MaxCallsAssumption DEF StructureOK, CallsOK
  <2> QED
    BY <1>1, <1>2, <2>1 DEF StructureOK, CallsOK
<1>7. SchemasOK'
  BY <1>1, <1>2 DEF SchemasOK, SchemasFit, Below, Live
<1>8. GivenOK'
  <2>1. heap \in Seq(HeapNodes) /\ given'.heap = heap
    BY <1>1, <1>2 DEF StructureOK, HeapOK, Formed
  <2>2. Len(heap) <= Len(heap)
    BY <2>1
  <2> QED
    BY <1>2, <2>1, <2>2 DEF GivenOK
<1> QED
  BY <1>3, <1>4, <1>5, <1>6, <1>7, <1>8 DEF OptimizerInv, StructureOK

LEMMA RegisterInv ==
  ASSUME OptimizerInv, register_optimzer \/ UNCHANGED optimizerVars
  PROVE  OptimizerInv'
<1>1. /\ StructureOK /\ OwnersOK /\ SchemasOK /\ Grounded(heap) /\ GivenOK
      /\ custom_optimzers \in Seq({"choose", "push"})
  BY DEF OptimizerInv, StructureOK, CallsOK
<1>2. UNCHANGED <<heap, root, frames, ret, join_trie, passes, calls, given, outcome>>
  BY DEF register_optimzer, optimizerVars
<1>3. custom_optimzers' \in Seq({"choose", "push"})
  BY <1>1 DEF register_optimzer, optimizerVars
<1>4. OwnersOK'
  BY <1>1, <1>2, StillOwners
<1>5. StructureOK'
  BY <1>1, <1>2, <1>3 DEF StructureOK, HeapOK, FramesOK, StackOK, TrieOK, CallsOK
<1>6. SchemasOK' /\ Grounded(heap') /\ GivenOK'
  BY <1>1, <1>2 DEF SchemasOK, SchemasFit, Below, Live, GivenOK
<1> QED
  BY <1>4, <1>5, <1>6 DEF OptimizerInv

LEMMA ReachedIs ==
  ASSUME NEW h, Len(h) \in Nat, NEW r \in DOMAIN h, 
         \A n \in DOMAIN h : ChildrenOf(h, n) \subseteq {Null} \cup DOMAIN h, Null \notin DOMAIN h
  PROVE  /\ Reached(h, r)[0] = {r}
         /\ \A k \in 1 .. Len(h) :
              Reached(h, r)[k] = Reached(h, r)[k - 1]
                                 \cup UNION {ChildrenOf(h, n) \ {Null} : n \in Reached(h, r)[k - 1]}
         /\ \A k \in 0 .. Len(h) : Reached(h, r)[k] \subseteq DOMAIN h
<1> DEFINE N == Len(h)
           S == SUBSET DOMAIN h
           More(q) == q \cup UNION {ChildrenOf(h, n) \ {Null} : n \in q}
           step == [k \in 1 .. N |-> [q \in S |-> More(q)]]
           base == {r} \ {Null}
<1>1. N \in Nat /\ base \in S /\ base = {r}
  OBVIOUS
<1>2. \A q \in S : More(q) \in S
  OBVIOUS
<1> HIDE DEF N, More, base
<1>3. step \in Steps(N, S)
  <2> HIDE DEF S
  <2> QED
    BY <1>2 DEF Steps
<1>4. \A k \in 1 .. N, q \in S : step[k][q] = More(q)
  <2> HIDE DEF S
  <2> QED
    OBVIOUS
<1> HIDE DEF step, S
<1>5. Solutions(N, S, base, step) # {}
  BY <1>1, <1>3, RecursionExists
<1>6. PICK f \in [0 .. N -> S] : f[0] = base /\ \A k \in 1 .. N : f[k] = step[k][f[k - 1]]
  BY <1>5 DEF Solutions
<1>7. ASSUME NEW k \in 1 .. N PROVE f[k] = More(f[k - 1])
  <2>1. f[k - 1] \in S
    BY <1>1
  <2> QED
    BY <1>4, <1>6, <2>1
<1>8. f = [k \in 0 .. N |-> IF k = 0 THEN base ELSE More(f[k - 1])]
  <2>1. f = [k \in 0 .. N |-> f[k]]
    OBVIOUS
  <2>2. \A k \in 0 .. N : f[k] = IF k = 0 THEN base ELSE More(f[k - 1])
    BY <1>1, <1>6, <1>7
  <2> QED
    BY <2>1, <2>2
<1> DEFINE u == CHOOSE g : g = [k \in 0 .. N |-> IF k = 0 THEN base ELSE More(g[k - 1])]
<1>9. Reached(h, r) = u
  BY DEF Reached, N, More, base
<1>10. u = [k \in 0 .. N |-> IF k = 0 THEN base ELSE More(u[k - 1])]
  BY <1>8
<1> HIDE DEF u
<1>11. u[0] = base /\ \A k \in 1 .. N : u[k] = More(u[k - 1])
  <2>1. 0 \in 0 .. N /\ \A k \in 1 .. N : k \in 0 .. N /\ k # 0
    BY <1>1
  <2>2. u[0] = base
    BY <1>10, <2>1
  <2>3. ASSUME NEW k \in 1 .. N
        PROVE  u[k] = More(u[k - 1])
    BY <1>10, <2>1
  <2> QED
    BY <2>2, <2>3
<1>12. \A k \in 1 .. N : u[k - 1] \in S => u[k] \in S
  BY <1>2, <1>11
<1>13. \A k \in 0 .. N : u[k] \in S
  BY <1>1, <1>11, <1>12, RecursionTyped
<1>14. \A k \in 0 .. Len(h) : Reached(h, r)[k] \subseteq DOMAIN h
  BY <1>9, <1>13 DEF N, S
<1> QED
  BY <1>1, <1>9, <1>11, <1>14 DEF N, More

\* The plan that is given has this shape.
LEMMA PlanReached ==
  ASSUME NEW h, NEW r, IsPlan(h, r)
  PROVE  /\ h \in Seq(HeapNodes) /\ r \in DOMAIN h /\ Formed(h)
         /\ \A n \in DOMAIN h : h[n].kind # "Destroyed" /\ IsWhole(h[n])
         /\ \A n \in DOMAIN h : n = r \/ \E m \in DOMAIN h : n \in ChildrenOf(h, m)
         /\ Grounded(h)
<1> DEFINE N == Len(h)
           T == Reached(h, r)
<1>1. h \in Seq(HeapNodes) /\ r \in DOMAIN h /\ T[N] = DOMAIN h /\ N \in Nat /\ Null \notin DOMAIN h
  <2>1. h \in Seq(HeapNodes) /\ r \in DOMAIN h /\ T[N] = DOMAIN h
    BY DEF IsPlan, Tree
  <2>2. N \in Nat /\ 0 \notin DOMAIN h
    BY <2>1
  <2> QED
    BY <2>1, <2>2 DEF Null
<1>2. \A n \in DOMAIN h : Complete(h[n]) /\ ChildrenOf(h, n) \subseteq DOMAIN h \ {r}
  BY DEF IsPlan
<1>3. \A m1, m2 \in DOMAIN h : ChildrenOf(h, m1) \cap ChildrenOf(h, m2) # {} => m1 = m2
  <2> SUFFICES ASSUME NEW m1 \in DOMAIN h, NEW m2 \in DOMAIN h, NEW n \in ChildrenOf(h, m1),
                      n \in ChildrenOf(h, m2)
               PROVE  m1 = m2
    OBVIOUS
  <2>1. PICK k1 \in DOMAIN h[m1].child : h[m1].child[k1] = n
    BY DEF ChildrenOf
  <2>2. PICK k2 \in DOMAIN h[m2].child : h[m2].child[k2] = n
    BY DEF ChildrenOf
  <2> QED
    BY <2>1, <2>2 DEF IsPlan
<1>4. /\ T[0] = {r}
      /\ \A k \in 1 .. N : T[k] = T[k - 1] \cup UNION {ChildrenOf(h, n) \ {Null} : n \in T[k - 1]}
      /\ \A k \in 0 .. N : T[k] \subseteq DOMAIN h
  BY <1>1, <1>2, ReachedIs
<1> HIDE DEF T, N
<1>5. \A n \in DOMAIN h : h[n].kind # "Destroyed" /\ IsWhole(h[n]) /\ ArityOK(h[n])
  <2> SUFFICES ASSUME NEW n \in DOMAIN h
               PROVE  h[n].kind # "Destroyed" /\ IsWhole(h[n]) /\ ArityOK(h[n])
    OBVIOUS
  <2>1. h[n].kind # "Destroyed"
    BY <1>2 DEF Complete
  <2>2. ArityOK(h[n])
    BY <1>1, <1>2, <2>1, NodesTyped DEF Complete, ArityOK, Arity
  <2>3. IsWhole(h[n])
    BY <1>1, <1>2 DEF IsWhole, ChildrenOf
  <2> QED
    BY <2>1, <2>2, <2>3
<1>6. Formed(h)
  BY <1>1, <1>2, <1>5 DEF Formed, ChildrenOf
<1>7. \A n \in DOMAIN h : n = r \/ \E m \in DOMAIN h : n \in ChildrenOf(h, m)
  <2> DEFINE U == {r} \cup UNION {ChildrenOf(h, m) : m \in DOMAIN h}
             Good == {k \in 0 .. N : T[k] \subseteq U}
  <2>1. 0 \in Good
    BY <1>1, <1>4
  <2>2. ASSUME NEW k \in 0 .. N - 1, k \in Good PROVE k + 1 \in Good
    <3>1. k + 1 \in 1 .. N /\ (k + 1) - 1 = k /\ k \in 0 .. N /\ k + 1 \in 0 .. N
      BY <1>1
    <3>2. T[k + 1] = T[k] \cup UNION {ChildrenOf(h, n) \ {Null} : n \in T[k]}
      BY <1>4, <3>1
    <3>3. T[k] \subseteq DOMAIN h /\ T[k] \subseteq U
      BY <1>4, <2>2, <3>1
    <3>4. T[k + 1] \subseteq U
      BY <3>2, <3>3
    <3> QED
      BY <3>1, <3>4
  <2> HIDE DEF Good
  <2>3. 0 .. N \subseteq Good
    BY <1>1, <2>1, <2>2, IntervalInductionSet
  <2>4. DOMAIN h \subseteq U
    BY <1>1, <2>3 DEF Good
  <2> QED
    BY <2>4
<1>8. Grounded(h)
  <2> SUFFICES ASSUME NEW S \in SUBSET DOMAIN h, \A n \in S : \E m \in S : n \in ChildrenOf(h, m)
               PROVE  S = {}
    BY DEF Grounded
  <2> DEFINE Good == {k \in 0 .. N : T[k] \cap S = {}}
  <2>1. 0 \in Good
    BY <1>1, <1>2, <1>4
  <2>2. ASSUME NEW k \in 0 .. N - 1, k \in Good PROVE k + 1 \in Good
    <3>1. k + 1 \in 1 .. N /\ (k + 1) - 1 = k /\ k \in 0 .. N /\ k + 1 \in 0 .. N
      BY <1>1
    <3>2. T[k + 1] = T[k] \cup UNION {ChildrenOf(h, n) \ {Null} : n \in T[k]}
      BY <1>4, <3>1
    <3>3. T[k] \subseteq DOMAIN h /\ T[k] \cap S = {}
      BY <1>4, <2>2, <3>1
    <3>4. ASSUME NEW n \in T[k + 1], n \in S PROVE FALSE
      <4>1. PICK m \in T[k] : n \in ChildrenOf(h, m)
        BY <3>2, <3>3, <3>4
      <4>2. PICK m2 \in S : n \in ChildrenOf(h, m2)
        BY <3>4
      <4> QED
        BY <1>3, <3>3, <4>1, <4>2
    <3> QED
      BY <3>1, <3>4
  <2> HIDE DEF Good
  <2>3. 0 .. N \subseteq Good
    BY <1>1, <2>1, <2>2, IntervalInductionSet
  <2> QED
    BY <1>1, <2>3 DEF Good
<1> QED
  BY <1>1, <1>5, <1>6, <1>7, <1>8

LEMMA PlanChildren ==
  ASSUME NEW h, NEW r, IsPlan(h, r), NEW m \in DOMAIN h, NEW k \in DOMAIN h[m].child
  PROVE  h[m].child[k] \in DOMAIN h /\ h[m].child[k] # r
<1>1. h[m].child[k] \in ChildrenOf(h, m)
  BY DEF ChildrenOf
<1>2. ChildrenOf(h, m) \subseteq DOMAIN h \ {r}
  BY DEF IsPlan
<1> QED
  BY <1>1, <1>2

\* The plan that is given is held by the client.
LEMMA InitOwners ==
  ASSUME IsPlan(heap, root), frames = <<>>, ret = Null
  PROVE  OwnersOK
<1>1. /\ heap \in Seq(HeapNodes) /\ root \in DOMAIN heap
      /\ \A n \in DOMAIN heap : heap[n].kind # "Destroyed" /\ IsWhole(heap[n])
      /\ \A n \in DOMAIN heap : n = root \/ \E m \in DOMAIN heap : n \in ChildrenOf(heap, m)
  BY PlanReached
<1>2. /\ Null \notin DOMAIN heap /\ DOMAIN heap \subseteq Nat /\ LiveNodes = DOMAIN heap
      /\ \A n \in DOMAIN heap : DOMAIN heap[n].child \subseteq Nat
  <2>1. Null \notin DOMAIN heap /\ DOMAIN heap \subseteq Nat
    BY <1>1 DEF Null
  <2>2. LiveNodes = DOMAIN heap
    BY <1>1 DEF LiveNodes, Live
  <2>3. ASSUME NEW n \in DOMAIN heap
        PROVE  DOMAIN heap[n].child \subseteq Nat
    <3>1. heap[n].child \in Seq(Nat)
      BY <1>1, NodesTyped
    <3> QED
      BY <3>1
  <2> QED
    BY <2>1, <2>2, <2>3
<1>3. ASSUME NEW p \in Places, What(p) # Null
      PROVE  /\ What(p) \in DOMAIN heap /\ p = <<p[1], p[2], p[3]>>
             /\ \/ p = <<"root", 0, 0>> /\ What(p) = root
                \/ /\ p[1] = "child" /\ p[2] \in DOMAIN heap /\ p[3] \in DOMAIN heap[p[2]].child
                   /\ What(p) = heap[p[2]].child[p[3]] /\ What(p) # root
  <2>1. CASE p = <<"root", 0, 0>>
    BY <1>1, <2>1, WhatNow, PlaceIs
  <2>2. CASE p = <<"ret", 0, 0>>
    BY <1>3, <2>2, WhatNow
  <2>3. CASE p[1] = "child"
    <3>1. What(p) = ChildAt(heap, p[2], p[3])
      BY <2>3, PlaceIs, WhatNow
    <3>2. p[2] \in DOMAIN heap /\ p[3] \in DOMAIN heap[p[2]].child
          /\ What(p) = heap[p[2]].child[p[3]]
      BY <1>3, <3>1 DEF ChildAt
    <3> QED
      BY <2>3, <3>2, PlaceIs, PlanChildren
  <2>4. CASE p[1] \in Slots
    <3>1. What(p) = FrameAt(frames, p[1], p[2], p[3])
      BY <2>4, PlaceIs, WhatNow
    <3>2. DOMAIN frames = {}
      OBVIOUS
    <3> QED
      BY <1>3, <3>1, <3>2 DEF FrameAt
  <2> QED
    BY <2>1, <2>2, <2>3, <2>4, PlaceIs
<1>4. Holding \in [Places -> {Null} \cup LiveNodes]
  BY <1>2, <1>3 DEF Holding
<1>5. ASSUME NEW p \in Places, NEW q \in Places, What(p) # Null, What(p) = What(q)
      PROVE  p = q
  <2>1. CASE p = <<"root", 0, 0>>
    BY <1>3, <1>5, <2>1, WhatNow
  <2>2. CASE p[1] = "child" /\ p[2] \in DOMAIN heap /\ p[3] \in DOMAIN heap[p[2]].child
             /\ What(p) = heap[p[2]].child[p[3]] /\ What(p) # root
    <3>1. /\ q[1] = "child" /\ q[2] \in DOMAIN heap /\ q[3] \in DOMAIN heap[q[2]].child
          /\ What(q) = heap[q[2]].child[q[3]]
      BY <1>3, <1>5, <2>2
    <3>2. p[2] = q[2] /\ p[3] = q[3]
      <4>1. ASSUME NEW m1 \in DOMAIN heap, NEW m2 \in DOMAIN heap,
                   NEW k1 \in DOMAIN heap[m1].child, NEW k2 \in DOMAIN heap[m2].child,
                   heap[m1].child[k1] = heap[m2].child[k2]
            PROVE  m1 = m2 /\ k1 = k2
        BY <4>1, Zenon DEF IsPlan
      <4>2. heap[p[2]].child[p[3]] = heap[q[2]].child[q[3]]
        BY <1>5, <2>2, <3>1
      <4> QED
        <5>1. PICK m1, k1, m2, k2 : m1 = p[2] /\ k1 = p[3] /\ m2 = q[2] /\ k2 = q[3]
          OBVIOUS
        <5>2. /\ m1 \in DOMAIN heap /\ m2 \in DOMAIN heap
              /\ k1 \in DOMAIN heap[m1].child /\ k2 \in DOMAIN heap[m2].child
              /\ heap[m1].child[k1] = heap[m2].child[k2]
          BY <2>2, <3>1, <4>2, <5>1
        <5>3. m1 = m2 /\ k1 = k2
          BY <4>1, <5>2
        <5> QED
          BY <5>1, <5>3
    <3>3. p = <<p[1], p[2], p[3]>> /\ q = <<q[1], q[2], q[3]>>
      BY <1>3, <1>5
    <3> QED
      BY <2>2, <3>1, <3>2, <3>3
  <2> QED
    BY <1>3, <1>5, <2>1, <2>2
<1>6. ASSUME NEW n \in DOMAIN heap
      PROVE  \E p \in Places : What(p) = n
  <2>1. CASE n = root
    BY <2>1, SomePlaces, WhatNow
  <2>2. CASE n # root
    <3>1. PICK m \in DOMAIN heap : n \in ChildrenOf(heap, m)
      BY <1>1, <2>2
    <3>2. PICK k \in DOMAIN heap[m].child : heap[m].child[k] = n
      BY <3>1 DEF ChildrenOf
    <3>3. m \in Nat /\ k \in Nat
      BY <1>2
    <3> QED
      BY <3>2, <3>3, SomePlaces, WhatNow DEF ChildAt
  <2> QED
    BY <2>1, <2>2
<1>7. Owned(Holding, LiveNodes)
  BY <1>2, <1>4, <1>5, <1>6 DEF Owned, Holding
<1>8. HolesOK
  BY <1>1, <1>3 DEF HolesOK
<1> QED
  BY <1>7, <1>8 DEF OwnersOK

LEMMA OptimizerInvInit ==
  ASSUME OptimizerInit
  PROVE  OptimizerInv
<1> DEFINE none == <<>>
<1>1. /\ IsPlan(heap, root) /\ given.heap = heap
      /\ frames = none /\ ret = Null /\ passes = none /\ calls = 0 /\ custom_optimzers = none
      /\ outcome = "given"
  <2>1. PICK p \in GivenPlans : given = [heap |-> p.heap, root |-> p.root, passes |-> <<>>]
    BY DEF OptimizerInit
  <2>2. given.heap = p.heap /\ given.root = p.root
    BY <2>1
  <2> QED
    BY <2>2, GivenPlansAssumption DEF OptimizerInit, OptimizerIdle
<1>2. /\ heap \in Seq(HeapNodes) /\ root \in DOMAIN heap /\ Formed(heap) /\ Grounded(heap)
      /\ \A n \in DOMAIN heap : heap[n].kind # "Destroyed" /\ IsWhole(heap[n])
  BY <1>1, PlanReached
<1>3. /\ none \in Seq(FrameTypes) /\ none \in Seq({"choose", "push"})
      /\ DOMAIN none = {} /\ Len(none) = 0
  OBVIOUS
<1>4. OwnersOK
  BY <1>1, InitOwners
<1> HIDE DEF none
<1>5. FramesOK /\ TrieOK /\ HeapOK
  BY <1>1, <1>2, <1>3 DEF FramesOK, TrieOK, HeapOK
<1>6. StackOK
  <2>1. root # Null
    BY <1>2, NodesTyped DEF Null
  <2> QED
    BY <1>1, <1>2, <1>3, <2>1 DEF StackOK, none
<1>7. CallsOK
  BY <1>1, <1>3, MaxCallsAssumption DEF CallsOK
<1>8. SchemasOK
  <2> SUFFICES ASSUME NEW n \in DOMAIN heap
               PROVE  \E sc : SchemasFit(n, sc)
    BY DEF SchemasOK
  <2> DEFINE ch == heap[n].child
             sc == [k \in DOMAIN ch |-> heap[ch[k]].schema]
  <2>1. ch \in Seq(Nat) /\ Len(ch) \in Nat /\ DOMAIN ch = 1 .. Len(ch)
    BY <1>2, NodesTyped
  <2>2. \A k \in DOMAIN ch : heap[ch[k]].schema \in Schemas
    BY <1>1, <1>2, PlanChildren, NodesTyped
  <2>3. Fits(heap[n], sc)
    BY <1>1 DEF IsPlan
  <2>4. \A k \in DOMAIN ch : sc[k] = heap[ch[k]].schema
    OBVIOUS
  <2> HIDE DEF ch
  <2>5. sc \in [1 .. Len(ch) -> Schemas]
    BY <2>1, <2>2
  <2>6. sc \in Seq(Schemas) /\ Len(sc) = Len(ch)
    BY <2>1, <2>5, SeqTyped
  <2> HIDE DEF sc
  <2>7. NodeFits(heap, n, sc)
    BY <2>3, <2>4, <2>6 DEF NodeFits, ch
  <2> QED
    BY <1>1, <1>3, <2>7 DEF SchemasFit
<1>9. GivenOK
  <2>1. Len(heap) <= Len(heap)
    BY <1>2
  <2> QED
    BY <1>1, <1>2, <2>1 DEF GivenOK
<1> QED
  BY <1>2, <1>4, <1>5, <1>6, <1>7, <1>8, <1>9 DEF OptimizerInv, StructureOK

LEMMA OptimizerInvStep ==
  ASSUME OptimizerInv, [OptimizerNext]_optimizerVars
  PROVE  OptimizerInv'
<1>1. CASE ChooseScan
  BY <1>1, ChooseScanInv
<1>2. CASE ChooseChild
  BY <1>2, ChooseChildInv
<1>3. CASE ChooseSetChild
  BY <1>3, ChooseSetChildInv
<1>4. CASE ChooseJoinChild
  BY <1>4, ChooseJoinChildInv
<1>5. CASE ChooseJoin
  BY <1>5, ChooseJoinInv
<1>6. CASE ChooseJoinEnd
  BY <1>6, ChooseJoinEndInv
<1>7. CASE PushScan
  BY <1>7, PushScanInv
<1>8. CASE PushFilter
  BY <1>8, PushFilterInv
<1>9. CASE PushProjection
  BY <1>9, PushProjectionInv
<1>10. CASE PushProjectionEnd
  BY <1>10, PushProjectionEndInv
<1>11. CASE PushJoin
  BY <1>11, PushJoinInv
<1>12. CASE PushJoinThrow
  BY <1>12, FailInv DEF PushJoinThrow
<1>13. CASE PushJoinRight
  BY <1>13, PushJoinRightInv
<1>14. CASE PushJoinEnd
  BY <1>14, PushJoinEndInv
<1>15. CASE Wrap
  BY <1>15, WrapInv
<1>16. CASE WrapEnd
  BY <1>16, WrapEndInv
<1>17. CASE StartChoose
  BY <1>17, StartInv DEF StartChoose
<1>18. CASE StartPush
  BY <1>18, StartInv DEF StartPush
<1>19. CASE StartPushThrow
  BY <1>19, FailInv DEF StartPushThrow
<1>20. CASE optimize
  <2>1. custom_optimzers \in Seq({"choose", "push"})
    BY DEF OptimizerInv, StructureOK, CallsOK
  <2>2. <<"choose", "push">> \o custom_optimzers \in Seq({"choose", "push"})
    BY <2>1
  <2> QED
    BY <1>20, <2>2, CallInv DEF optimize
<1>21. CASE choose_join_sequence
  <2>1. <<"choose">> \in Seq({"choose", "push"})
    OBVIOUS
  <2> QED
    BY <1>21, <2>1, CallInv DEF choose_join_sequence
<1>22. CASE push_down_filter
  <2>1. <<"push">> \in Seq({"choose", "push"})
    OBVIOUS
  <2> QED
    BY <1>22, <2>1, CallInv DEF push_down_filter
<1>23. CASE register_optimzer
  BY <1>23, RegisterInv
<1>24. CASE UNCHANGED optimizerVars
  BY <1>24, RegisterInv
<1> QED
  BY <1>1, <1>2, <1>3, <1>4, <1>5, <1>6, <1>7, <1>8, <1>9, <1>10, <1>11, <1>12, <1>13, <1>14,
     <1>15, <1>16, <1>17, <1>18, <1>19, <1>20, <1>21, <1>22, <1>23, <1>24
     DEF OptimizerNext, OptimizerStep

(***************************************************************************)
(* optimizer.cpp: the invariant holds of every run of every pass, of any   *)
(* plans, calls and registered passes.                                     *)
(***************************************************************************)
THEOREM OptimizerInvariance == OptimizerSpec => []OptimizerInv
<1>1. OptimizerInit => OptimizerInv
  BY OptimizerInvInit
<1>2. OptimizerInv /\ [OptimizerNext]_optimizerVars => OptimizerInv'
  BY OptimizerInvStep
<1> QED
  BY <1>1, <1>2, PTL DEF OptimizerSpec

(***************************************************************************)
(* The owners that SingleOwner counts are the places of a node.            *)
(***************************************************************************)
\* Where a local stands in the list of all locals.
IndexOf(f, s, x) ==
  CASE s = "node" -> 1
    [] s = "cur"  -> 2
    [] s = "arr"  -> 2 + x
    [] s = "rgt"  -> 2 + Len(f.arr) + x
    [] s = "stay" -> 2 + Len(f.arr) + Len(f.rgt) + x

LEMMA IndexIs ==
  ASSUME NEW f, NEW x
  PROVE  /\ IndexOf(f, "node", x) = 1 /\ IndexOf(f, "cur", x) = 2 /\ IndexOf(f, "arr", x) = 2 + x
         /\ IndexOf(f, "rgt", x) = 2 + Len(f.arr) + x
         /\ IndexOf(f, "stay", x) = 2 + Len(f.arr) + Len(f.rgt) + x
BY DEF IndexOf

FourParts(q, n, c, s, t, u) ==
  /\ DOMAIN q = 1 .. 2 + Len(s) + Len(t) + Len(u)
  /\ q[1] = n /\ q[2] = c
  /\ \A k \in DOMAIN s : q[2 + k] = s[k]
  /\ \A k \in DOMAIN t : q[2 + Len(s) + k] = t[k]
  /\ \A k \in DOMAIN u : q[2 + Len(s) + Len(t) + k] = u[k]

(* Concatenation, part by part. *)
IsJoined(w, s, t) ==
  /\ w \in Seq(Nat) /\ Len(w) = Len(s) + Len(t) /\ DOMAIN w = 1 .. Len(s) + Len(t)
  /\ \A k \in 1 .. Len(s) : w[k] = s[k]
  /\ \A k \in 1 .. Len(t) : w[Len(s) + k] = t[k]

LEMMA TwoJoined ==
  ASSUME NEW s \in Seq(Nat), NEW t \in Seq(Nat)
  PROVE  IsJoined(s \o t, s, t)
<1>1. PICK w : w = s \o t
  OBVIOUS
<1>2. w \in Seq(Nat) /\ Len(w) = Len(s) + Len(t)
  BY <1>1
<1>3. DOMAIN w = 1 .. Len(s) + Len(t)
  BY <1>2
<1>4. \A k \in 1 .. Len(s) : w[k] = s[k]
  BY <1>1
<1>5. \A k \in 1 .. Len(t) : w[Len(s) + k] = t[k]
  BY <1>1
<1>6. IsJoined(w, s, t)
  BY <1>2, <1>3, <1>4, <1>5 DEF IsJoined
<1> QED
  BY <1>1, <1>6

LEMMA FourJoined ==
  ASSUME NEW n \in Nat, NEW c \in Nat, NEW s \in Seq(Nat), NEW t \in Seq(Nat), NEW u \in Seq(Nat)
  PROVE  FourParts(<<n, c>> \o s \o t \o u, n, c, s, t, u)
<1>0. <<n, c>> \in Seq(Nat)
  OBVIOUS
<1>1. PICK v \in Seq(Nat) : v = <<n, c>>
  BY <1>0
<1>2. Len(v) = 2 /\ v[1] = n /\ v[2] = c
  BY <1>1
<1>8. PICK w, x, y : w = v \o s /\ x = w \o t /\ y = x \o u
  OBVIOUS
<1>19. PICK a, b, d : a = Len(s) /\ b = Len(t) /\ d = Len(u)
  OBVIOUS
<1>9. /\ a = Len(s) /\ b = Len(t) /\ d = Len(u) /\ a \in Nat /\ b \in Nat /\ d \in Nat
      /\ DOMAIN s = 1 .. a /\ DOMAIN t = 1 .. b /\ DOMAIN u = 1 .. d
  BY <1>19
<1>3. IsJoined(w, v, s)
  BY <1>8, TwoJoined
<1>4. w \in Seq(Nat) /\ Len(w) = 2 + a
  BY <1>2, <1>3, <1>9 DEF IsJoined
<1>5. IsJoined(x, w, t)
  BY <1>4, <1>8, TwoJoined
<1>6. x \in Seq(Nat) /\ Len(x) = 2 + a + b
  BY <1>4, <1>5, <1>9 DEF IsJoined
<1>7. IsJoined(y, x, u)
  BY <1>6, <1>8, TwoJoined
<1>10. w[1] = n /\ w[2] = c /\ \A k \in 1 .. a : w[2 + k] = s[k]
  BY <1>2, <1>3, <1>9 DEF IsJoined
<1>11. (\A k \in 1 .. 2 + a : x[k] = w[k]) /\ \A k \in 1 .. b : x[2 + a + k] = t[k]
  BY <1>4, <1>5, <1>9 DEF IsJoined
<1>12. (\A k \in 1 .. 2 + a + b : y[k] = x[k]) /\ \A k \in 1 .. d : y[2 + a + b + k] = u[k]
  BY <1>6, <1>7, <1>9 DEF IsJoined
<1>13. DOMAIN y = 1 .. 2 + a + b + d
  BY <1>6, <1>7, <1>9 DEF IsJoined
<1>14. 1 \in 1 .. 2 + a /\ 2 \in 1 .. 2 + a /\ 1 \in 1 .. 2 + a + b /\ 2 \in 1 .. 2 + a + b
  BY <1>9
<1>15. y[1] = n /\ y[2] = c
  BY <1>10, <1>11, <1>12, <1>14
<1>16. ASSUME NEW k \in 1 .. a PROVE y[2 + k] = s[k]
  <2>1. 2 + k \in 1 .. 2 + a /\ 2 + k \in 1 .. 2 + a + b
    BY <1>9
  <2> QED
    BY <1>10, <1>11, <1>12, <2>1
<1>17. ASSUME NEW k \in 1 .. b PROVE y[2 + a + k] = t[k]
  <2>1. 2 + a + k \in 1 .. 2 + a + b
    BY <1>9
  <2> QED
    BY <1>11, <1>12, <2>1
<1>18. FourParts(y, n, c, s, t, u)
  BY <1>9, <1>12, <1>13, <1>15, <1>16, <1>17 DEF FourParts
<1> QED
  BY <1>1, <1>8, <1>18

ListsLocals(q, f, a, b, c) ==
  /\ DOMAIN q = 1 .. 2 + a + b + c /\ q[1] = f.node /\ q[2] = f.cur
  /\ \A k \in DOMAIN f.arr : q[2 + k] = f.arr[k].filter
  /\ \A k \in DOMAIN f.rgt : q[2 + a + k] = f.rgt[k].filter
  /\ \A k \in DOMAIN f.stay : q[2 + a + b + k] = f.stay[k]
  /\ DOMAIN f.arr = 1 .. a /\ DOMAIN f.rgt = 1 .. b /\ DOMAIN f.stay = 1 .. c
  /\ a \in Nat /\ b \in Nat /\ c \in Nat

LEMMA LocalsAre ==
  ASSUME NEW f \in FrameTypes
  PROVE  ListsLocals(Locals(f), f, Len(f.arr), Len(f.rgt), Len(f.stay))
<1>1. /\ f.node \in Nat /\ f.cur \in Nat /\ f.arr \in Seq(FilterEntries)
      /\ f.rgt \in Seq(FilterEntries) /\ f.stay \in Seq(Nat)
  BY FrameTyped
<1>0. PICK s, t, u : s = FiltersOf(f.arr) /\ t = FiltersOf(f.rgt) /\ u = f.stay
  OBVIOUS
<1>2. /\ s \in Seq(Nat) /\ Len(s) = Len(f.arr) /\ DOMAIN s = DOMAIN f.arr
      /\ \A k \in DOMAIN f.arr : s[k] = f.arr[k].filter
  BY <1>0, <1>1, FiltersAre
<1>3. /\ t \in Seq(Nat) /\ Len(t) = Len(f.rgt) /\ DOMAIN t = DOMAIN f.rgt
      /\ \A k \in DOMAIN f.rgt : t[k] = f.rgt[k].filter
  BY <1>0, <1>1, FiltersAre
<1>4. PICK q : q = <<f.node, f.cur>> \o s \o t \o u
  OBVIOUS
<1>5. q = Locals(f)
  BY <1>0, <1>4 DEF Locals
<1>6. FourParts(q, f.node, f.cur, s, t, u)
  BY <1>0, <1>1, <1>2, <1>3, <1>4, FourJoined
<1>7. /\ DOMAIN f.arr = 1 .. Len(f.arr) /\ DOMAIN f.rgt = 1 .. Len(f.rgt)
      /\ DOMAIN f.stay = 1 .. Len(f.stay)
      /\ Len(f.arr) \in Nat /\ Len(f.rgt) \in Nat /\ Len(f.stay) \in Nat
  BY <1>1
<1>8. PICK a, b, c : a = Len(f.arr) /\ b = Len(f.rgt) /\ c = Len(f.stay)
  OBVIOUS
<1>9. Len(s) = a /\ Len(t) = b /\ Len(u) = c
  BY <1>0, <1>2, <1>3, <1>8
<1>10. /\ DOMAIN q = 1 .. 2 + a + b + c /\ q[1] = f.node /\ q[2] = f.cur
       /\ \A k \in DOMAIN s : q[2 + k] = s[k]
       /\ \A k \in DOMAIN t : q[2 + a + k] = t[k]
       /\ \A k \in DOMAIN u : q[2 + a + b + k] = u[k]
  BY <1>6, <1>9 DEF FourParts
<1>11. \A k \in DOMAIN f.arr : q[2 + k] = f.arr[k].filter
  BY <1>2, <1>10
<1>12. \A k \in DOMAIN f.rgt : q[2 + a + k] = f.rgt[k].filter
  BY <1>3, <1>10
<1>13. \A k \in DOMAIN f.stay : q[2 + a + b + k] = f.stay[k]
  BY <1>0, <1>10
<1>14. ListsLocals(q, f, a, b, c)
  BY <1>7, <1>8, <1>10, <1>11, <1>12, <1>13 DEF ListsLocals
<1> QED
  BY <1>5, <1>8, <1>14

LEMMA LocalListed ==
  ASSUME NEW f \in FrameTypes
  PROVE  /\ \A k \in DOMAIN Locals(f) :
              \E s \in Slots, x \in Nat : Locals(f)[k] = LocalAt(f, s, x) /\ k = IndexOf(f, s, x)
         /\ \A s \in Slots, x \in Nat : LocalAt(f, s, x) # Null =>
              /\ IndexOf(f, s, x) \in DOMAIN Locals(f)
              /\ Locals(f)[IndexOf(f, s, x)] = LocalAt(f, s, x)
<1>0. PICK a, b, c, q : a = Len(f.arr) /\ b = Len(f.rgt) /\ c = Len(f.stay) /\ q = Locals(f)
  OBVIOUS
<1>1. /\ DOMAIN q = 1 .. 2 + a + b + c /\ q[1] = f.node /\ q[2] = f.cur
      /\ \A k \in DOMAIN f.arr : q[2 + k] = f.arr[k].filter
      /\ \A k \in DOMAIN f.rgt : q[2 + a + k] = f.rgt[k].filter
      /\ \A k \in DOMAIN f.stay : q[2 + a + b + k] = f.stay[k]
      /\ DOMAIN f.arr = 1 .. a /\ DOMAIN f.rgt = 1 .. b /\ DOMAIN f.stay = 1 .. c
      /\ a \in Nat /\ b \in Nat /\ c \in Nat
  BY <1>0, LocalsAre DEF ListsLocals
<1>5. a \in Nat /\ b \in Nat /\ c \in Nat
  BY <1>1
<1>8. DOMAIN f.arr = 1 .. a /\ DOMAIN f.rgt = 1 .. b /\ DOMAIN f.stay = 1 .. c
  BY <1>1
<1>9. /\ \A k \in DOMAIN f.arr : q[2 + k] = f.arr[k].filter
      /\ \A k \in DOMAIN f.rgt : q[2 + a + k] = f.rgt[k].filter
      /\ \A k \in DOMAIN f.stay : q[2 + a + b + k] = f.stay[k]
  BY <1>1
<1>6. q[1] = f.node /\ q[2] = f.cur /\ 1 \in DOMAIN q /\ 2 \in DOMAIN q
  BY <1>1
<1>7. \A x \in Nat : /\ IndexOf(f, "arr", x) = 2 + x /\ IndexOf(f, "rgt", x) = 2 + a + x
                     /\ IndexOf(f, "stay", x) = 2 + a + b + x
                     /\ IndexOf(f, "node", x) = 1 /\ IndexOf(f, "cur", x) = 2
  BY <1>0, IndexIs
<1>2. ASSUME NEW k \in 1 .. 2 + a + b + c
      PROVE  \/ k = 1 \/ k = 2 \/ (\E x \in 1 .. a : k = 2 + x) \/ (\E x \in 1 .. b : k = 2 + a + x)
             \/ \E x \in 1 .. c : k = 2 + a + b + x
  <2>1. CASE k <= 2
    BY <1>5, <2>1
  <2>2. CASE k > 2 /\ k <= 2 + a
    <3>1. k - 2 \in 1 .. a /\ k = 2 + (k - 2)
      BY <1>5, <2>2
    <3> QED
      BY <3>1
  <2>3. CASE k > 2 + a /\ k <= 2 + a + b
    <3>1. k - 2 - a \in 1 .. b /\ k = 2 + a + (k - 2 - a)
      BY <1>5, <2>3
    <3> QED
      BY <3>1
  <2>4. CASE k > 2 + a + b
    <3>1. k - 2 - a - b \in 1 .. c /\ k = 2 + a + b + (k - 2 - a - b)
      BY <1>5, <2>4
    <3> QED
      BY <3>1
  <2> QED
    BY <1>5, <2>1, <2>2, <2>3, <2>4
<1>3. ASSUME NEW k \in DOMAIN q
      PROVE  \E s \in Slots, x \in Nat : q[k] = LocalAt(f, s, x) /\ k = IndexOf(f, s, x)
  <2>1. CASE k = 1
    BY <1>6, <1>7, <2>1, LocalIs DEF Slots
  <2>2. CASE k = 2
    BY <1>6, <1>7, <2>2, LocalIs DEF Slots
  <2>3. ASSUME NEW x \in 1 .. a, k = 2 + x
        PROVE  q[k] = LocalAt(f, "arr", x) /\ k = IndexOf(f, "arr", x)
    <3>0. x \in Nat /\ x \in DOMAIN f.arr
      BY <1>8
    <3>1. x \in Nat /\ x \in DOMAIN f.arr /\ q[2 + x] = f.arr[x].filter
      BY <1>9, <3>0
    <3>2. LocalAt(f, "arr", x) = f.arr[x].filter /\ k = IndexOf(f, "arr", x)
      BY <1>7, <2>3, <3>1, LocalIs
    <3> QED
      BY <2>3, <3>1, <3>2
  <2>4. ASSUME NEW x \in 1 .. b, k = 2 + a + x
        PROVE  q[k] = LocalAt(f, "rgt", x) /\ k = IndexOf(f, "rgt", x)
    <3>0. x \in Nat /\ x \in DOMAIN f.rgt
      BY <1>8
    <3>1. x \in Nat /\ x \in DOMAIN f.rgt /\ q[2 + a + x] = f.rgt[x].filter
      BY <1>9, <3>0
    <3>2. LocalAt(f, "rgt", x) = f.rgt[x].filter /\ k = IndexOf(f, "rgt", x)
      BY <1>7, <2>4, <3>1, LocalIs
    <3> QED
      BY <2>4, <3>1, <3>2
  <2>5. ASSUME NEW x \in 1 .. c, k = 2 + a + b + x
        PROVE  q[k] = LocalAt(f, "stay", x) /\ k = IndexOf(f, "stay", x)
    <3>0. x \in Nat /\ x \in DOMAIN f.stay
      BY <1>8
    <3>1. x \in Nat /\ x \in DOMAIN f.stay /\ q[2 + a + b + x] = f.stay[x]
      BY <1>9, <3>0
    <3>2. LocalAt(f, "stay", x) = f.stay[x] /\ k = IndexOf(f, "stay", x)
      BY <1>7, <2>5, <3>1, LocalIs
    <3> QED
      BY <2>5, <3>1, <3>2
  <2> QED
    <3>1. \A s \in Carried, m \in Nat : \A x \in 1 .. m : s \in Slots /\ x \in Nat
      BY DEF Slots
    <3>2. "arr" \in Carried /\ "rgt" \in Carried /\ "stay" \in Carried
      BY DEF Carried
    <3>3. k \in 1 .. 2 + a + b + c
      BY <1>1
    <3> QED
      BY <1>2, <1>5, <2>1, <2>2, <2>3, <2>4, <2>5, <3>1, <3>2, <3>3
<1>4. ASSUME NEW s \in Slots, NEW x \in Nat, LocalAt(f, s, x) # Null
      PROVE  IndexOf(f, s, x) \in DOMAIN q /\ q[IndexOf(f, s, x)] = LocalAt(f, s, x)
  <2>1. CASE s = "node"
    BY <1>4, <1>6, <1>7, <2>1, LocalIs
  <2>2. CASE s = "cur"
    BY <1>4, <1>6, <1>7, <2>2, LocalIs
  <2>3. CASE s = "arr"
    <3>1. /\ x \in 1 .. a /\ x \in DOMAIN f.arr
          /\ LocalAt(f, s, x) = f.arr[x].filter /\ IndexOf(f, s, x) = 2 + x
      BY <1>1, <1>4, <2>3, <1>7, LocalIs
    <3>2. 2 + x \in 1 .. 2 + a + b + c
      BY <1>5, <3>1
    <3>3. 2 + x \in DOMAIN q /\ q[2 + x] = f.arr[x].filter
      BY <1>1, <3>1, <3>2
    <3> QED
      BY <3>1, <3>3
  <2>4. CASE s = "rgt"
    <3>1. /\ x \in 1 .. b /\ x \in DOMAIN f.rgt
          /\ LocalAt(f, s, x) = f.rgt[x].filter /\ IndexOf(f, s, x) = 2 + a + x
      BY <1>1, <1>4, <2>4, <1>7, LocalIs
    <3>2. 2 + a + x \in 1 .. 2 + a + b + c
      BY <1>5, <3>1
    <3>3. 2 + a + x \in DOMAIN q /\ q[2 + a + x] = f.rgt[x].filter
      BY <1>1, <3>1, <3>2
    <3> QED
      BY <3>1, <3>3
  <2>5. CASE s = "stay"
    <3>1. /\ x \in 1 .. c /\ x \in DOMAIN f.stay
          /\ LocalAt(f, s, x) = f.stay[x] /\ IndexOf(f, s, x) = 2 + a + b + x
      BY <1>1, <1>4, <2>5, <1>7, LocalIs
    <3>2. 2 + a + b + x \in 1 .. 2 + a + b + c
      BY <1>5, <3>1
    <3>3. 2 + a + b + x \in DOMAIN q /\ q[2 + a + b + x] = f.stay[x]
      BY <1>1, <3>1, <3>2
    <3> QED
      BY <3>1, <3>3
  <2> QED
    BY <2>1, <2>2, <2>3, <2>4, <2>5 DEF Slots, Carried
<1> QED
  BY <1>0, <1>3, <1>4

\* The owner that a place stands for.
Holder(p) ==
  IF p[1] \in Slots THEN <<"local", p[2], IndexOf(frames[p[2]], p[1], p[3])>> ELSE p

\* Owners(n), case by case.
OwnsIt(o, n) ==
  \/ \E m \in DOMAIN heap : \E k \in DOMAIN heap[m].child :
       heap[m].child[k] = n /\ o = <<"child", m, k>>
  \/ \E i \in DOMAIN frames : \E k \in DOMAIN Locals(frames[i]) :
       Locals(frames[i])[k] = n /\ o = <<"local", i, k>>
  \/ root = n /\ o = <<"root", 0, 0>>
  \/ ret = n /\ o = <<"ret", 0, 0>>

LEMMA OwnersListed ==
  ASSUME NEW n, NEW o
  PROVE  o \in Owners(n) <=> OwnsIt(o, n)
<1>1. o \in UNION {{<<"child", m, k>> : k \in {i \in DOMAIN heap[m].child : heap[m].child[i] = n}} :
                     m \in DOMAIN heap}
      <=> \E m \in DOMAIN heap : \E k \in DOMAIN heap[m].child :
            heap[m].child[k] = n /\ o = <<"child", m, k>>
  OBVIOUS
<1>2. o \in UNION {{<<"local", i, k>> :
                       k \in {j \in DOMAIN Locals(frames[i]) : Locals(frames[i])[j] = n}} :
                     i \in DOMAIN frames}
      <=> \E i \in DOMAIN frames : \E k \in DOMAIN Locals(frames[i]) :
            Locals(frames[i])[k] = n /\ o = <<"local", i, k>>
  OBVIOUS
<1>3. o \in {<<"root", 0, 0>> : x \in {p \in {root} : p = n}} <=> root = n /\ o = <<"root", 0, 0>>
  OBVIOUS
<1>4. o \in {<<"ret", 0, 0>> : x \in {p \in {ret} : p = n}} <=> ret = n /\ o = <<"ret", 0, 0>>
  OBVIOUS
<1> QED
  BY <1>1, <1>2, <1>3, <1>4 DEF Owners, OwnsIt

LEMMA OwnersAre ==
  ASSUME HeapOK, FramesOK, NEW n \in DOMAIN heap
  PROVE  /\ \A o \in Owners(n) : \E p \in Places : What(p) = n /\ o = Holder(p)
         /\ \A p \in Places : What(p) = n => Holder(p) \in Owners(n)
<1>0. n # Null /\ "child" \notin Slots /\ "root" \notin Slots /\ "ret" \notin Slots
  BY NodesTyped DEF HeapOK, Formed, Null, Slots, Carried
<1>1. /\ \A m \in DOMAIN heap : m \in Nat /\ \A k \in DOMAIN heap[m].child : k \in Nat
      /\ \A i \in DOMAIN frames : i \in Nat /\ frames[i] \in FrameTypes
  <2>1. ASSUME NEW m \in DOMAIN heap
        PROVE  m \in Nat /\ heap[m].child \in Seq(Nat)
    BY NodesTyped DEF HeapOK, Formed
  <2>2. ASSUME NEW m \in DOMAIN heap, NEW k \in DOMAIN heap[m].child
        PROVE  k \in Nat
    BY <2>1
  <2> QED
    BY <2>1, <2>2 DEF FramesOK
<1>2. ASSUME NEW o \in Owners(n)
      PROVE  \E p \in Places : What(p) = n /\ o = Holder(p)
  <2>1. OwnsIt(o, n)
    BY OwnersListed
  <2>2. CASE root = n /\ o = <<"root", 0, 0>>
    BY <1>0, <2>2, SomePlaces, WhatNow DEF Holder
  <2>3. CASE ret = n /\ o = <<"ret", 0, 0>>
    BY <1>0, <2>3, SomePlaces, WhatNow DEF Holder
  <2>4. ASSUME NEW m \in DOMAIN heap, NEW k \in DOMAIN heap[m].child,
               heap[m].child[k] = n, o = <<"child", m, k>>
        PROVE  \E p \in Places : What(p) = n /\ o = Holder(p)
    <3>1. o \in Places
      BY <1>1, <2>4, SomePlaces
    <3>2. What(o) = n
      BY <2>4, WhatNow DEF ChildAt
    <3>3. o[1] = "child"
      BY <2>4
    <3> QED
      BY <1>0, <3>1, <3>2, <3>3 DEF Holder
  <2>5. ASSUME NEW i \in DOMAIN frames, NEW k \in DOMAIN Locals(frames[i]),
               Locals(frames[i])[k] = n, o = <<"local", i, k>>
        PROVE  \E p \in Places : What(p) = n /\ o = Holder(p)
    <3>1. PICK f : f = frames[i]
      OBVIOUS
    <3>2. f \in FrameTypes /\ k \in DOMAIN Locals(f) /\ Locals(f)[k] = n
      BY <1>1, <2>5, <3>1
    <3>3. PICK s \in Slots, x \in Nat : Locals(f)[k] = LocalAt(f, s, x) /\ k = IndexOf(f, s, x)
      BY <3>2, LocalListed
    <3>4. PICK p : p = <<s, i, x>>
      OBVIOUS
    <3>5. p \in Places /\ What(p) = FrameAt(frames, s, i, x)
      BY <1>1, <3>4, SomePlaces, WhatNow
    <3>6. What(p) = n
      BY <3>1, <3>2, <3>3, <3>5 DEF FrameAt
    <3>7. Holder(p) = o
      BY <2>5, <3>1, <3>3, <3>4 DEF Holder
    <3> QED
      BY <3>5, <3>6, <3>7
  <2> QED
    BY <2>1, <2>2, <2>3, <2>4, <2>5 DEF OwnsIt
<1>3. ASSUME NEW p \in Places, What(p) = n
      PROVE  Holder(p) \in Owners(n)
  <2>0. p = <<p[1], p[2], p[3]>> /\ p[2] \in Nat /\ p[3] \in Nat
    BY PlaceIs
  <2>1. CASE p = <<"root", 0, 0>>
    <3>1. root = n /\ Holder(p) = p
      BY <1>0, <1>3, <2>1, WhatNow DEF Holder
    <3> QED
      BY <2>1, <3>1, OwnersListed DEF OwnsIt
  <2>2. CASE p = <<"ret", 0, 0>>
    <3>1. ret = n /\ Holder(p) = p
      BY <1>0, <1>3, <2>2, WhatNow DEF Holder
    <3> QED
      BY <2>2, <3>1, OwnersListed DEF OwnsIt
  <2>3. CASE p[1] = "child"
    <3>1. Holder(p) = p /\ ChildAt(heap, p[2], p[3]) = n /\ p = <<"child", p[2], p[3]>>
      BY <1>0, <1>3, <2>0, <2>3, WhatNow DEF Holder
    <3>2. p[2] \in DOMAIN heap /\ p[3] \in DOMAIN heap[p[2]].child /\ heap[p[2]].child[p[3]] = n
      BY <1>0, <3>1 DEF ChildAt
    <3>3. OwnsIt(p, n)
      BY <3>1, <3>2 DEF OwnsIt
    <3> QED
      BY <3>1, <3>3, OwnersListed
  <2>4. CASE p[1] \in Slots
    <3>1. PICK s, i, x : s = p[1] /\ i = p[2] /\ x = p[3]
      OBVIOUS
    <3>2. s \in Slots /\ x \in Nat /\ p = <<s, i, x>>
      BY <2>0, <2>4, <3>1
    <3>3. FrameAt(frames, s, i, x) = n
      BY <1>3, <3>2, WhatNow
    <3>4. i \in DOMAIN frames /\ LocalAt(frames[i], s, x) = n
      BY <1>0, <3>3 DEF FrameAt
    <3>5. PICK f : f = frames[i]
      OBVIOUS
    <3>6. f \in FrameTypes /\ LocalAt(f, s, x) = n
      BY <1>1, <3>4, <3>5
    <3>7. IndexOf(f, s, x) \in DOMAIN Locals(f) /\ Locals(f)[IndexOf(f, s, x)] = n
      BY <1>0, <3>2, <3>6, LocalListed
    <3>8. Holder(p) = <<"local", i, IndexOf(f, s, x)>>
      BY <3>1, <3>2, <3>5 DEF Holder
    <3>9. OwnsIt(Holder(p), n)
      BY <3>4, <3>5, <3>7, <3>8 DEF OwnsIt
    <3> QED
      BY <3>9, OwnersListed
  <2> QED
    BY <2>1, <2>2, <2>3, <2>4, PlaceIs
<1> QED
  BY <1>2, <1>3

LEMMA OneOwner ==
  ASSUME StructureOK, OwnersOK, NEW n \in DOMAIN heap
  PROVE  Cardinality(Owners(n)) = IF Live(n) THEN 1 ELSE 0
<1>1. /\ \A o \in Owners(n) : \E p \in Places : What(p) = n /\ o = Holder(p)
      /\ \A p \in Places : What(p) = n => Holder(p) \in Owners(n)
  BY OwnersAre DEF StructureOK
<1>2. n # Null
  BY NodesTyped DEF StructureOK, HeapOK, Formed, Null
<1>3. /\ \A p \in Places : What(p) \in {Null} \cup LiveNodes
      /\ \A p, q \in Places : (What(p) # Null /\ What(p) = What(q)) => p = q
      /\ \A m \in LiveNodes : \E p \in Places : What(p) = m
  BY DEF OwnersOK, Owned, Holding
<1>4. CASE Live(n)
  <2>1. PICK p \in Places : What(p) = n
    BY <1>3, <1>4 DEF LiveNodes
  <2>2. \A o \in Owners(n) : o = Holder(p)
    BY <1>1, <1>2, <1>3, <2>1
  <2>3. Owners(n) = {Holder(p)}
    BY <1>1, <2>1, <2>2
  <2> QED
    BY <1>4, <2>3, FS_Singleton
<1>5. CASE ~Live(n)
  <2>1. Owners(n) = {}
    BY <1>1, <1>2, <1>3, <1>5 DEF LiveNodes
  <2> QED
    BY <1>5, <2>1, FS_EmptySet
<1> QED
  BY <1>4, <1>5

LEMMA TypesHold ==
  ASSUME StructureOK
  PROVE  OptimizerTypeOK
<1> DEFINE Activations ==
             [pass : {"choose", "push"}, node : DOMAIN heap,
              at : {"enter", "child", "left", "right", "wrap"},
              cur : {Null} \cup DOMAIN heap, done : Nat,
              arr : Seq(FilterEntries), rgt : Seq(FilterEntries), stay : Seq(Nat)]
<1>1. ASSUME NEW i \in DOMAIN frames
      PROVE  frames[i] \in Activations
  <2>1. PICK f : f = frames[i]
    OBVIOUS
  <2>2. f \in FrameTypes /\ f.node \in DOMAIN heap /\ f.cur \in {Null} \cup DOMAIN heap
    BY <2>1 DEF StructureOK, FramesOK, FrameOK
  <2>3. f \in Activations
    BY <2>2 DEF FrameTypes
  <2> QED
    BY <2>1, <2>3
<1>2. frames \in Seq(FrameTypes)
  BY DEF StructureOK, FramesOK
<1> HIDE DEF Activations
<1>3. frames \in Seq(Activations)
  BY <1>1, <1>2
<1> QED
  BY <1>3 DEF OptimizerTypeOK, Activations, StructureOK, HeapOK, Formed, StackOK, CallsOK

(***************************************************************************)
(* The property SingleOwner: whatever the plan, every node has exactly one *)
(* owner between any two moves of a unique_ptr, and a destroyed one none.  *)
(***************************************************************************)
THEOREM OptimizerSingleOwner == OptimizerSpec => []SingleOwner
<1>1. OptimizerInv => SingleOwner
  BY OneOwner, TypesHold DEF OptimizerInv, SingleOwner
<1> QED
  BY <1>1, OptimizerInvariance, PTL

-----------------------------------------------------------------------------
LEMMA FreshSchema ==
  ASSUME NEW h \in Seq(HeapNodes), NEW n \in DOMAIN h, ArityOK(h[n]),
         h[n].kind \in {"Filter", "Projection", "BinaryJoin"}, Null \notin ChildrenOf(h, n),
         NEW sc, NodeFits(h, n, sc)
  PROVE  h[n].schema = OutputSchema(h, n)
<1>1. /\ sc \in Seq(Schemas) /\ Len(sc) = Len(h[n].child) /\ Fits(h[n], sc)
      /\ \A k \in DOMAIN h[n].child : h[n].child[k] # Null => sc[k] = h[h[n].child[k]].schema
  BY DEF NodeFits
<1>2. h[n].child \in Seq(Nat) /\ h[n].schema \in Schemas
  BY NodesTyped
<1>3. \A k \in DOMAIN h[n].child : h[h[n].child[k]].schema = sc[k]
  BY <1>1 DEF ChildrenOf
<1>4. Len(h[n].child) \in {1, 2} /\ DOMAIN h[n].child = 1 .. Len(h[n].child)
      /\ (h[n].kind = "BinaryJoin" => Len(h[n].child) = 2)
  BY <1>2 DEF ArityOK
<1>5. 1 \in DOMAIN h[n].child /\ (h[n].kind = "BinaryJoin" => 2 \in DOMAIN h[n].child)
  <2>1. 1 \in 1 .. 1 /\ 1 \in 1 .. 2 /\ 2 \in 1 .. 2
    OBVIOUS
  <2> QED
    BY <1>4, <2>1, Zenon
<1>6. /\ h[h[n].child[1]].schema = sc[1]
      /\ h[n].kind = "BinaryJoin" => h[h[n].child[2]].schema = sc[2]
  BY <1>3, <1>5
<1>7. CASE h[n].kind = "Filter"
  BY <1>1, <1>6, <1>7 DEF OutputSchema, FilterSchema, Fits
<1>8. CASE h[n].kind = "BinaryJoin"
  BY <1>1, <1>6, <1>8 DEF OutputSchema, JoinSchema, Fits
<1>9. CASE h[n].kind = "Projection"
  <2> DEFINE sch == h[n].schema
             shc == sc[1]
  <2>1. shc \in Schemas
    <3>1. 1 \in DOMAIN sc
      BY <1>1, <1>4
    <3> QED
      BY <1>1, <3>1
  <2>2. \A i \in DOMAIN sch : HasColumn(shc, sch[i])
    BY <1>1, <1>9 DEF Fits
  <2>3. OutputSchema(h, n) = [i \in DOMAIN sch |-> shc[AttributeId(shc, sch[i])]]
    BY <1>6, <1>9 DEF OutputSchema, ProjectionSchema
  <2>4. sch \in Schemas
    BY <1>2
  <2> HIDE DEF sch, shc
  <2>5. \A i \in DOMAIN sch : shc[AttributeId(shc, sch[i])] = sch[i]
    BY <2>1, <2>2, ColumnFound
  <2>6. sch = [i \in DOMAIN sch |-> sch[i]]
    BY <2>4 DEF Schemas
  <2> QED
    BY <2>3, <2>5, <2>6 DEF sch
<1> QED
  BY <1>7, <1>8, <1>9

(***************************************************************************)
(* The property SchemasAreFresh: the schemas by which the operators        *)
(* resolve columns are those of the plan as it is now, at every moment at  *)
(* which a node has its children.                                          *)
(***************************************************************************)
THEOREM OptimizerSchemas == OptimizerSpec => []SchemasAreFresh
<1>1. ASSUME OptimizerInv, NEW n \in DOMAIN heap,
             heap[n].kind \in {"Filter", "Projection", "BinaryJoin"},
               Null \notin ChildrenOf(heap, n)
      PROVE  heap[n].schema = OutputSchema(heap, n)
  <2>1. heap \in Seq(HeapNodes) /\ ArityOK(heap[n])
    BY <1>1 DEF OptimizerInv, StructureOK, HeapOK, Formed
  <2>2. PICK sc : NodeFits(heap, n, sc)
    BY <1>1 DEF OptimizerInv, SchemasOK, SchemasFit, Live
  <2> QED
    BY <1>1, <2>1, <2>2, FreshSchema
<1>2. OptimizerInv => SchemasAreFresh
  BY <1>1 DEF SchemasAreFresh
<1> QED
  BY <1>2, OptimizerInvariance, PTL

-----------------------------------------------------------------------------
(***************************************************************************)
(* The plan that comes back.                                               *)
(***************************************************************************)
\* No child of the nodes of T is outside T.
Closed(h, T) == \A n \in T : ChildrenOf(h, n) \ {Null} \subseteq T

\* Tree() goes far enough: every round that is not the last adds a node.
LEMMA TreeClosed ==
  ASSUME NEW h \in Seq(HeapNodes), NEW r \in DOMAIN h,
         \A n \in DOMAIN h : ChildrenOf(h, n) \subseteq {Null} \cup DOMAIN h
  PROVE  r \in Tree(h, r) /\ Closed(h, Tree(h, r))
<1>0. PICK T, N : T = Reached(h, r) /\ N = Len(h)
  OBVIOUS
<1>1. N \in Nat /\ DOMAIN h = 1 .. N /\ Null \notin DOMAIN h
  BY <1>0 DEF Null
<1>2. /\ T[0] = {r}
      /\ \A k \in 1 .. N : T[k] = T[k - 1] \cup UNION {ChildrenOf(h, n) \ {Null} : n \in T[k - 1]}
      /\ \A k \in 0 .. N : T[k] \subseteq 1 .. N
  BY <1>0, <1>1, ReachedIs
<1>3. \A k \in 0 .. N : IsFiniteSet(T[k]) /\ Cardinality(T[k]) \in Nat /\ Cardinality(T[k]) <= N
  <2> SUFFICES ASSUME NEW k \in 0 .. N
               PROVE  IsFiniteSet(T[k]) /\ Cardinality(T[k]) \in Nat /\ Cardinality(T[k]) <= N
    OBVIOUS
  <2>1. IsFiniteSet(1 .. N) /\ Cardinality(1 .. N) = N
    BY <1>1, FS_Interval
  <2>2. T[k] \in SUBSET (1 .. N)
    BY <1>2
  <2>3. IsFiniteSet(T[k]) /\ Cardinality(T[k]) <= Cardinality(1 .. N)
    BY <2>1, <2>2, FS_Subset
  <2> QED
    BY <2>1, <2>3, FS_CardinalityType
<1> DEFINE Good == {k \in 0 .. N : r \in T[k] /\ (Closed(h, T[k]) \/ Cardinality(T[k]) > k)}
<1>4. 0 \in Good
  <2>1. 0 \in 0 .. N /\ r \in T[0]
    BY <1>1, <1>2
  <2>2. Cardinality(T[0]) = 1
    BY <1>2, FS_Singleton
  <2> QED
    BY <2>1, <2>2
<1>5. ASSUME NEW k \in 0 .. N - 1, k \in Good PROVE k + 1 \in Good
  <2>1. k + 1 \in 1 .. N /\ (k + 1) - 1 = k /\ k \in 0 .. N /\ k + 1 \in 0 .. N
    BY <1>1
  <2>2. T[k + 1] = T[k] \cup UNION {ChildrenOf(h, n) \ {Null} : n \in T[k]}
    BY <1>2, <2>1
  <2>3. r \in T[k + 1] /\ T[k] \subseteq T[k + 1]
    BY <1>5, <2>2
  <2>4. CASE Closed(h, T[k])
    <3>1. T[k + 1] = T[k]
      BY <2>2, <2>4 DEF Closed
    <3> QED
      BY <2>1, <2>3, <2>4, <3>1
  <2>5. CASE ~Closed(h, T[k])
    <3>1. PICK n \in T[k] : ~(ChildrenOf(h, n) \ {Null} \subseteq T[k])
      BY <2>5 DEF Closed
    <3>2. PICK c \in ChildrenOf(h, n) \ {Null} : c \notin T[k]
      BY <3>1
    <3>3. T[k] \cup {c} \in SUBSET T[k + 1]
      BY <2>2, <3>2
    <3>4. Cardinality(T[k] \cup {c}) = Cardinality(T[k]) + 1
      BY <1>3, <2>1, <3>2, FS_AddElement
    <3>5. Cardinality(T[k] \cup {c}) <= Cardinality(T[k + 1])
      BY <1>3, <2>1, <3>3, FS_Subset
    <3>6. Cardinality(T[k]) > k /\ Cardinality(T[k]) \in Nat /\ Cardinality(T[k + 1]) \in Nat
      BY <1>3, <1>5, <2>1, <2>5
    <3>7. Cardinality(T[k + 1]) > k + 1
      BY <2>1, <3>4, <3>5, <3>6
    <3> QED
      BY <2>1, <2>3, <3>7
  <2> QED
    BY <2>4, <2>5
<1> HIDE DEF Good
<1>6. 0 .. N \subseteq Good
  BY <1>1, <1>4, <1>5, IntervalInductionSet
<1>7. N \in Good /\ N \in 0 .. N
  BY <1>1, <1>6
<1>8. r \in T[N] /\ (Closed(h, T[N]) \/ Cardinality(T[N]) > N)
  BY <1>7 DEF Good
<1>9. ~(Cardinality(T[N]) > N)
  BY <1>1, <1>3, <1>7
<1> QED
  BY <1>0, <1>8, <1>9 DEF Tree

\* Between calls every live node is in the plan.
LEMMA AllInClosed ==
  ASSUME StructureOK, OwnersOK, Grounded(heap), frames = <<>>,
         NEW T, root \in T, Closed(heap, T)
  PROVE  LiveNodes \subseteq T
<1>1. /\ heap \in Seq(HeapNodes) /\ ret = Null
      /\ \A n \in DOMAIN heap : ArityOK(heap[n])
  BY DEF StructureOK, StackOK, HeapOK, Formed
<1>2. root \in T /\ Closed(heap, T)
  OBVIOUS
<1>3. PICK S : S = LiveNodes \ T
  OBVIOUS
<1>4. ASSUME NEW n \in S PROVE \E m \in S : n \in ChildrenOf(heap, m)
  <2>1. n \in LiveNodes /\ n \in DOMAIN heap /\ n # Null /\ n # root
    BY <1>2, <1>3 DEF LiveNodes, OwnersOK, Owned
  <2>2. PICK p \in Places : What(p) = n
    BY <2>1 DEF OwnersOK, Owned, Holding
  <2>3. p[1] = "child"
    <3>1. p # <<"root", 0, 0>> /\ p # <<"ret", 0, 0>>
      BY <1>1, <2>1, <2>2, WhatNow
    <3>2. CASE p[1] \in Slots
      <4>1. FrameAt(frames, p[1], p[2], p[3]) = n
        BY <2>2, <3>2, PlaceIs, WhatNow
      <4>2. DOMAIN frames = {}
        OBVIOUS
      <4> QED
        BY <2>1, <4>1, <4>2 DEF FrameAt
    <3> QED
      BY <3>1, <3>2, PlaceIs
  <2>4. ChildAt(heap, p[2], p[3]) = n
    BY <2>2, <2>3, PlaceIs, WhatNow
  <2>5. PICK m, k : m = p[2] /\ k = p[3]
    OBVIOUS
  <2>6. m \in DOMAIN heap /\ k \in DOMAIN heap[m].child /\ heap[m].child[k] = n
    BY <2>1, <2>4, <2>5 DEF ChildAt
  <2>7. n \in ChildrenOf(heap, m)
    BY <2>6 DEF ChildrenOf
  <2>8. m \in LiveNodes
    <3>1. heap[m].child \in Seq(Nat)
      BY <1>1, <2>6, NodesTyped
    <3>2. Len(heap[m].child) # 0
      BY <2>6, <3>1
    <3> QED
      BY <1>1, <2>6, <3>2 DEF ArityOK, LiveNodes, Live
  <2>9. m \notin T
    BY <1>2, <1>3, <2>1, <2>7 DEF Closed
  <2> QED
    BY <1>3, <2>7, <2>8, <2>9
<1>5. S \in SUBSET DOMAIN heap
  BY <1>3 DEF LiveNodes
<1>6. S = {}
  BY <1>4, <1>5, Zenon DEF Grounded
<1> QED
  BY <1>3, <1>6

LEMMA AllInTree ==
  ASSUME StructureOK, OwnersOK, Grounded(heap), frames = <<>>, outcome # "threw"
  PROVE  LiveNodes \subseteq Tree(heap, root)
<1>1. /\ heap \in Seq(HeapNodes) /\ root \in DOMAIN heap
      /\ \A n \in DOMAIN heap : ChildrenOf(heap, n) \subseteq {Null} \cup DOMAIN heap
  BY DEF StructureOK, StackOK, HeapOK, Formed, ChildrenOf
<1>2. root \in Tree(heap, root) /\ Closed(heap, Tree(heap, root))
  BY <1>1, TreeClosed
<1> QED
  BY <1>2, AllInClosed

(***************************************************************************)
(* The property NothingIsLost: however deep the plan and however the       *)
(* filters were dealt out, when the passes have returned every scan,       *)
(* filter, projection and join that was given is below the root again.     *)
(***************************************************************************)
THEOREM OptimizerKeepsAll == OptimizerSpec => []NothingIsLost
<1>1. ASSUME OptimizerInv, Settled, NEW n \in DOMAIN given.heap,
             given.heap[n].kind \notin {"MultiJoin", "Destroyed"}
      PROVE  Kept(n)
  <2>1. StructureOK /\ OwnersOK /\ Grounded(heap) /\ GivenOK /\ frames = <<>> /\ outcome # "threw"
    BY <1>1 DEF OptimizerInv, Settled, Busy
  <2>2. /\ heap[n].cond = given.heap[n].cond /\ heap[n].rel = given.heap[n].rel
        /\ heap[n].kind = given.heap[n].kind
    BY <1>1, <2>1 DEF GivenOK
  <2>3. n \in DOMAIN heap
    <3>1. heap \in Seq(HeapNodes) /\ given.heap \in Seq(HeapNodes) /\ Len(given.heap) <= Len(heap)
      BY <2>1 DEF GivenOK, StructureOK, HeapOK, Formed
    <3> QED
      BY <1>1, <3>1
  <2>4. n \in LiveNodes
    BY <1>1, <2>2, <2>3 DEF LiveNodes, Live
  <2> QED
    BY <2>1, <2>2, <2>4, AllInTree DEF Kept
<1>2. OptimizerInv => NothingIsLost
  BY <1>1 DEF NothingIsLost
<1> QED
  BY <1>2, OptimizerInvariance, PTL

=============================================================================
