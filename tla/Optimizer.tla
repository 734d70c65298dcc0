----------------------------- MODULE Optimizer -----------------------------
(***************************************************************************)
(* Optimizer (include/optimizer/optimizer.h, src/optimizer/optimizer.cpp): *)
(* two recursive passes that rewrite a plan in place.                      *)
(*                                                                         *)
(*   choose_join_sequence  replaces every multi-way join by a left-deep    *)
(*                         tree of binary joins;                           *)
(*   push_down_filter      takes the filters out of the plan on the way    *)
(*                         down and puts each one back as low as it may.   *)
(*                                                                         *)
(* `frames' is the call stack of the pass that is running.  The ownership  *)
(* of a node moves between children, locals, arguments and results, and    *)
(* must end in the plan again.  A custom optimizer (register_optimzer) is  *)
(* a function of the client; here it is one of the two public passes.      *)
(***************************************************************************)
EXTENDS PlanHeap

CONSTANTS
  GivenPlans,     \* [heap, root]: the plans an optimizer may be given
  MaxCalls,       \* how often the client calls the optimizer on a plan
  MaxCustom       \* how many custom optimizers the client registers (TLC)

ASSUME GivenPlansAssumption == \A p \in GivenPlans : IsPlan(p.heap, p.root)

ASSUME MaxCallsAssumption == MaxCalls \in Nat \ {0} /\ MaxCustom \in Nat

VARIABLES
  frames,      \* the activations of the running pass, the last one on top
  ret,         \* the pointer the last activation returned
  join_trie,   \* per binary join: relation -> the side it is on
  custom_optimzers,   \* the passes that were registered
  passes,      \* passes the current call still has to start
  calls,       \* calls made by the client
  given,       \* history: the plan and the passes of the last call
  outcome      \* "given", the last pass that completed, or "threw"

optimizerVars == <<heap, root, frames, ret, join_trie, custom_optimzers, passes, calls, given,
                   outcome>>

\* An activation of a pass on a node: its place (`at'), its locals cur, the
\* number of children done, filter_arr (arr), rgt, and the filters still to
\* be put above the node (stay).
Frame(pass, n, arr) ==
  [pass |-> pass, node |-> n, at |-> "enter", cur |-> Null, done |-> 0,
   arr |-> arr, rgt |-> <<>>, stay |-> <<>>]

Here == frames[Len(frames)]

\* The top activation: of this pass, on a node of this kind, at this place.
In(pass, kinds, at) ==
  /\ frames # <<>>
  /\ Here.pass = pass /\ Here.at = at
  /\ heap[Here.node].kind \in kinds

Continue(f) == frames' = [frames EXCEPT ![Len(frames)] = f]

\* The top activation becomes f and calls its own pass on node c.
Recurse(f, c, arr) ==
  frames' = Append([frames EXCEPT ![Len(frames)] = f], Frame(f.pass, c, arr))

\* Back in the caller, or at the end of the pass.
GiveBack(n) ==
  /\ frames' = SubSeq(frames, 1, Len(frames) - 1)
  /\ IF Len(frames) = 1
     THEN root' = n /\ ret' = Null /\ outcome' = Here.pass
     ELSE ret' = n /\ UNCHANGED <<root, outcome>>

\* An exception: everything that was owned on the way is destroyed.
Fail ==
  /\ heap' = destroy(heap, DOMAIN heap)
  /\ root' = Null /\ ret' = Null /\ frames' = <<>> /\ passes' = <<>>
  /\ outcome' = "threw"

Quiet == UNCHANGED <<join_trie, custom_optimzers, passes, calls, given>>

-----------------------------------------------------------------------------
(* choose_join_sequence *)

ChooseScan ==
  /\ In("choose", {"TableScan"}, "enter")
  /\ GiveBack(Here.node)
  /\ UNCHANGED heap /\ Quiet

\* Filter, Projection, BinaryJoin: each child is transferred, chosen and set.
ChooseChild ==
  /\ In("choose", {"Filter", "Projection", "BinaryJoin"}, "enter")
  /\ LET k == Here.done + 1
     IN  /\ heap' = transfer_child(heap, Here.node, k)
         /\ Recurse([Here EXCEPT !.at = "child"], heap[Here.node].child[k], <<>>)
  /\ UNCHANGED <<root, ret, outcome>> /\ Quiet

ChooseSetChild ==
  /\ In("choose", {"Filter", "Projection", "BinaryJoin"}, "child")
  /\ heap' = set_child(heap, Here.node, Here.done + 1, ret)
  /\ IF Here.done + 1 < Len(heap[Here.node].child)
     THEN /\ Continue([Here EXCEPT !.at = "enter", !.done = @ + 1])
          /\ ret' = Null /\ UNCHANGED <<root, outcome>>
     ELSE GiveBack(Here.node)
  /\ Quiet

MoreChildren == Here.done < Len(heap[Here.node].child)

ChooseJoinChild ==
  /\ In("choose", {"MultiJoin"}, "enter") /\ MoreChildren
  /\ LET k == Here.done + 1
     IN  /\ heap' = transfer_child(heap, Here.node, k)
         /\ Recurse([Here EXCEPT !.at = "child"], heap[Here.node].child[k], <<>>)
  /\ UNCHANGED <<root, ret, outcome>> /\ Quiet

\* The chosen child is moved on, to cur or to a new join above cur.
ChooseJoin ==
  /\ In("choose", {"MultiJoin"}, "child")
  /\ IF Here.cur = Null
     THEN /\ UNCHANGED heap
          /\ Continue([Here EXCEPT !.at = "enter", !.done = @ + 1, !.cur = ret])
     ELSE /\ heap' = BinaryJoinPlanNode(heap, Here.cur, ret)
          /\ Continue([Here EXCEPT !.at = "enter", !.done = @ + 1, !.cur = Len(heap) + 1])
  /\ ret' = Null
  /\ UNCHANGED <<root, outcome>> /\ Quiet

\* return cur; the multi-way join is destroyed with what it still owns.
ChooseJoinEnd ==
  /\ In("choose", {"MultiJoin"}, "enter") /\ ~MoreChildren
  /\ heap' = destroy(heap, {Here.node} \cup (ChildrenOf(heap, Here.node) \ {Null}))
  /\ GiveBack(Here.cur)
  /\ Quiet

-----------------------------------------------------------------------------
(* push_down_filter *)

\* Bug: a relation found on both sides counts as on the left.
TrieOf_left(h) ==
  LET below == RelationsBelow(h)
  IN  [j \in {n \in DOMAIN h : h[n].kind = "BinaryJoin"} |->
         LET left  == below[h[j].child[1]]
             right == below[h[j].child[2]]
         IN  [rel \in left \cup right |-> IF rel \in left THEN "Left" ELSE "Right"]]

\* Bug: only a child that is a scan itself is entered.
TrieOf_shallow(h) ==
  LET below(c) == IF h[c].kind = "TableScan" THEN {h[c].rel} ELSE {}
  IN  [j \in {n \in DOMAIN h : h[n].kind = "BinaryJoin"} |->
         LET left  == below(h[j].child[1])
             right == below(h[j].child[2])
         IN  [rel \in left \cup right |-> IF rel \in right THEN "Right" ELSE "Left"]]

\* build_join_trie: a relation found on both sides counts as on the right.
TrieOf(h) ==
  LET below == RelationsBelow(h)
  IN  [j \in {n \in DOMAIN h : h[n].kind = "BinaryJoin"} |->
         LET left  == below[h[j].child[1]]
             right == below[h[j].child[2]]
         IN  [rel \in left \cup right |-> IF rel \in right THEN "Right" ELSE "Left"]]

\* check_direction reads the relations one by one until two sides differ; at()
\* throws on a relation that the join does not have.
DirectionThrows(relations, directions) ==
  \E k \in DOMAIN relations :
    /\ relations[k] \notin DOMAIN directions
    /\ \A i \in 1 .. k - 1 : directions[relations[i]] = directions[relations[1]]

\* Bug: only conditions on one operand are moved below a join.
check_direction_single(relations, directions) ==
  IF Len(relations) = 1 THEN directions[relations[1]] ELSE "Invalid"

check_direction(relations, directions) ==
  IF relations # <<>> /\ \A k \in DOMAIN relations :
                            relations[k] \in DOMAIN directions
                            /\ directions[relations[k]] = directions[relations[1]]
  THEN directions[relations[1]] ELSE "Invalid"

\* The entries of a filter_arr that go in direction dir, among the first k.
Going(arr, dir, directions) ==
  LET goes[k \in 0 .. Len(arr)] ==
        IF k = 0 THEN <<>>
        ELSE IF check_direction(arr[k].relations, directions) = dir
             THEN Append(goes[k - 1], arr[k]) ELSE goes[k - 1]
  IN  goes

Towards(arr, dir, directions) == Going(arr, dir, directions)[Len(arr)]

FiltersOf(arr) == [i \in DOMAIN arr |-> arr[i].filter]

PushScan ==
  /\ In("push", {"TableScan"}, "enter")
  /\ Continue([Here EXCEPT !.at = "wrap", !.arr = <<>>, !.stay = FiltersOf(Here.arr)])
  /\ UNCHANGED <<heap, root, ret, outcome>> /\ Quiet

\* The filter goes into filter_arr and the pass goes on with its child: the
\* call is the last thing the activation does, so it takes its place.
PushFilter ==
  /\ In("push", {"Filter"}, "enter")
  /\ heap' = transfer_child(heap, Here.node, 1)
  /\ Continue([Here EXCEPT
       !.node = heap[Here.node].child[1],
       !.arr = Append(@, [filter |-> Here.node,
                          relations |-> RelationsOf(heap[Here.node].cond)])])
  /\ UNCHANGED <<root, ret, outcome>> /\ Quiet

\* filter_arr is handed down by reference and not read again.
PushProjection ==
  /\ In("push", {"Projection"}, "enter")
  /\ heap' = transfer_child(heap, Here.node, 1)
  /\ Recurse([Here EXCEPT !.at = "child", !.arr = <<>>],
             heap[Here.node].child[1], Here.arr)
  /\ UNCHANGED <<root, ret, outcome>> /\ Quiet

PushProjectionEnd ==
  /\ In("push", {"Projection"}, "child")
  /\ heap' = set_child(heap, Here.node, 1, ret)
  /\ GiveBack(Here.node)
  /\ Quiet

\* The filters are dealt out to the two sides and to the join itself.
PushJoin ==
  /\ In("push", {"BinaryJoin"}, "enter")
  /\ LET mp == join_trie[Here.node]
     IN  /\ ~\E i \in DOMAIN Here.arr : DirectionThrows(Here.arr[i].relations, mp)
         /\ heap' = transfer_child(heap, Here.node, 1)
         /\ Recurse([Here EXCEPT
                       !.at = "left", !.arr = <<>>,
                       !.rgt = Towards(Here.arr, "Right", mp),
                       !.stay = FiltersOf(Towards(Here.arr, "Invalid", mp))],
                    heap[Here.node].child[1],
                    Towards(Here.arr, "Left", mp))
  /\ UNCHANGED <<root, ret, outcome>> /\ Quiet

PushJoinThrow ==
  /\ In("push", {"BinaryJoin"}, "enter")
  /\ \E i \in DOMAIN Here.arr : DirectionThrows(Here.arr[i].relations, join_trie[Here.node])
  /\ Fail
  /\ UNCHANGED <<join_trie, custom_optimzers, calls, given>>

PushJoinRight ==
  /\ In("push", {"BinaryJoin"}, "left")
  /\ heap' = transfer_child(set_child(heap, Here.node, 1, ret), Here.node, 2)
  /\ Recurse([Here EXCEPT !.at = "right", !.rgt = <<>>],
             heap[Here.node].child[2], Here.rgt)
  /\ ret' = Null
  /\ UNCHANGED <<root, outcome>> /\ Quiet

PushJoinEnd ==
  /\ In("push", {"BinaryJoin"}, "right")
  /\ heap' = set_child(heap, Here.node, 2, ret)
  /\ Continue([Here EXCEPT !.at = "wrap"])
  /\ ret' = Null
  /\ UNCHANGED <<root, outcome>> /\ Quiet

\* Bug: the filter that was put back stays in the list.
Wrap_again ==
  /\ frames # <<>> /\ Here.at = "wrap" /\ Here.stay # <<>>
  /\ heap' = set_child(heap, Here.stay[1], 1, Here.node)
  /\ Continue([Here EXCEPT !.node = Here.stay[1]])
  /\ UNCHANGED <<root, ret, outcome>> /\ Quiet

\* One turn of the loops that put filters above a scan or a join.
Wrap ==
  /\ frames # <<>> /\ Here.at = "wrap" /\ Here.stay # <<>>
  /\ heap' = set_child(heap, Here.stay[1], 1, Here.node)
  /\ Continue([Here EXCEPT !.node = Here.stay[1], !.stay = Tail(@)])
  /\ UNCHANGED <<root, ret, outcome>> /\ Quiet

\* Bug: the filters that are left are forgotten.
WrapEnd_early ==
  /\ frames # <<>> /\ Here.at = "wrap"
  /\ GiveBack(Here.node)
  /\ UNCHANGED heap /\ Quiet

WrapEnd ==
  /\ frames # <<>> /\ Here.at = "wrap" /\ Here.stay = <<>>
  /\ GiveBack(Here.node)
  /\ UNCHANGED heap /\ Quiet

-----------------------------------------------------------------------------
(* The passes and the public methods. *)

Busy == frames # <<>> \/ passes # <<>>

StartPass(pass) ==
  /\ frames = <<>> /\ passes # <<>> /\ Head(passes) = pass
  /\ frames' = <<Frame(pass, root, <<>>)>>
  /\ passes' = Tail(passes)
  /\ root' = Null
  /\ UNCHANGED <<heap, ret, custom_optimzers, calls, given, outcome>>

StartChoose == StartPass("choose") /\ UNCHANGED join_trie

HasMultiJoin(h) == \E n \in DOMAIN h : h[n].kind = "MultiJoin"

StartPush ==
  /\ ~HasMultiJoin(heap)
  /\ StartPass("push")
  /\ join_trie' = TrieOf(heap)

\* build_join_trie throws on a multi-way join, before anything is rewritten.
StartPushThrow ==
  /\ frames = <<>> /\ passes # <<>> /\ Head(passes) = "push"
  /\ HasMultiJoin(heap)
  /\ Fail
  /\ UNCHANGED <<join_trie, custom_optimzers, calls, given>>

\* The client calls a public method on the plan it holds.
CallOptimizer(todo) ==
  /\ ~Busy /\ outcome # "threw" /\ root # Null /\ calls < MaxCalls
  /\ passes' = todo
  /\ calls' = calls + 1
  /\ given' = [heap |-> heap, root |-> root, passes |-> todo]
  /\ UNCHANGED <<heap, root, frames, ret, join_trie, custom_optimzers, outcome>>

optimize == CallOptimizer(<<"choose", "push">> \o custom_optimzers)
choose_join_sequence == CallOptimizer(<<"choose">>)
push_down_filter == CallOptimizer(<<"push">>)

register_optimzer ==
  /\ ~Busy /\ Len(custom_optimzers) < MaxCustom
  /\ \E pass \in {"choose", "push"} : custom_optimzers' = Append(custom_optimzers, pass)
  /\ UNCHANGED <<heap, root, frames, ret, join_trie, passes, calls, given, outcome>>

OptimizerIdle ==
  /\ frames = <<>> /\ ret = Null /\ join_trie = [j \in {} |-> <<>>]
  /\ passes = <<>> /\ calls = 0 /\ custom_optimzers = <<>>
  /\ outcome = "given"

OptimizerInit ==
  /\ given \in {[heap |-> p.heap, root |-> p.root, passes |-> <<>>] : p \in GivenPlans}
  /\ heap = given.heap /\ root = given.root
  /\ OptimizerIdle

OptimizerStep ==
  \/ StartChoose \/ StartPush \/ StartPushThrow
  \/ ChooseScan \/ ChooseChild \/ ChooseSetChild
  \/ ChooseJoinChild \/ ChooseJoin \/ ChooseJoinEnd
  \/ PushScan \/ PushFilter \/ PushProjection \/ PushProjectionEnd
  \/ PushJoin \/ PushJoinThrow \/ PushJoinRight \/ PushJoinEnd
  \/ Wrap \/ WrapEnd

OptimizerNext ==
  OptimizerStep \/ optimize \/ choose_join_sequence \/ push_down_filter \/ register_optimzer

\* A call that was made runs to its end; the client need not call.
OptimizerSpec ==
  OptimizerInit /\ [][OptimizerNext]_optimizerVars /\ WF_optimizerVars(OptimizerStep)

-----------------------------------------------------------------------------
(* Properties *)

FilterEntries == [filter : Nat, relations : Seq(STRING)]

OptimizerTypeOK ==
  /\ heap \in Seq(HeapNodes)
  /\ root \in {Null} \cup DOMAIN heap
  /\ ret \in {Null} \cup DOMAIN heap
  /\ frames \in Seq([pass : {"choose", "push"}, node : DOMAIN heap,
                     at : {"enter", "child", "left", "right", "wrap"},
                     cur : {Null} \cup DOMAIN heap, done : Nat,
                     arr : Seq(FilterEntries), rgt : Seq(FilterEntries), stay : Seq(Nat)])
  /\ passes \in Seq({"choose", "push"}) /\ custom_optimzers \in Seq({"choose", "push"})
  /\ calls \in 0 .. MaxCalls
  /\ outcome \in {"given", "choose", "push", "threw"}

(***************************************************************************)
(* Every node has exactly one owner at every moment -- a parent, a local   *)
(* or argument of an activation, a result on its way, or the client -- and *)
(* a destroyed node has none: no filter or subtree is lost, or owned       *)
(* twice, between transfer_child() and set_child().                        *)
(***************************************************************************)
Locals(f) == <<f.node, f.cur>> \o FiltersOf(f.arr) \o FiltersOf(f.rgt) \o f.stay

Owners(n) ==
  (UNION {{<<"child", m, k>> : k \in {i \in DOMAIN heap[m].child : heap[m].child[i] = n}} :
            m \in DOMAIN heap})
  \cup (UNION {{<<"local", i, k>> : k \in {j \in DOMAIN Locals(frames[i]) : Locals(frames[i])[j] = n}} :
                 i \in DOMAIN frames})
  \cup {<<"root", 0, 0>> : x \in {p \in {root} : p = n}}
  \cup {<<"ret", 0, 0>> : x \in {p \in {ret} : p = n}}

SingleOwner ==
  /\ OptimizerTypeOK
  /\ \A n \in DOMAIN heap : Cardinality(Owners(n)) = IF Live(n) THEN 1 ELSE 0

Settled == ~Busy /\ outcome # "threw"

(***************************************************************************)
(* When a call has returned, the plan holds every node there is, and so    *)
(* every filter and every scan it was given, conditions unchanged.         *)
(***************************************************************************)
Kept(n) ==
  /\ n \in Tree(heap, root)
  /\ heap[n].cond = given.heap[n].cond /\ heap[n].rel = given.heap[n].rel

NothingIsLost ==
  Settled => \A n \in DOMAIN given.heap :
               given.heap[n].kind \notin {"MultiJoin", "Destroyed"} => Kept(n)

(***************************************************************************)
(* A rewritten plan stands for the same rows, in the same order, as the    *)
(* plan the call was given: filters commute with the joins they are moved  *)
(* below, and each still reads the columns it read.                        *)
(***************************************************************************)
SameRows ==
  Settled =>
    \A db \in Databases :
      RowsOf(heap, db)[root] = RowsOf(given.heap, db)[given.root]

(***************************************************************************)
(* After push_down_filter, a filter stands on a scan, or on a join that it *)
(* needs both sides of (or on one it reads no column of), possibly with    *)
(* other filters in between: never where it could still be moved down.     *)
(***************************************************************************)
Support(n) ==
  LET below[m \in DOMAIN heap] ==
        IF heap[m].kind = "Filter" THEN below[heap[m].child[1]] ELSE m
  IN  below[n]

FiltersArePushedDown ==
  (Settled /\ outcome = "push") =>
    \A f \in {n \in DOMAIN heap : heap[n].kind = "Filter"} :
      LET s    == Support(f)
          rels == {RelationsOf(heap[f].cond)[i] : i \in DOMAIN heap[f].cond.cols}
          side(k) == RelationsBelow(heap)[heap[s].child[k]]
      IN  \/ heap[s].kind = "TableScan"
          \/ heap[s].kind = "BinaryJoin" /\ rels = {}
          \/ heap[s].kind = "BinaryJoin" /\ ~(rels \subseteq side(2))
                                         /\ ~(rels \subseteq side(1) \ side(2))

(***************************************************************************)
(* A pass throws only on a plan it must refuse: push_down_filter alone on  *)
(* a multi-way join, or a filter above a join that reads a relation the    *)
(* join does not have.                                                     *)
(***************************************************************************)
ThrowsOnlyIfRefused ==
  outcome = "threw" =>
    \/ given.passes = <<"push">> /\ HasMultiJoin(given.heap)
    \/ Faulty(given.heap)

(***************************************************************************)
(* Every call returns: the recursion ends.                                 *)
(***************************************************************************)
OptimizerReturns == Busy ~> ~Busy
=============================================================================
