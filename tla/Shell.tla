------------------------------- MODULE Shell -------------------------------
(***************************************************************************)
(* main of src/standalone/shell.cpp: the loop that reads a statement, and  *)
(* the turn that runs it through all components, each of them its own      *)
(* module on its own variables:                                            *)
(*                                                                         *)
(*   ReadLoop -> Parser -> Preprocess -> Planner, Optimizer -> Executor    *)
(*                                                                         *)
(* What stands here is what the components hand to each other, and what    *)
(* becomes of their exceptions.  All objects of a turn are local to it:    *)
(* after its reply they are as they were before the first statement.       *)
(*                                                                         *)
(* The characters of ReadLoop are the tokens of a text here, and newlines. *)
(***************************************************************************)
EXTENDS ReadLoop, Parser, MockDatabase

VARIABLES
  phase,     \* the call that main is in: "parse" ... "execute", or "idle"
  data_,     \* MockStorageManager::data_, which nothing changes
  replies    \* history: what the shell said, turn by turn

\* The local variables of the components.
VARIABLES query, stage, relations, items, schema_, rel_map_, attr_map_, mapped,
          attributes, preds, condition, resolved, activations, folded, split, conditions, printed
VARIABLES heap, root, stmt, planning, scans, taken,
          frames, moved, join_trie, custom_optimzers, passes, calls, given, outcome
VARIABLES plan, p_next_id, l_tp, pc, call_stack, ret, live, fetched, exec, rows, runs

preprocessVars ==
  <<query, stage, relations, items, schema_, rel_map_, attr_map_, mapped, attributes, preds,
    condition, resolved, activations, folded, split, conditions, printed>>
planVars == <<heap, root, stmt, planning, scans, taken, frames, moved, join_trie,
              custom_optimzers, passes, calls, given, outcome>>
execVars == <<plan, p_next_id, l_tp, pc, call_stack, ret, live, fetched, exec, rows, runs>>
shellVars == <<readVars, phase, data_, replies, parserVars, preprocessVars, planVars, execVars>>

-----------------------------------------------------------------------------
(* The components *)

CatalogItems == UNION {{Catalog[rel][k] : k \in DOMAIN Catalog[rel]} : rel \in DOMAIN Catalog}

\* So many columns the schema of a statement may have.
MaxColumns == 16

Pre == INSTANCE Preprocess WITH
         pending <- split, SchemaItems <- CatalogItems, MaxItems <- MaxColumns,
         Cells <- <<>>, Queries <- {}

CellValues == UNION {{data[rel][i][k] : i \in DOMAIN data[rel], k \in DOMAIN Catalog[rel]} :
                rel \in DOMAIN data}

Plan == INSTANCE Planning WITH
          pending <- scans, ret <- moved, Values <- CellValues, Databases <- {data},
          Statements <- {}, GivenPlans <- {}, MaxCalls <- 1, MaxCustom <- 0

Exec == INSTANCE Executor WITH
          data <- data_, stack <- call_stack, result <- rows, Values <- CellValues, Databases <- {data},
          Plans <- {}, MaxRuns <- 1

-----------------------------------------------------------------------------
(* A turn begins and ends. *)

NoParse ==
  /\ read' = <<>> /\ stack' = <<>> /\ lookahead' = <<>>
  /\ context' = EmptyContext /\ result' = "none"

\* preprocess(q); NoQuery when there is none.
PreprocessOf(q) ==
  /\ query' = q /\ stage' = "relations"
  /\ relations' = q.relations /\ items' = <<>>
  /\ schema_' = <<>> /\ rel_map_' = Pre!EmptyMap /\ attr_map_' = Pre!EmptyMap /\ mapped' = 0
  /\ attributes' = q.attributes /\ preds' = q.preds /\ condition' = q.root
  /\ resolved' = 0 /\ activations' = <<>> /\ folded' = 0
  /\ split' = <<>> /\ conditions' = <<>> /\ printed' = <<>>

NoQuery == [relations |-> <<>>, attributes |-> <<>>, preds |-> <<>>, root |-> 0]

\* plan_stmt(st) with a new Planner, to be followed by a new Optimizer.
PlanOf(st) ==
  /\ stmt' = st
  /\ heap' = <<>> /\ root' = 0 /\ planning' = "ready" /\ scans' = {} /\ taken' = 0
  /\ frames' = <<>> /\ moved' = 0 /\ join_trie' = [j \in {} |-> <<>>]
  /\ custom_optimzers' = <<>> /\ passes' = <<>> /\ calls' = 0
  /\ given' = [heap |-> <<>>, root |-> 0, passes |-> <<>>] /\ outcome' = "given"

NoStatement == [schema |-> <<>>, conditions |-> <<>>, attributes |-> <<>>]

\* The operators of a plan; execute has not been called.
OperatorsOf(p) ==
  /\ plan' = p
  /\ p_next_id' = [n \in DOMAIN p |-> Exec!NullId] /\ l_tp' = [n \in DOMAIN p |-> <<>>]
  /\ pc' = [n \in DOMAIN p |-> "idle"] /\ call_stack' = <<>>
  /\ ret' = [ok |-> FALSE, tp |-> <<>>, threw |-> FALSE]
  /\ live' = [n \in DOMAIN p |-> FALSE] /\ fetched' = [n \in DOMAIN p |-> 0]
  /\ exec' = "ready" /\ rows' = <<>> /\ runs' = 0

Reply(kind, header, tuples) == [kind |-> kind, header |-> header, rows |-> tuples]

\* main goes on with the next statement; what the turn has built is gone.
EndOfTurn(reply) ==
  /\ NextTurn /\ phase' = "idle"
  /\ replies' = Append(replies, reply)
  /\ NoParse /\ PreprocessOf(NoQuery) /\ PlanOf(NoStatement) /\ OperatorsOf(<<>>)
  /\ UNCHANGED data_

-----------------------------------------------------------------------------
(* Parsing *)

\* Newlines are white space to the scanner.
Unspaced(s) == SelectSeq(s, LAMBDA t : t # Newline)

Text == Unspaced(handed[Len(handed)])
EndOfText == Word("EOF")
NextToken == IF Len(read) < Len(Text) THEN Text[Len(read) + 1] ELSE EndOfText

CallParser ==
  /\ turn = "running" /\ phase = "idle"
  /\ sql_parse
  /\ phase' = "parse"
  /\ UNCHANGED <<readVars, data_, replies, preprocessVars, planVars, execVars>>

Parse ==
  /\ phase = "parse"
  /\ yylex(NextToken) \/ ParserStep
  /\ UNCHANGED <<readVars, phase, data_, replies, preprocessVars, planVars, execVars>>

\* `continue': nothing but the parser's message is printed.
RefuseText ==
  /\ phase = "parse" /\ result = "1"
  /\ EndOfTurn(Reply("syntax_error", <<>>, <<>>))

SayBye ==
  /\ phase = "parse" /\ result = "0" /\ context.query.type = "Exit"
  /\ ExitTurn /\ phase' = "idle"
  /\ replies' = Append(replies, Reply("bye", <<>>, <<>>))
  /\ UNCHANGED <<data_, parserVars, preprocessVars, planVars, execVars>>

-----------------------------------------------------------------------------
(* The select statement: what is handed from stage to stage. *)

\* context.query_ is moved to the preprocessor.
CallPreprocess ==
  /\ phase = "parse" /\ result = "0" /\ context.query.type = "Select"
  /\ phase' = "preprocess"
  /\ PreprocessOf([relations |-> context.query.relations, attributes |-> context.query.attributes,
                   preds |-> context.query.preds, root |-> context.query.root])
  /\ NoParse
  /\ UNCHANGED <<readVars, data_, replies, planVars, execVars>>

RunPreprocess ==
  /\ phase = "preprocess"
  /\ Pre!PreprocessNext
  /\ UNCHANGED <<readVars, phase, data_, replies, parserVars, planVars, execVars>>

(***************************************************************************)
(* A predicate as the plan's modules see it: the columns it reads, operand *)
(* by operand, and the values for which it evaluates to true.  Only values *)
(* that rows of the database have there are looked at.                     *)
(***************************************************************************)
OperandsBelow(n) ==
  LET leaves == LeavesOf(preds, n)
  IN  [k \in 1 .. 2 * Len(leaves) |-> preds[leaves[(k + 1) \div 2]].operand[2 - (k % 2)]]

ColumnsBelow(n) ==
  LET read_columns == SelectSeq(OperandsBelow(n), IsAttr)
  IN  [k \in DOMAIN read_columns |-> read_columns[k].attr]

\* The typed value of a column in the i-th row of its relation.
Cell(c, i) ==
  LET k == CHOOSE k \in DOMAIN Catalog[c.relation] : Catalog[c.relation][k].attribute_ = c.attribute
  IN  [type |-> Catalog[c.relation][k].type_, data |-> data[c.relation][i][k]]

ConditionOf(n) ==
  LET cols == ColumnsBelow(n)
      rels == {cols[k].relation : k \in DOMAIN cols}
      choices == {f \in [rels -> UNION {DOMAIN data[rel] : rel \in rels}] :
                 \A rel \in rels : f[rel] \in DOMAIN data[rel]}
      row(f) == [c \in {cols[k] : k \in DOMAIN cols} |-> Cell(c, f[c.relation])]
  IN  [cols |-> cols,
       sat |-> {[k \in DOMAIN cols |-> row(f)[cols[k]].data] :
                  f \in {g \in choices : evaluate(preds, n, row(g)) = "true"}}]

\* The statement keeps its conditions until the planner takes them.
CallPlanner ==
  /\ phase = "preprocess" /\ stage = "done"
  /\ phase' = "plan"
  /\ PlanOf([schema |-> [k \in DOMAIN schema_ |-> Pre!NameOf(schema_[k])],
             conditions |-> [k \in DOMAIN conditions |-> ConditionOf(conditions[k])],
             attributes |-> attributes])
  /\ UNCHANGED <<readVars, data_, replies, parserVars, preprocessVars, execVars>>

\* plan_stmt, then optimize.
RunPlanning ==
  /\ phase = "plan"
  /\ Plan!PlanningStep
  /\ UNCHANGED <<readVars, phase, data_, replies, parserVars, preprocessVars, execVars>>

(***************************************************************************)
(* build_physical_operator: an operator for each node of the plan, the     *)
(* children's first; an operator is known by its place.                    *)
(***************************************************************************)
InOrder(h) ==
  LET below[n \in DOMAIN h] ==
        CASE h[n].child = <<>>    -> <<n>>
          [] Len(h[n].child) = 1  -> Append(below[h[n].child[1]], n)
          [] OTHER -> below[h[n].child[1]] \o below[h[n].child[2]] \o <<n>>
  IN  below

\* Bug: the children of a join change sides.
build_physical_operator_swapped(h, r) ==
  LET nodes == InOrder(h)[r]
      place(n) == CHOOSE k \in DOMAIN nodes : nodes[k] = n
      swapped(c) == [i \in DOMAIN c |-> place(c[Len(c) + 1 - i])]
  IN  [k \in DOMAIN nodes |-> [h[nodes[k]] EXCEPT !.child = swapped(@)]]

build_physical_operator(h, r) ==
  LET nodes == InOrder(h)[r]
      place(n) == CHOOSE k \in DOMAIN nodes : nodes[k] = n
  IN  [k \in DOMAIN nodes |-> [h[nodes[k]] EXCEPT !.child = [i \in DOMAIN @ |-> place(@[i])]]]

CallExecutor ==
  /\ phase = "plan" /\ Plan!Optimized /\ outcome = "push"
  /\ phase' = "execute"
  /\ OperatorsOf(build_physical_operator(heap, root))
  /\ UNCHANGED <<readVars, data_, replies, parserVars, preprocessVars, planVars>>

RunExecutor ==
  /\ phase = "execute"
  /\ Exec!ExecutorNext
  /\ UNCHANGED <<readVars, phase, replies, parserVars, preprocessVars, planVars>>

\* output_result: the printer has had its attributes since the preprocessor.
PrintResult ==
  /\ phase = "execute" /\ exec = "done"
  /\ EndOfTurn(Reply("rows", printed, rows))

\* The exception that has left a stage, if one has.
Thrown ==
  CASE phase = "preprocess" /\ stage \in {"runtime_error", "logic_error"} -> stage
    [] phase = "plan" /\ outcome = "threw"  -> "logic_error"
    [] phase = "execute" /\ exec = "threw"  -> "logic_error"
    [] OTHER -> "none"

\* output_error, whichever stage it came from.
CatchError == Thrown # "none" /\ EndOfTurn(Reply(Thrown, <<>>, <<>>))

ReadStep ==
  /\ ReadChar
  /\ UNCHANGED <<phase, data_, replies, parserVars, preprocessVars, planVars, execVars>>

-----------------------------------------------------------------------------
ShellInit ==
  /\ ReadInit /\ phase = "idle" /\ data_ = data /\ replies = <<>>
  /\ read = <<>> /\ stack = <<>> /\ lookahead = <<>>
  /\ context = EmptyContext /\ result = "none"
  /\ query = NoQuery /\ stage = "relations"
  /\ relations = <<>> /\ items = <<>>
  /\ schema_ = <<>> /\ rel_map_ = Pre!EmptyMap /\ attr_map_ = Pre!EmptyMap /\ mapped = 0
  /\ attributes = <<>> /\ preds = <<>> /\ condition = 0
  /\ resolved = 0 /\ activations = <<>> /\ folded = 0
  /\ split = <<>> /\ conditions = <<>> /\ printed = <<>>
  /\ stmt = NoStatement /\ heap = <<>> /\ root = 0 /\ planning = "ready" /\ scans = {} /\ taken = 0
  /\ Plan!OptimizerIdle /\ given = [heap |-> <<>>, root |-> 0, passes |-> <<>>]
  /\ plan = <<>> /\ p_next_id = <<>> /\ l_tp = <<>> /\ pc = <<>> /\ call_stack = <<>>
  /\ ret = [ok |-> FALSE, tp |-> <<>>, threw |-> FALSE] /\ live = <<>> /\ fetched = <<>>
  /\ exec = "ready" /\ rows = <<>> /\ runs = 0

ShellNext ==
  \/ ReadStep \/ CallParser \/ Parse \/ RefuseText \/ SayBye
  \/ CallPreprocess \/ RunPreprocess \/ CallPlanner \/ RunPlanning
  \/ CallExecutor \/ RunExecutor \/ PrintResult \/ CatchError

\* One thread, which is always in one call or the other.
ShellSpec == ShellInit /\ [][ShellNext]_shellVars /\ WF_shellVars(ShellNext)

-----------------------------------------------------------------------------
(* Properties *)

(***************************************************************************)
(* The shell carries on the dialogue of module Dialogue: every statement   *)
(* gets the reply that its own text and the database ask for -- header,    *)
(* rows with their numbers, or the kind of refusal -- in the order typed,  *)
(* and after whatever was typed before.  The rows may come in any order.   *)
(***************************************************************************)
BagOf(tuples) ==
  [row \in {tuples[k] : k \in DOMAIN tuples} |->
     Cardinality({k \in DOMAIN tuples : tuples[k] = row})]

SaidSoFar ==
  [k \in DOMAIN replies |->
     IF replies[k].kind = "rows" THEN [replies[k] EXCEPT !.rows = BagOf(@)] ELSE replies[k]]

Unanswered ==
  [k \in 1 .. Len(StatementsIn(typed)) - Len(replies) |->
     Unspaced(StatementsIn(typed)[Len(replies) + k])]

Abstract == INSTANCE Dialogue WITH todo <- Unanswered, replies <- SaidSoFar

ImplementsDialogue == Abstract!DialogueSpec

(***************************************************************************)
(* No turn hangs: every statement that is finished by a newline is         *)
(* answered, whatever stage its turn ends in.                              *)
(***************************************************************************)
EveryStatementIsAnswered == Abstract!EveryStatementIsAnswered

(***************************************************************************)
(* A scan reads rows with the schema they are laid out in: the planner has *)
(* it from the Schema of the statement, which was filled relation by       *)
(* relation in the order of FROM, with a relation twice if it is listed    *)
(* twice; the storage manager has it from its own.                         *)
(***************************************************************************)
ScansFitTheStorage ==
  \A n \in {m \in DOMAIN plan : plan[m].kind = "TableScan"} :
    plan[n].schema = [k \in DOMAIN Catalog[plan[n].rel] |-> Pre!NameOf(Catalog[plan[n].rel][k])]

(***************************************************************************)
(* All that can be wrong with a statement is found before it is planned:   *)
(* no exception comes from the optimizer or from an operator, when rows    *)
(* have already been fetched.                                              *)
(***************************************************************************)
ErrorsAreFoundEarly == Thrown # "none" => phase = "preprocess"
=============================================================================
