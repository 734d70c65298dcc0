# miniob_shell in TLA+

miniob_shell is a small SQL query engine: it parses a `select`, resolves it
against a storage manager's schema, plans it, optimizes the plan and executes it
with pull ("volcano") operators. Everything runs on one thread and nothing is
written to the data. What is hard in it is not concurrency but *state that lives
in several places across a sequence of calls*: cursors that are reopened, plans
whose nodes change owners while their schemas must follow, maps that index an
array, exceptions that leave everything half done.

This directory models the program from the characters that are typed to the
table that is printed, component by component and as a whole, checks it with
TLC and proves part of it with TLAPS.

## Inventory

| Component | State | Operations | Talks to | Hard behaviour | Correct when |
|---|---|---|---|---|---|
| Parser (`include/sql/*`, `src/sql`) | the scanner's place, the automaton's stack, five stacks in `ParserContext`, the query | patterns of `lexer.l`, semantic actions of `yacc.y` | scanner pushes names, preprocessor takes the query | longest match, order of pushes and pops, one token read ahead | the query says what the text says, no stack keeps an entry |
| Preprocessor (`src/preprocess`) | the query, rewritten in place | resolve relations, attributes and predicates; fold constants; split conjunctions | `Schema`, storage manager, printer | moved-out children, String→Date rewrite | the statement means what the query means, only typed comparisons remain |
| Schema (`src/relation/schema.cpp`) | array, `rel_map_`, `attr_map_` | construct, append, clear, seven queries | everyone | duplicate columns | maps agree with the array |
| Planner (`src/planner`) | the plan being built | `plan_select` | statement, plan nodes | unspecified order of relations | the plan answers the statement |
| Plan nodes (`plan_node.h`) | children (owned), output schema | constructors, `transfer_*`, `set_*` | planner, optimizer, executor | stale schemas, null children | schema is the one the children give |
| Optimizer (`src/optimizer`) | recursion, `join_trie`, `filter_arr` | `choose_join_sequence`, `push_down_filter`, `optimize` | plan nodes | ownership, throwing half way | same rows, nothing lost, filters low |
| Operators (`src/executor`) | `p_next_id_`, `l_tp_` | `open`, `get_next`, `close` | storage manager | reopened inner sides, cut-short `open`, exceptions | each is a cursor over its node's rows |
| Executor (`executor.cpp`) | result vector | `build_physical_operator`, `execute` | operators | never closes | returns the whole answer |
| Storage manager (`src/standalone`) | relations and rows, constant | `get_relation`, `get_start_id`, `get_next_id`, `get_tuple` | scans, preprocessor | ends and empty relations | ids are those of rows |
| Shell (`shell.cpp`) | the buffer, the locals of a turn | read, run the stages, report errors | all | end of input, exceptions of every stage | each statement gets the reply its own text asks for |
| Values, predicates | immutable (but for `set_value`) | comparison, evaluation | preprocessor, filters | mixed types | comparisons agree with `operator<` |
| Dates (`date.cpp`) | year, month, day | check a text, construct, print, compare | preprocessor, rows | short texts, leap years | exactly the days of the calendar, in order |
| Result printer | attributes, widths | measure, print | shell | an exception half way, the padding of a cell | the rows are in line (the header is not padded), a table is whole or absent |

The stages interact by handing over: query → statement → plan → operators, each
stage taking what the one before returned and (mostly) consuming it. The
exceptions are the two shared structures: plan nodes are referred to by the
operators built from them, and a child's output schema is read by its parent
operator on every row.

The hazards are in `PROJECT.json`, each at its line and with the properties that
watch it.

## Modules

| Module | Models | Notes |
|---|---|---|
| `PlanNode` | `plan_node.h`, constructors and output schemas | also `RowsOf`, the reference semantics of a plan |
| `PlanHeap` | `transfer_*`, `set_*` | nodes in a heap, owning pointers, `Null` after a move |
| `Operators` | the four operators, the in-memory storage manager | one action per statement that calls or returns |
| `Cursor` | nothing (abstract) | the contract of `PhysicalOperator` |
| `Executor` | `Executor::execute` | the only client in the code; extends `Operators` |
| `Schema` | `schema.h`, `schema.cpp` | stands alone |
| `Predicates` | `predicate.h`, `operand.h`, `value.h` | trees in a sequence of nodes, evaluation with its exceptions |
| `QueryMeaning` | nothing (reference) | `Verdict` and `Means`: what a query is and means, written without schema, rewriting or folding |
| `Preprocess` | `preprocess.cpp`, the constructor of `SelectStmt` | extends `Schema` and `QueryMeaning` |
| `Planner` | `Planner::plan_select` | extends `PlanHeap`; also `IsAnswer`, the meaning of a select |
| `Optimizer` | `optimizer.h`, `optimizer.cpp` | extends `PlanHeap` |
| `Planning` | the order planner → optimizer of `shell.cpp` | composes `Planner` and `Optimizer` on one heap |
| `Dates` | `date.h`, `date.cpp` | the loop of the format check byte by byte, then the calendar |
| `Scanner` | `lexer.l` | characters to tokens, longest match first |
| `SqlText` | the tokens and queries; a reference reading of a whole text | `Readings(s)` has at most the one query that `s` says |
| `Parser` | `yacc.y`, `parser.h`, `parser.cpp` | the automaton bison makes, with its read-ahead, and the actions |
| `Printer` | `mock_result_printer.h`, `result_printer.h` | texts are lengths |
| `ReadLoop` | the inner loop of `main` | one action per character |
| `MockDatabase` | the relations and rows of `mock_storage_manager.cpp`, `get_relation` | constants |
| `Shell` | `main` of `shell.cpp`, `build_physical_operator` | extends `ReadLoop`, `Parser` and `MockDatabase`; instances of `Preprocess`, `Planning` and `Executor` |
| `Dialogue` | nothing (abstract) | what `Shell` implements: one reply per statement, by its text alone |
| `OperatorsProofs` | – | theorems about `Operators`, its refinement of `Cursor`, and `Executor` |
| `OptimizerProofs`, `PushDownProofs` | – | theorems about `Optimizer` and the `PlanHeap` it rewrites; the second about what the trie finds and where filters end |
| `PreprocessProofs` | – | theorems about `Preprocess` and the `Schema` it fills |
| `DatesProofs`, `ScannerProofs` | – | theorems about `Dates` and `Scanner` |
| `ConsoleProofs` | – | theorems about `Printer` and `ReadLoop` |
| `Induction` | – | induction and primitive recursion, for the proofs |
| `MCPlans`, `MC*` | – | instances for TLC |

### How state and actions correspond to the code

**Operators.** One operator per plan node, so the variables are functions of the
node: `p_next_id[n]` is `TableScanOperator::p_next_id_` (an offset, or `NullId`
for `nullptr`), `l_tp[n]` is `NestLoopJoinOperator::l_tp_`. `stack` is the C++
call stack and `pc[n]` the point a method has reached: `Call` pushes a frame,
`Return` pops one and leaves the result in `ret`, `Throw` empties the stack
(nothing in the operators catches). The short-circuited conjunction of
`NestLoopJoinOperator::open` is therefore four actions, its `while` in
`get_next` four more. `live` and `fetched` are history: whether the last
`open` returned true and nothing ended it since, and the rows returned since.
The client may call `open` and `close` at any time, and `get_next` while the
root is live, as `PhysicalOperator` is used.

**Executor.** `exec`, `result` and `runs` are the control state of `execute`,
the vector it returns and how often it was called. `InvokeRoot` is the call into
the operator tree.

**PlanHeap, Optimizer.** A `unique_ptr` is a place in `heap`; moving from it
leaves `Null`; a node that is destroyed has kind `"Destroyed"`. `frames` is the
recursion of the running pass, each frame with the locals of its activation
(`cur`, `filter_arr`, `rgt`, `stay`); `ret` is the pointer being returned. The tail call
of `push_down_filter` on a filter replaces the frame, as nothing follows the
call. `set_child` includes `build_output_schema`, so a missing recomputation is
visible. `build_join_trie` is one step: it reads the plan and throws before
anything is rewritten.

**Planner.** `PlanScan` takes the relations in any order, because
`get_relations` lists the keys of an `unordered_map`.

**Schema.** Constructor loop turn by turn, then `append_schema` and `clear`;
the queries are operators. Positions count from 0 as in the code.

**Predicates, Preprocess.** As in `PlanHeap`, a `unique_ptr` is a place in
`preds`. `preprocess_select` is a machine whose `stage` says which of its calls
is running: relations are appended to the `Schema` item by item (the action is
`Schema`'s own `append_schema`), attributes and leaves are resolved one by one in
the order of the code, `activations` is the recursion of
`pre_compute_simple_leaves` (`lch` is its local of that name, `folded` the
pointer returned), and `pending` holds the pointers that the recursion of `split_and`
has still to look at. Every failure in this code is an exception out of
`preprocess`; the `return false` behind each `throw` is never reached.

**Dates.** The two callers of `parse`, the check and the constructor. A byte
behind the end of the text is `0` at `size()` and one of `Bytes` beyond it, so
the run shows that the loop's reads there do not matter; that they
are made is what a sanitizer would complain about.

**Scanner.** `at` is how far flex has come; `Matched` is the first of the rules, in
their order, that matches a piece of text as a whole, and `MatchRule` takes the longest
piece that one matches.

**Parser.** The grammar is data (`Rules`), the automaton is computed from it: a
state is given by its kernel of LR(0) items, and bison's way to save look-aheads
is in `MustReduce`: a state that shifts nothing reduces without reading, one that
cannot shift the token reduces before it reports an error. Both matter, because
the scanner pushes a name on `str_stack_` when it *reads* it. The action between
`SELECT` and the list is the rule `$@1`. The six fields of `context` are those of
`ParserContext`; `read` is history.

**ReadLoop, Shell.** `ReadLoop` has the variables of `main`'s inner loop.
In `Shell` its characters are the tokens of a statement and newlines; cutting
text into tokens is `Scanner`'s business. `phase` says which call `main` is in. A
`Call…` action hands the result of one stage to the next (the arguments of the
call and the constructors around it), a `Run…` action is a step of that
component's own module, `CatchError` the two `catch` clauses. Locals of a
turn are reset by `EndOfTurn`. What is handed on is translated where the modules
abstract differently: a predicate tree of `Preprocess` becomes, for the
planner, the columns it reads and the values of the database that satisfy it
(`ConditionOf`), and the optimized plan in its heap becomes the operators
(`build_physical_operator`).

**Dialogue.** `todo` are the statements typed and not answered, `replies` the
answers. A reply is computed from the text by `Readings`, `Verdict` and `Means`,
over choices of one row per relation of FROM: there is no parser,
schema, plan or operator in it. Rows are compared as bags.

### Abstractions

- In `Predicates` a value is its type and a number that stands for its place in
  the order of its type. Which texts are dates is a constant, `DateOf`, whose
  values in `MockDatabase` follow `Dates`.
- In `Preprocess` the storage manager's `get_relation` is the constant `Catalog`; a
  relation that it does not have is unknown. `Shell` gives it the shell's own.
- A `*` as a column name appears in lists of attributes only: the grammar has no
  other place for it.
- Elsewhere a value is a member of `Values`; a column is a relation and an attribute; types
  are kept only where a query returns them (`Schema`).
- There, a condition is the columns it reads, in operand order, and the set of value
  sequences that satisfy it; the tree itself is in `Predicates` only. So in
  `Operators` a condition with a missing column always throws, where the code's
  `&&` and `||` could skip it. Only plans built by hand have such conditions:
  `StatementMeansQuery` includes that those of the preprocessor never throw.
- `get_attribute_schema` asserts that the column exists. `plan_select` only
  projects columns of the statement's schema, and the instances do the same.
- `Printer` takes rows of given widths and is not part of `Shell`, where a reply is its
  header and rows. Prompts, the name of the statement's type and error texts are left out.
- The literals of `MCShell` have no semicolon in them: the loop looks for
  semicolons in characters, and a token is one character to it.

## Runs

| Run | Instance | Bounds | Shows |
|---|---|---|---|
| `operators` | `MCOperators` | 8 plans × 36 databases; the client is not bounded | every operator at every depth is a cursor; calls are only made on open operators; tuples fit schemas; `close` reaches every scan; the proofs' invariant `TreeInv` holds; the root implements `Cursor` (`INSTANCE … WITH`), safety and liveness |
| `executor` | `MCExecutor` | `MaxRuns = 2` | `execute` returns exactly the answer, twice, without a `close` in between; it returns |
| `schema` | `MCSchema` | `MaxItems = 4`, three columns | both maps and `get_relation_schema` agree with the array under duplicates |
| `optimizer` | `MCOptimizer` | 12 plans, `MaxCalls = 3`, 6 databases | every node has one owner at every moment, schemas are fresh, rows stay, filters are low, exceptions come where they must |
| `planning` | `MCPlanning` | 5 statements, 7 databases, `MaxCalls = 1` | every statement gets a plan that answers it, before and after optimization, and that the executor accepts, with no stale schema |
| `preprocess` | `MCPreprocess` | 3731 queries over two relations | a query becomes a statement that means the same, or is refused as its text says; no predicate is lost or owned twice |
| `dates` | `MCDates` | days 0–32 of months 0–13 of 7 years, 60 garbled texts | the accepted texts are the days of the calendar; bytes behind the text do not decide; order is chronological |
| `scanner` | `MCScanner` | every text of ≤ 4 of 13 characters; 28³ sequences of pieces of SQL | no word, number or operator is cut short; a literal ends where it should |
| `parser` | `MCParser` | any token within 6; lists of 10; conditions of 14 tokens; two texts in a row | the stacks hold what the symbols stand for, but for a misplaced look-ahead name; an accepted text has one reading and the query is that; nothing is refused that could become a statement |
| `printer` | `MCPrinter` | 2 results, ≤ 2 columns and rows | the bars of all rows are in line, also in a second result (the header is not padded); a table is whole or absent |
| `reading` | `MCReadLoop` | every input of ≤ 6 of 4 characters, `MaxBuffer = 8` | what is handed to the parser is the input, cut at the right newlines, and every finished statement is |
| `shell` | `MCShell` | 14 statements, 48 pairs of statements, the shell's database, `MaxBuffer = 45` | `main` implements `Dialogue`; every statement is answered; scans fit the storage; no exception once planning begins |

Why the bounds are enough to be interesting:

- *Plans* (`MCPlans`): a bare scan; filter and projection over a scan; joins of
  depth one and two, left-deep as the optimizer makes them and right-deep as the
  unit tests can build them, so that an inner side is itself a join that is
  reopened; a filter that lets nothing through; a filter that throws.
- *Databases*: relations with no row, one row, two different rows, two equal
  rows, and a relation the manager does not have. Two rows are enough to reopen an inner
  side and to tell the first, the next and the last row apart.
- *`MaxRuns = 2`*: the second execution starts in whatever state the first left,
  and a third would start in the same.
- *`MaxItems = 4`* over three columns: every column can appear twice, with another in
  between.
- *`MaxCalls = 3`*: both passes, in any order, and one again on its own result.
- *Queries* (`MCPreprocess`): all trees of depth three over a leaf that becomes a
  date comparison, one that reads a column, one that folds to true and one that
  folds to false: every rule of the folding meets every value on each side, below
  and above every connective, and ANDs remain at the top, nested and under ORs.
  All pairs of thirteen operands (each type, valid and invalid date texts,
  qualified, unambiguous, ambiguous and unknown columns), all operators, and all lists of
  one or two attributes over six lists of relations.
- *Optimizer plans*: what the planner builds for one, two and three relations, and what
  `test/` builds from the public classes: nested multi-way joins, filters and
  projections between joins, a relation joined twice, relations that are not
  there (first, second and last in a condition).

- *Dates*: years on both sides of every rule of the leap year, year 0 and 9999;
  texts of every length up to 11 and one wrong character at each place, just
  outside and inside the digits.
- *Scanner texts*: four characters hold an escaped quote, a float with its sign
  and a keyword with one more letter; three pieces put every token next to every
  two others with no space between.
- *Parser texts*: six arbitrary tokens reach into FROM, so that an error may come
  after each kind of symbol and with a name read ahead; lists of two qualified names
  and two relations; conditions of three leaves with all connectives, a
  negation and braces anywhere. A second text is parsed on the same context.
- *Shell statements*: each kind of reply; texts refused by the parser, in the
  middle of a query and after one; each of the preprocessor's refusals (relation, column, type, date); a
  relation listed twice; constants that fold; joins of two and three relations in
  every order `get_relations` may give; a condition below the join that leaves no row, so
  that `open` fails; a statement over three lines, two on one line, one with no
  semicolon, one with no newline. The pairs put a statement after each way in which the
  one before it may have ended. `MaxBuffer` is one more than the longest
  statement, so that the loop at the end of the input is entered.

Deadlock is checked in `operators`, `schema` and `parser`. The others may
really stop: a caller has executed, optimized or planned all it wanted, a text
is read, or the shell's buffer has reached its bound after the end of the input
(the code would read `EOF` for ever).

### Fairness

The program has one thread. A method that was called runs on until it returns,
so `OperatorStep`, `ExecuteLoop`, `OptimizerStep`, `PlanningStep` and
`PreprocessNext` are weakly fair, as are the parser with the scanner that feeds it and the loop
of `main` with all it calls (`ReadNext`, `ShellNext`: input is there to be read,
`EOF` included). What the client does (`Invoke`, `Execute`, calling the optimizer) is not:
it need not call. With that, TLC checks that every call is answered
(`ImplementsCursor`), every execution returns (`ExecuteReturns`), every
optimizer call returns (`OptimizerReturns`), every finished statement is handed to the parser
(`EveryStatementIsHandedOver`) and answered (`EveryStatementIsAnswered`), for
which every stage on the way must return. The
refinement of `Dialogue` is checked for safety, and its liveness as a property
of its own, `Abstract!EveryStatementIsAnswered`: TLC cannot evaluate `ENABLED` of the abstract
step through the refinement mapping.

## Properties worth knowing

- `GuardedGetNext`. A join answers `get_next` whether it is open or not, with a
  stale outer tuple if not. It works because of a discipline nobody wrote down: a
  parent pulls only from children whose last `open` returned true and which have
  not ended since. Filters, projections and joins keep it in every interleaving
  of reopening and closing.
- `EveryOperatorIsACursor`. For all nodes, not only the root, and across
  reopenings: the k-th row after an `open` is the k-th row of the node.
- `SameRows`, with `NothingIsLost` and `FiltersArePushedDown`. The optimizer keeps the *sequence*
  of rows, including where a relation is on both sides of a join and
  `build_join_trie` lets the right side win.
- `StatementMeansQuery` and `RefusesExactly` compare the result of name
  resolution, the date rewrite, folding and splitting with the meaning of the
  query as it was written. Together they say why the two exceptions of
  `Value::operator<` (different types) and of `Schema::get_attribute_id`
  (`at` on a missing key) never leave an execution: every query that could reach
  them is refused before.
- `PlanAnswersStatement` compares with the meaning of a select, written without plans.

- `ImplementsDialogue` puts all of that together, on the real database: the
  stages hand over what they should, and a turn leaves nothing behind for the
  next one, whichever stage it ended in.
- `ErrorsAreFoundEarly`. `main` has one `try` around all stages, so nothing in
  the code says where a statement may fail. It never fails once it is planned:
  rows that were fetched are not thrown away.
- `StacksMatchTheSymbols` compares the five stacks with the symbols at every moment of
  the parse, also in a text that will turn out wrong. The lengths always match, so no
  action takes from an empty stack. The contents match with one exception, which the
  run contains: in `select a b` the automaton reads `b`, and the scanner pushes it, before
  `attribute: ID` is reduced, whose action then pops `b` and leaves `a`. It takes a
  name ahead that cannot be shifted, then or later, so the text is refused
  (`RefusesOnlyErrors` and `ReadsTheStatement` see both sides of that) and `main` looks at
  the result before it looks at the query.
- `ReadyToExecute` includes `SchemasAreFresh`: operators look positions up in the schemas of
  the plan they are built from, so a stale one would be found by no test of the executor.

Type invariants are no runs of their own: `SingleOwner`, `PredicatesAreOwnedOnce` and
`StacksMatchTheSymbols` include those of their modules, `TreeInv` that of the operators,
and those of `Schema`, `Dates`, `Printer` and `ReadLoop` are proved.

What the models record about the program's edges, each of them visible in a run:

- `main` sees a semicolon inside a literal as the end of a statement, at the next
  newline; two statements on one line are one text to the parser, which refuses it.
- A NUL that was typed ends the text that the parser gets.
- At the end of the input the loop goes on for ever; what was not finished is not
  handed over.
- A byte beyond 127 may be the end of the text to the parser (where `char` is
  signed): after a semicolon, what follows it is ignored.
- A failed parse may leave half a query in its context; `main` looks at the
  result before it looks at the query.
- `1-1` is two numbers to the scanner, 1 and -1.

Two limits of `SameRows` are worth recording, both about a projection that drops a
column. In a plan with one relation on both sides of a join, where the *right* one stands
under such a projection, `build_join_trie` sends a filter on that column to the right,
where it cannot be evaluated. And a filter *above* a projection that has dropped its
column throws when it is executed, but `push_down_filter` carries it below the projection,
where it finds the column: `Filter(Projection(Join(S, G), S.b), S.a = 1)` has rows after
the pass and none before. The planner scans a relation once and projects only at the top,
above all filters, so it builds neither, and the instances hold none.

## Proofs

Eight modules hold the theorems. TLAPS checks them for every value of the
constants, under the assumptions named below, which TLC evaluates on every
instance.

| Theorem | Says | Property of a run |
|---|---|---|
| `OperatorsProofs!Invariance` | `Spec => []IInv` | |
| `OperatorsProofs!TypeCorrect` | `Spec => []TypeOK` | |
| `OperatorsProofs!NoPullFromClosed` | `Spec => []GuardedGetNext` | yes |
| `OperatorsProofs!TuplesFitSchemas` | `Spec => []Aligned` | yes |
| `OperatorsProofs!PositionsAgree` | `Spec => []CursorInv` | |
| `OperatorsProofs!OperatorsAreCursors` | `Spec => EveryOperatorIsACursor` | yes |
| `OperatorsProofs!RootRefinesCursor` | `Spec => C!Init /\ [][C!Next]_(C!vars)` | the safety part of `ImplementsCursor` |
| `OperatorsProofs!TreeInvariance` | `Spec => []TreeInv` | yes |
| `OperatorsProofs!CloseIsComplete` | `Spec => CloseReachesEveryScan` | yes |
| `OperatorsProofs!ExecutorInvariance` | `ExecutorSpec => []ExecutorInv` | |
| `OperatorsProofs!ExecuteAnswers` | `ExecutorSpec => []ResultIsTheAnswer` | yes |
| `OptimizerProofs!OptimizerInvariance` | `OptimizerSpec => []OptimizerInv` | |
| `OptimizerProofs!OptimizerSingleOwner` | `OptimizerSpec => []SingleOwner` | yes |
| `OptimizerProofs!OptimizerSchemas` | `OptimizerSpec => []SchemasAreFresh` | yes |
| `OptimizerProofs!OptimizerKeepsAll` | `OptimizerSpec => []NothingIsLost` | yes |
| `PushDownProofs!OptimizerRefuses` | `OptimizerSpec => []ThrowsOnlyIfRefused` | yes |
| `PushDownProofs!OptimizerPushesDown` | `OptimizerSpec => []FiltersArePushedDown` | yes |
| `DatesProofs!FormatDecided` | `DatesSpec => []FormatIsDecidedByTheText` | yes |
| `DatesProofs!CalendarAccepted` | `DatesSpec => []AcceptsTheCalendar` | yes |
| `DatesProofs!OrderCountsDays` | `DatesSpec => []OrderIsChronological` | yes |
| `ScannerProofs!TokensInvariance` | `ScannerSpec => []TokensInv` | |
| `ScannerProofs!TokensAreNotCut` | `ScannerSpec => []TokensAreWhole` | yes |
| `ScannerProofs!LiteralsInvariance` | `ScannerSpec => []LiteralsInv` | |
| `ScannerProofs!LiteralsStayClosed` | `ScannerSpec => []LiteralsAreOpaque` | yes |
| `PreprocessProofs!TypeCorrect` | `Spec => []TypeOK` | |
| `PreprocessProofs!MapsAgree` | `Spec => []MapsIndexTheArray` | yes |
| `PreprocessProofs!ScansGetTheirColumns` | `Spec => []RelationSchemaIsTheScan` | yes |
| `PreprocessProofs!OwnershipInvariance` | `PreprocessSpec => []OwnershipInv` | |
| `PreprocessProofs!PreprocessOwnsOnce` | `PreprocessSpec => []PredicatesAreOwnedOnce` | yes |
| `PreprocessProofs!PreprocessFolds` | `PreprocessSpec => []ConstantsAreFolded` | yes |
| `PreprocessProofs!PreprocessRefuses` | `PreprocessSpec => []RefusesExactly` | yes |
| `PreprocessProofs!PreprocessMeans` | `PreprocessSpec => []StatementMeansQuery` | yes |
| `ConsoleProofs!PrinterInvariance` | `PrinterSpec => []PrinterInv` | |
| `ConsoleProofs!TablesAlign` | `PrinterSpec => []RowsAlign` | yes |
| `ConsoleProofs!TablesAreWhole` | `PrinterSpec => []AllOrNothing` | yes |
| `ConsoleProofs!ReadInvariance` | `ReadSpec => []ReadInv` | |
| `ConsoleProofs!InputIsHandedOver` | `ReadSpec => []HandsOverTheInput` | yes |

*Assumptions.* Plans own their children and have the schemas that the constructors
compute (`PlansAssumption`); the rows of a database fit their scans
(`DatabasesAssumption`); a plan given to the optimizer is a tree of all its nodes, each with
one owner, as many children as its class has, and the schema that goes with theirs, the
columns of a scan being those of its relation (`GivenPlansAssumption`); the condition of a query is a tree of all its predicates, without
constants, as the parser builds it (`QueriesAssumption`); a catalog has named columns, none of
them `*`, and two columns of a relation have the same type when they have the same name
(`CatalogAssumption`: the name is all that a query can say of a column); a text that is a date
is one of the ordered values (`DateOfAssumption`), and so is what a row may have in a column
(`CellsAssumption`); texts are sequences of bytes (`TextsAssumption`)
and of characters (`ScannedTextsAssumption`); a
date is compared with dates of the calendar (`OtherDatesAssumption`; the
constructor throws on any other); headers and results are
sequences of lengths (`PrinterAssumption`); newline, semicolon and `EOF` are
different characters (`ReadAssumption`); a schema item has a relation and an
attribute (`SchemaItemsAssumption`). Plans of any shape and depth, databases
of any size, texts, tables and inputs of any length are covered.

*Operators: three invariants, each in the next.* Neither `GuardedGetNext` nor
`Aligned` is inductive. Whether a join may pull from its right child depends on
what its `open` found out earlier, so `ChildrenOK` of `IInv` says which children
are live at each point of each method, and that `l_tp` has the width of the left
child. That the child's liveness is not disturbed while its parent waits needs
`StackOK`: the stack is a path down the tree from the root, each frame waiting
for the next, and only the top can step. What a caller learns from a return is
`ReturnOK`: `ret.ok` is the callee's liveness, and a returned tuple has the width
of the callee's schema, which for a scan needs `IdsOK` (a tuple id is that of a
row).

`CursorInv` adds where every operator stands. `fetched[n]` rows were returned since
the last `open`; `PositionOK(n)` says what that means in terms of the children:
a scan's tuple id is its position; a filter has returned as many rows as pass the
condition among those its child has returned; a join holds the last row its outer
side has returned, and is done with the inner rows of all the outer rows before it
and with those its inner side has returned since it was reopened, each point
between two calls having its own variant (`Pending` counts the row that was returned to
it and not dealt with). `AnswerOK` says the same of
the value just returned. With that, each step is a step of the operator's own `Cursor`
or leaves it alone (`CursorStep`), which is both `EveryOperatorIsACursor` and, at
the root, the refinement. `Out(n)` is `RowsOf`, a function that is recursive over
the plan. That it satisfies its own equation is proved by strong induction over the
nodes (a child has a smaller number than its parent); from then on only its unfolding
at one node is used, because the argument follows the steps of the program and not the
tree.

`TreeInv` adds `ClosingOK`, for `close`. `ClosedBelow(n)` is said with a set
of nodes that contains `n` and is closed under children, so that the steps need no
induction over the tree; the set below the root is then all of the plan.

*Executor.* `ExecutorInv` is `CursorInv` with: `result` holds the rows
that the root has returned, but for the one that `execute` has yet to append, and only
a plan with a faulty filter throws. The proof uses `CursorStep` of the root
and nothing about the operators below.

*Optimizer.* `SingleOwner` is not inductive: whether a `set_child` overwrites a node,
or a returned pointer is dropped, depends on where the pass is. `OptimizerInv` is five
things, each needed for the next. `StructureOK` says which children of a node are
missing at every point of an activation on it (`ChooseShape`, `PushShape`), that a filter
that is carried has lost its child, and that only the top activation runs while those below
it wait. `OwnersOK` says the ownership as a function: `Holding` maps the places (children,
locals, `ret`, `root`) to the nodes in them, is injective, and reaches every live node; with
`HolesOK`, a node with a missing child is an activation's own or a carried filter. Each action
is then a permutation of places. `SchemasOK` says of every live node that its schema goes
with those of its children, where for a child that is away it is that of the node that will
come back: an activation that replaces its node (a filter that is carried down, a join that
takes the place of a multi-way join) keeps its schema, which for a multi-way join is a
statement about the joins of its first children (`Joined`). `Grounded` says that no set
of nodes hangs in circles, and `GivenOK` that what was given keeps its kind, condition and
relation. `SingleOwner` follows by counting places, `SchemasAreFresh` directly. For
`NothingIsLost`, the nodes of the finished plan that are not in `Tree` would each be held by
another of them, a circle; `Tree` itself is a fixed number of rounds, which is enough because
every round but the last adds a node (`TreeClosed`).

`RewriteInv` adds what the trie finds, for `ThrowsOnlyIfRefused` and `FiltersArePushedDown`.
`RelationsBelow` and `Support` are recursive over the plan, which is in pieces during a pass, so
the invariant speaks of any functions that satisfy their equations instead. `RelsOK(B)` says
which relations are below each node, counting a child that is away; that the directions of a
join are those of its two sides (`Sides`); and, if the given plan is not faulty, that
every filter, in the plan or carried, reads only relations below the place where it is. Then `at()`
finds whatever it is asked for, also at the joins further down. `DoneOK(D, S)` has the set
`D` of nodes the pass is done with, which is closed under children and holds whatever was
returned, and says where each filter in it stands: on a scan, or on a join whose trie says
`"Invalid"` to it. `PassesOK` says what a call starts with: without `push` alone, a pass over
the multi-way joins comes first and leaves none. At the end the plan is whole, the two
equations have one solution each (`Grounded`), and `B` and `S` are `RelationsBelow` and `Support`.

*Dates.* The loop's invariant is that `valid` says whether the first `i` characters
are as they should be; behind the end of the text only `SizeOk` decides. The order
is proved through `DaysUntil` and the days before a month, which grow by a year and
by a month respectively.

*Scanner.* `TokensInv` says that each token is the first rule of its text and that no
longer text at its place is matched by any rule. `TokensAreWhole` follows
from what the rules accept: a name stays a name with one more letter, a number with one
more digit, and a number with a dot and a digit is a float. `LiteralsInv` says that
the scanner stands outside of quotes between two tokens, if the text ends there, and
that the literals so far are the quoted text so far. A step from there
either begins with a quote, and then the escapes of the pattern and of the quoted text
agree up to the next quote that ends it (`EscapesAgree`), so that the longest match is
the literal to that quote and no longer one (`LiteralStep`), or else what is
matched has no quote in it (`PlainStep`). A text is any sequence of characters.

*Printer.* `PrinterInv` says that a cell that was measured fits its column
(`Fits`), that a row all of whose cells fit is as wide as the bars, whatever
the cells (`Printed`, by induction over the columns), and that `at()` can only
throw while measuring, before the first line is out.

*Reading.* `ReadInv` says of every turn where in the input it began (`Start`), that
the buffer is the input from there to what was read (`Got`), with `EOF`s behind its
end, that no newline in it ends a statement but the last, and what was handed before.
The ends of the
statements are a recursive function of the number of characters (`EndsUpto`), so that
one more character extends them as one step of the loop extends `handed`.

*Schema.* `MapsAgree` needs no strengthening beyond `TypeOK`: `MapsIndexTheArray`
speaks of the items mapped so far (`mapped`), so it holds inside the
constructor's loop too. `ScansGetTheirColumns` follows from it: the ids of a relation are
the last places of its columns, and counting the smaller ones numbers a finite set of
naturals in its order (`RanksNumberASet`).

*Preprocess.* `OwnershipInv` is built as that of the optimizer is, for another recursion.
`PredicatesOwned` says that `Holding`, from the places (children, the `node` and `lch` of each
activation, the returned pointer, `pending`, the query, the statement) to the nodes in them,
is injective and reaches every live node. `ActivationsOK` says what has been moved out of the
node of an activation: nothing on entry, the first child while that is folded, both while
the second is. `PredsOK` has the shapes, and that a child has a smaller number than its parent and
is no constant; a folded constant gets a new number, so what is returned for a node is either
a constant or smaller (`IsFolded`), which is why a refilled node keeps the order.
Only with that order does the set below a node
mean anything in every state: `SubPredicates` is recursive, and `BelowIs` proves that it is the
least set that is closed under children. `FoldConstant` drops such a set as a whole, and its
proof needs that whatever is below a node is held by what is below it (`BelowApart`).
`resolve` reads the leaves from left to right before anything moves, which is `LeavesAre`.

`FoldedInv` is about what is below the nodes that were returned, which no step may look at: there
is a set of nodes, closed under children, with no constant and no comparison of two constants,
that holds every pointer that a call has returned and that is not itself a constant. A return
adds at most one node to it. At the end the conditions are in it, and `BelowIs` gives the rest.

`VerdictInv` compares the stages of the preprocessor with `WellFormed`, which reads the query as
a whole. In every state `relations` is a suffix of FROM and the array is what the others have
appended (`NamesSo`), so `MapsIndexTheArray` says what a look-up by name finds: a column of FROM, and
for a bare name in as many relations as `NamedBy` has elements. The attributes
and leaves before the position reached are as the code rewrites them, with columns that exist and
types that fit, and those after it are still as written (`AttributesSo`, `LeavesSo`); `LeavesAre`
and `LeavesOnce` say that each leaf has one position. Folding and splitting drop leaves but
change no operand of those that stay, which is why no comparison there throws.
A stage that ends with an exception is then the `Verdict` of the query.

`MeaningInv` is for `StatementMeansQuery`. While folding is under way the tree is in pieces, and
a node whose children have been moved out cannot be evaluated. So the invariant does not
evaluate: it says that for every row there is a set `T` of nodes, those that hold of it
(`MeantBy`). A leaf is in `T` iff the code evaluates it to true, and never throws; a constant iff
it is true; a whole connective by which of its children are; and a node that an activation
has emptied by what the activation has in its hands (`lch`, `folded`, or the node of the
activation it waits for) and what is still below it (`ActivationMeans`). The node of the
first activation, and later `pending` and `conditions` together, are in `T` iff the query means
the row. A step changes `T` by one node at most: the constant that replaces a leaf is in
it iff the leaf was, a negated constant iff it was not, and what is returned for a node is in it
iff the node was (`ReturnMeans`), so nothing has to be said of the rest of the tree.
Before that, `Rewritten` says that the tree is as written and each leaf that has been resolved
says what it meant in the query (`LeafSays`), which rests on `VerdictInv`; when the last is
resolved, `T` is what `Means` computes (`TreeMeans`). At the end every node is
whole, and `evaluate` is read off `T` by induction from the children to the parents (`EvaluatesSo`).

*Induction.* The theorems of the library take a predicate as a parameter, which
the provers cannot instantiate. `Induction` states it for sets instead (a set
of naturals that contains 0 and successors is `Nat`), derives it from the least
element of a set, and from that the existence of functions that are defined by
primitive recursion (`RecursionExists`), which gives the recursive functions of the
models their equations. That is enough for induction over lengths and
positions, and over trees whose children come before their parents. What steps rewrite while
it is recursive is unfolded at one node, or described by a set of nodes as in `MeaningInv`.

*Only model-checked.* Liveness and fairness, also that of `Cursor` (`ExecuteReturns`,
`OptimizerReturns`, `EveryStatementIsHandedOver`, `EveryStatementIsAnswered`, and the liveness
of the two refinements). `SameRows`, which compares the rows of whole plans before and after
many rewritings: unlike a condition, a node that is away has a sequence of rows and a schema.
All properties of `Planner`, `Planning`, `Parser` and `Shell`: those of the parser depend on the
closures of its grammar's items, and the others on the meaning of statements and plans.

## Not modelled

- The tables of flex and bison (generated; the automaton is computed from the
  rules instead), `YYMAXDEPTH`, and the value of a number that does not fit an `int`.
- `to_string` except of `Date`, error texts and prompts.
- The warning of `preprocess.cpp:99-101`, that other attributes beside a `*` are ignored: what
  it says of them is modelled (they are), the call of `output_warn` is not.
- `SelectStmt::set_conditions` (nothing calls it), and the `return false` and
  `return nullptr` behind every `throw` of the preprocessor.
- A second `plan_stmt` on one statement, whose conditions the first has moved out:
  it has no caller.
- Sharing of values between tuples and the storage manager: no value can change.
- The CMake build and the tests themselves.

## What is left

Every component has its module, and all but the scanner, the dates and the printer are
composed in `Shell`, which takes tokens, ready dates and unprinted replies. What could be
proved next, in this order:

1. That the planner takes every condition once, and with it what `choose_join_sequence`
   is given.
2. `SameRows`, with an invariant like `MeaningInv`: for every database an assignment of rows to
   nodes that what is away goes by.
