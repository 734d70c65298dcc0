------------------------------- MODULE Parser -------------------------------
(***************************************************************************)
(* sql_parse (src/sql/parser.cpp): the grammar of include/sql/yacc.y, run  *)
(* by the automaton that bison makes of it, and its actions on the stacks  *)
(* of the ParserContext (include/sql/parser.h).                            *)
(*                                                                         *)
(* The scanner pushes the text of a name or literal when it reads the      *)
(* token, actions pop it when a rule is reduced, and in between one more   *)
(* token may have been read ahead.  The automaton is that of the LR(0)     *)
(* items of the rules.  As in bison, a state that shifts no token reduces  *)
(* without reading one, and a token that is not shifted causes the         *)
(* reduction first, before it is found to be an error.                     *)
(*                                                                         *)
(* Abstracted: how the scanner cuts a text into tokens; yyerror's message; *)
(* YYMAXDEPTH.                                                             *)
(***************************************************************************)
EXTENDS SqlText, FiniteSets

CONSTANT Offered(_)   \* the tokens that may follow those read (TLC)

Rule(lhs, rhs, action) == [lhs |-> lhs, rhs |-> rhs, action |-> action]

\* Bug: a list has one member.
SelectListRules_single == <<Rule("sel_list", <<"sel_list_item">>, "none")>>

SelectListRules ==
  <<Rule("sel_list", <<"sel_list_item">>, "none"),
    Rule("sel_list", <<"sel_list", "COMMA", "sel_list_item">>, "none")>>

\* The action in the middle of select is a rule of its own.
StatementRules ==
  <<Rule("$accept", <<"command", "EOF">>, "none"),
    Rule("command", <<"exit">>, "none"),
    Rule("command", <<"select">>, "none"),
    Rule("exit", <<"EXIT", "SEMICOLON">>, "ExitCmd"),
    Rule("select", <<"SELECT", "$@1", "sel_list", "FROM", "from_list", "where_clause",
                     "SEMICOLON">>, "none"),
    Rule("$@1", <<>>, "SelectQuery"),
    Rule("sel_list_item", <<"STAR">>, "star"),
    Rule("sel_list_item", <<"attribute">>, "add_attribute"),
    Rule("attribute", <<"ID", "DOT", "ID">>, "qualified"),
    Rule("attribute", <<"ID">>, "unqualified"),
    Rule("from_list", <<"ID">>, "add_relation"),
    Rule("from_list", <<"from_list", "COMMA", "ID">>, "add_relation")>>

ConditionRules ==
  <<Rule("where_clause", <<>>, "none"),
    Rule("where_clause", <<"WHERE", "conditions">>, "set_condition"),
    Rule("conditions", <<"condition_operand", "compare_op", "condition_operand">>, "Leaf"),
    Rule("conditions", <<"LBRACE", "conditions", "RBRACE">>, "none"),
    Rule("conditions", <<"NOT", "conditions">>, "Not"),
    Rule("conditions", <<"conditions", "AND", "conditions">>, "And"),
    Rule("conditions", <<"conditions", "OR", "conditions">>, "Or"),
    Rule("condition_operand", <<"attribute">>, "OperandAttr"),
    Rule("condition_operand", <<"value">>, "OperandVal"),
    Rule("value", <<"NUMBER">>, "literal"),
    Rule("value", <<"FLOAT">>, "literal"),
    Rule("value", <<"STRING">>, "String"),
    Rule("compare_op", <<"EQ">>, "none"), Rule("compare_op", <<"LE">>, "none"),
    Rule("compare_op", <<"NE">>, "none"), Rule("compare_op", <<"LT">>, "none"),
    Rule("compare_op", <<"GE">>, "none"), Rule("compare_op", <<"GT">>, "none")>>

Rules == StatementRules \o SelectListRules \o ConditionRules

\* Bug: OR binds like AND.
Precedence_flat(t) == CASE t \in {"OR", "AND"} -> 1 [] t = "NOT" -> 3 [] OTHER -> 0

\* %left OR, %left AND, %right NOT; 0 for what has none.
Precedence(t) == CASE t = "OR" -> 1 [] t = "AND" -> 2 [] t = "NOT" -> 3 [] OTHER -> 0

-----------------------------------------------------------------------------
(* The automaton.  A state is given by its kernel of items: <<rule, dot>>. *)

Symbol(it) == IF it[2] < Len(Rules[it[1]].rhs) THEN Rules[it[1]].rhs[it[2] + 1] ELSE "end"

\* What the first symbols of a symbol's own rules are, and of theirs.
LeftCorners ==
  LET firsts(S) == {Rules[r].rhs[1] : r \in {x \in DOMAIN Rules : Rules[x].lhs \in S
                                                             /\ Rules[x].rhs # <<>>}}
      upto(X) == FoldLeft(LAMBDA S, r : S \cup firsts(S), {X}, StatementRules)
  IN  [X \in {"end"} \cup UNION {{Rules[r].lhs} \cup {Rules[r].rhs[k] : k \in DOMAIN Rules[r].rhs} :
                                  r \in DOMAIN Rules} |-> upto(X)]

\* The items of a state: those of the kernel, and the rules that may start there.
Closure(kernel) ==
  LET begins == UNION {LeftCorners[Symbol(it)] : it \in kernel}
  IN  kernel \cup {<<r, 0>> : r \in {x \in DOMAIN Rules : Rules[x].lhs \in begins}}

Goto(kernel, X) == {<<it[1], it[2] + 1>> : it \in {x \in Closure(kernel) : Symbol(x) = X}}

Completed(kernel) == {it[1] : it \in {x \in Closure(kernel) : Symbol(x) = "end"}}

\* The precedence of a rule is that of its last token.
RulePrecedence(r) ==
  LET p == {k \in DOMAIN Rules[r].rhs : Rules[r].rhs[k] \in Terminals}
  IN  IF p = {} THEN 0 ELSE Precedence(Rules[r].rhs[MaxOf(p)])

\* All binary connectives are left associative: a tie is reduced.
Shiftable(kernel) ==
  {t \in {Symbol(it) : it \in Closure(kernel)} \cap Terminals :
     ~\E r \in Completed(kernel) : Precedence(t) # 0 /\ RulePrecedence(r) >= Precedence(t)}

-----------------------------------------------------------------------------
VARIABLES
  read,       \* the tokens read so far
  stack,      \* the states of the automaton with their symbols and values
  lookahead,  \* <<>>, or the token that was read ahead
  context,    \* ParserContext
  result      \* "parsing", "0" (accepted), "1" (syntax error)

parserVars == <<read, stack, lookahead, context, result>>

Bottom == [kernel |-> {<<1, 0>>}, sym |-> "bottom", token |-> Word("EOF")]

EmptyContext ==
  [query |-> NewQuery("none"), str |-> <<>>, attr |-> <<>>, value |-> <<>>,
   operand |-> <<>>, pred |-> <<>>]

\* Bug: the stacks keep what a parse before has left on them.
clear_query(c) == [c EXCEPT !.query = NewQuery("none")]

clear(c) == EmptyContext

Here == stack[Len(stack)].kernel

\* A byte beyond 127 is a negative char in some builds, which means end of input.
Classes(t) ==
  CASE t.tok = "HIGHBYTE" -> {"EOF", "UNKNOWN"} [] OTHER -> {t.tok}

\* yylex: names and string literals go on str_stack_.
yylex(t) ==
  /\ result = "parsing" /\ lookahead = <<>> /\ Shiftable(Here) # {}
  /\ read' = Append(read, t)
  /\ \E class \in Classes(t) : lookahead' = <<[t EXCEPT !.tok = class]>>
  /\ context' = IF t.tok \in {"ID", "STRING"} THEN [context EXCEPT !.str = Append(@, t.text)]
                ELSE context
  /\ UNCHANGED <<stack, result>>

Shift ==
  /\ result = "parsing" /\ lookahead # <<>> /\ lookahead[1].tok \in Shiftable(Here)
  /\ stack' = Append(stack, [kernel |-> Goto(Here, lookahead[1].tok),
                             sym |-> lookahead[1].tok, token |-> lookahead[1]])
  /\ lookahead' = <<>>
  /\ result' = IF lookahead[1].tok = "EOF" THEN "0" ELSE result
  /\ UNCHANGED <<read, context>>

\* The attribute comes off str_stack_ first, then the relation.
Qualified(c) ==
  [c EXCEPT !.str = Front(Front(@)),
            !.attr = Append(@, Attribute(Last(Front(c.str)), Last(c.str)))]

\* The new node: the right operand comes off first.
Leaf(c, op) ==
  [c EXCEPT !.query.preds = Append(@, PredicateLeaf(op, Last(Front(c.operand)), Last(c.operand))),
            !.operand = Front(Front(@)), !.pred = Append(@, Len(c.query.preds) + 1)]

Combine(c, kind) ==
  LET rest == IF kind = "Not" THEN Front(c.pred) ELSE Front(Front(c.pred))
  IN  [c EXCEPT !.query.preds = Append(@, Connective(kind, SubSeq(c.pred, Len(rest) + 1, Len(c.pred)))),
                !.pred = Append(rest, Len(c.query.preds) + 1)]

\* The action of a rule; tokens are the values of its symbols.
Perform(action, c, tokens) ==
  CASE action \in {"ExitCmd"}    -> [c EXCEPT !.query = NewQuery("Exit")]
    [] action = "SelectQuery"    -> [c EXCEPT !.query = NewQuery("Select")]
    [] action = "star"           -> [c EXCEPT !.query.attributes = Append(@, Attribute("", "*"))]
    [] action = "add_attribute"  -> [c EXCEPT !.query.attributes = Append(@, Last(c.attr)),
                                              !.attr = Front(@)]
    [] action = "qualified"      -> Qualified(c)
    [] action = "unqualified"    -> [c EXCEPT !.attr = Append(@, Attribute("", Last(c.str))),
                                              !.str = Front(@)]
    [] action = "add_relation"   -> [c EXCEPT !.query.relations = Append(@, Last(c.str)),
                                              !.str = Front(@)]
    [] action = "set_condition"  -> [c EXCEPT !.query.root = Last(c.pred), !.pred = Front(@)]
    [] action = "Leaf"           -> Leaf(c, OpOf[tokens[2].tok])
    [] action \in {"Not", "And", "Or"} -> Combine(c, action)
    [] action = "OperandAttr"    -> [c EXCEPT !.operand = Append(@, [attr |-> Last(c.attr)]),
                                              !.attr = Front(@)]
    [] action = "OperandVal"     -> [c EXCEPT !.operand = Append(@, OperandVal(Last(c.value))),
                                              !.value = Front(@)]
    [] action = "literal"        -> [c EXCEPT !.value = Append(@, LiteralValue(tokens[1]))]
    [] action = "String"         -> [c EXCEPT !.value = Append(@, Value("string", LiteralOf[Last(c.str)])),
                                              !.str = Front(@)]
    [] action = "none"           -> c

MustReduce ==
  \/ lookahead = <<>> /\ Shiftable(Here) = {}
  \/ lookahead # <<>> /\ lookahead[1].tok \notin Shiftable(Here)

\* A rule is reduced: its symbols give way to its left side, with the first's value.
Reduce ==
  /\ result = "parsing" /\ MustReduce
  /\ \E r \in Completed(Here) :
       LET n      == Len(Rules[r].rhs)
           below  == SubSeq(stack, 1, Len(stack) - n)
           tokens == [k \in 1 .. n |-> stack[Len(stack) - n + k].token]
       IN  /\ stack' = Append(below, [kernel |-> Goto(Last(below).kernel, Rules[r].lhs),
                                      sym    |-> Rules[r].lhs,
                                      token  |-> IF n = 0 THEN Word("EOF") ELSE tokens[1]])
           /\ context' = Perform(Rules[r].action, context, tokens)
  /\ UNCHANGED <<read, lookahead, result>>

\* No rule of the grammar uses the token `error': the parse is given up.
SyntaxError ==
  /\ result = "parsing" /\ MustReduce /\ Completed(Here) = {}
  /\ result' = "1"
  /\ UNCHANGED <<read, stack, lookahead, context>>

\* The next call of sql_parse, on a context that may have been used before.
sql_parse ==
  /\ result # "parsing"
  /\ read' = <<>> /\ stack' = <<Bottom>> /\ lookahead' = <<>> /\ result' = "parsing"
  /\ context' = clear(context)

ParserInit ==
  /\ read = <<>> /\ stack = <<Bottom>> /\ lookahead = <<>>
  /\ context = EmptyContext /\ result = "parsing"

ParserStep == Shift \/ Reduce \/ SyntaxError

ParserNext == ParserStep \/ (\E t \in Offered(read) : yylex(t)) \/ sql_parse

\* sql_parse runs to its end on the caller's thread, and the text has an end.
ParserSpec ==
  /\ ParserInit /\ [][ParserNext]_parserVars
  /\ WF_parserVars(ParserStep \/ \E t \in Offered(read) : yylex(t))

-----------------------------------------------------------------------------
(* Properties *)

CONSTANT Completions   \* ends that a statement may have (TLC)

ParserTypeOK ==
  /\ read \in Seq(Tokens) /\ lookahead \in Seq(Tokens) /\ Len(lookahead) <= 1
  /\ \A k \in DOMAIN stack : stack[k].kernel \subseteq (DOMAIN Rules) \X (0 .. 7)
  /\ \A k \in DOMAIN stack : stack[k].kernel # {} \/ stack[k].sym = "$accept"
  /\ context.str \in Seq(STRING) /\ context.attr \in Seq(AttributeNames)
  /\ context.value \in Seq(TypedValues) /\ context.operand \in Seq(Operands)
  /\ context.query.preds \in Seq(Predicates)
  /\ context.pred \in Seq(DOMAIN context.query.preds)
  /\ result \in {"parsing", "0", "1"}

(***************************************************************************)
(* The stacks hold, in order, what the symbols on the automaton's stack    *)
(* stand for and then the name read ahead: names, attributes (by the first *)
(* of their names), values, operands; of conditions there are as many.     *)
(*                                                                         *)
(* One reduction takes a wrong name.  In "select a b" the automaton reads  *)
(* b before it reduces attribute: ID, and its action then pops b and       *)
(* leaves a.  It happens only with a name ahead that is shifted neither    *)
(* then nor after any further reduction, so the text is refused and main   *)
(* drops the query.  The stacks have the right lengths even so: no action  *)
(* takes from an empty one, which would be undefined, in any text, and     *)
(* none takes what an earlier text has left behind.                        *)
(***************************************************************************)
IsName(t) == t.tok \in {"ID", "STRING"}

\* The tokens that the symbols of S on the automaton's stack begin with.
Held(S) ==
  LET entries == SelectSeq(stack, LAMBDA e : e.sym \in S)
  IN  [k \in DOMAIN entries |-> entries[k].token]

HeldNames == Held({"ID", "STRING"}) \o SelectSeq(lookahead, IsName)

\* A name was read ahead where none may stand.
Misplaced ==
  \E k \in DOMAIN lookahead : IsName(lookahead[k]) /\ lookahead[k].tok \notin Shiftable(Here)

BeginsWith(attr, t) ==
  attr.relation = t.text \/ (attr.relation = "" /\ attr.attribute = t.text)

IsOperand(operand, t) ==
  IF t.tok = "ID" THEN "attr" \in DOMAIN operand /\ BeginsWith(operand.attr, t)
  ELSE operand = OperandVal(LiteralValue(t))

Match(values, tokens, Says(_, _)) == \A k \in DOMAIN tokens : Says(values[k], tokens[k])

StacksMatchTheSymbols ==
  /\ ParserTypeOK
  /\ Len(context.str) = Len(HeldNames)
  /\ Len(context.attr) = Len(Held({"attribute"}))
  /\ Len(context.value) = Len(Held({"value"}))
  /\ Len(context.operand) = Len(Held({"condition_operand"}))
  /\ Len(context.pred) = Len(Held({"conditions"}))
  /\ \/ Misplaced
     \/ /\ Match(context.str, HeldNames, LAMBDA text, t : text = t.text)
        /\ Match(context.attr, Held({"attribute"}), BeginsWith)
        /\ Match(context.value, Held({"value"}), LAMBDA v, t : v = LiteralValue(t))
        /\ Match(context.operand, Held({"condition_operand"}), IsOperand)

(***************************************************************************)
(* A text that is accepted has exactly one reading, and the query is that  *)
(* one: the right relation to each attribute, the left and right side of   *)
(* every comparison, AND before OR, both from the left, NOT before both.   *)
(* Every name that was pushed was used: the stacks are empty.              *)
(***************************************************************************)
ReadsTheStatement ==
  result = "0" =>
    /\ Readings(Front(read)) = {context.query}
    /\ context = [EmptyContext EXCEPT !.query = context.query]

(***************************************************************************)
(* A text is refused at a token only if no statement begins like that: the *)
(* reductions made before the error is found lose no statement.            *)
(***************************************************************************)
RefusesOnlyErrors ==
  result = "1" =>
    IF lookahead[1].tok = "EOF" THEN Readings(Front(read)) = {}
    ELSE \A end \in Completions : Readings(read \o end) = {}
=============================================================================
