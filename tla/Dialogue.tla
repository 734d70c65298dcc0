------------------------------ MODULE Dialogue ------------------------------
(***************************************************************************)
(* What the shell promises: one reply to each statement, in their order,   *)
(* and each reply by the statement alone -- nothing that was typed before  *)
(* makes a difference, whether it was answered or refused.                 *)
(*                                                                         *)
(* The reply is read off the text: its reading (SqlText), the meaning of   *)
(* the query (QueryMeaning), and the rows of the database.  There is no    *)
(* parser, plan or operator here.                                          *)
(***************************************************************************)
EXTENDS SqlText, QueryMeaning

CONSTANT data   \* relation -> rows

VARIABLES
  todo,      \* the statements that are not answered yet, as their tokens
  replies    \* the replies given

dialogueVars == <<todo, replies>>

NoRows == [kind |-> "none", header |-> <<>>, rows |-> <<>>]
Refusal(kind) == [NoRows EXCEPT !.kind = kind]

(***************************************************************************)
(* A choice of a row for each relation of FROM, which count once however   *)
(* often they are listed; the values of the columns under a choice.        *)
(***************************************************************************)
FromOf(q) == {q.relations[k] : k \in DOMAIN q.relations}

RowChoices(q) ==
  {f \in [FromOf(q) -> UNION {DOMAIN data[rel] : rel \in FromOf(q)}] :
     \A rel \in FromOf(q) : f[rel] \in DOMAIN data[rel]}

PlaceOf(c) ==
  CHOOSE k \in DOMAIN Catalog[c.relation] : Catalog[c.relation][k].attribute_ = c.attribute

Chosen(q, f) ==
  [c \in ColumnsOf(q) |-> Value(TypeOf(q, c), data[c.relation][f[c.relation]][PlaceOf(c)])]

Shown(q, f) ==
  [k \in DOMAIN HeaderOf(q) |-> Chosen(q, f)[HeaderOf(q)[k]].data]

\* The rows as a bag: SQL leaves their order open.
Answer(q) ==
  LET holds == {f \in RowChoices(q) : Means(q, Chosen(q, f))}
  IN  [kind |-> "rows", header |-> HeaderOf(q),
       rows |-> [row \in {Shown(q, f) : f \in holds} |->
                   Cardinality({f \in holds : Shown(q, f) = row})]]

ReplyTo(s) ==
  LET readings == Readings(s)
      q        == CHOOSE r \in readings : TRUE
  IN  CASE readings = {}                      -> Refusal("syntax_error")
        [] readings = {NewQuery("Exit")}      -> Refusal("bye")
        [] OTHER -> IF Verdict(q) = "done" THEN Answer(q) ELSE Refusal(Verdict(q))

SaidBye == replies # <<>> /\ Last(replies).kind = "bye"

ReplyToNext ==
  /\ todo # <<>> /\ ~SaidBye
  /\ \E s \in {Head(todo)} : replies' = Append(replies, ReplyTo(s))
  /\ todo' = Tail(todo)

DialogueInit == replies = <<>> /\ todo \in Seq(Seq(Tokens))

DialogueSpec == DialogueInit /\ [][ReplyToNext]_dialogueVars

(***************************************************************************)
(* Every statement that was finished is answered in the end, until one     *)
(* says exit.                                                              *)
(***************************************************************************)
EveryStatementIsAnswered == <>(todo = <<>> \/ SaidBye)
=============================================================================
