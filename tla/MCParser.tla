------------------------------ MODULE MCParser ------------------------------
(***************************************************************************)
(* Texts of four kinds, one token at a time: every token anywhere in the   *)
(* first tokens of a text; lists of attributes and relations; every        *)
(* comparison; conditions of up to three leaves with all connectives and   *)
(* braces.                                                                 *)
(***************************************************************************)
EXTENDS Parser

CONSTANTS
  AnyBound,         \* so many tokens are arbitrary
  ListBound,        \* so many tokens there are before the last of a list
  ConditionBound    \* so many tokens a condition of the fourth kind has at most

MCLiteralOf == [t \in {"'s'", "a", "b", ""} |-> IF t = "'s'" THEN 1 ELSE 2]

Names == {Id("a"), Id("b")}
Numbers == {Token("NUMBER", "", 1), Token("FLOAT", "", 25)}
Strings == {Token("STRING", "'s'", 0)}
Operands_ == Names \cup Numbers \cup Strings
Ops == {Word(op) : op \in DOMAIN OpOf}
Symbols_ == {Word(t) : t \in Keywords \cup {"UNKNOWN", "HIGHBYTE"}}
Ending == {Word("SEMICOLON"), Word("EOF")}

Begins == <<"SELECT", "STAR", "FROM", "ID", "WHERE">>
InCondition(r) == Len(r) >= 5 /\ SubSeq(Toks(r), 1, 5) = Begins

\* A leaf of the fourth kind is b = n, where n is its place in the text; there is
\* at most one negation and one pair of braces.
Connected(r) ==
  CASE Last(r).tok = "ID"     -> {Word("EQ")}
    [] Last(r).tok = "EQ"     -> {Token("NUMBER", "", Len(r))}
    [] Last(r).tok = "NUMBER" -> Ending \cup {Word(t) : t \in {"AND", "OR", "RBRACE"}}
    [] Last(r).tok = "RBRACE" -> Ending \cup {Word(t) : t \in {"AND", "OR", "RBRACE"}}
    [] OTHER                  -> {Id("b")} \cup {Word(t) : t \in {"NOT", "LBRACE"} \ {x.tok : x \in {r[k] : k \in DOMAIN r}}}

MCOffered(r) ==
  IF Len(r) > 0 /\ Last(r).tok = "SEMICOLON" THEN {Word(t) : t \in {"EOF", "SELECT", "HIGHBYTE"}}
  ELSE IF Len(r) < AnyBound THEN Operands_ \cup Ops \cup Symbols_ \cup Ending
  ELSE IF InCondition(r) /\ Len(r) < 9 /\ Last(r) # Id("b")
  THEN IF Len(r) = 5 THEN {Id("b"), Word("NOT"), Word("LBRACE")} \cup Operands_
       ELSE Connected(r) \cup (IF Last(r).tok \in DOMAIN OpOf \cup {"DOT"} THEN Operands_ ELSE {})
            \cup (IF Last(r).tok \in {"ID", "STRING", "FLOAT", "NUMBER"} THEN Ops \cup {Word("DOT")} ELSE {})
  ELSE IF InCondition(r) /\ Len(r) < 5 + ConditionBound THEN Connected(r)
  ELSE IF {r[k].tok : k \in DOMAIN r} \subseteq {"SELECT", "STAR", "ID", "DOT", "COMMA", "FROM"}
          /\ Len(r) < ListBound
  THEN (IF Last(r).tok = "ID" THEN {Word(t) : t \in {"DOT", "COMMA", "FROM", "SEMICOLON"}}
        ELSE Names \cup {Word("STAR"), Word("FROM")})
  ELSE Ending

\* From wherever a text may be left off to its end.
Texts(S) == {[k \in DOMAIN s |-> IF s[k] = "ID" THEN Id("a") ELSE Word(s[k])] : s \in S}

MCCompletions ==
  LET tail == {<<>>, <<"FROM", "ID">>, <<"ID">>, <<"ID", "FROM", "ID">>, <<"STAR", "FROM", "ID">>,
               <<"EQ", "ID">>, <<"ID", "EQ", "ID">>}
  IN  Texts({t \o [k \in 1 .. n |-> "RBRACE"] \o <<"SEMICOLON">> : t \in tail, n \in 0 .. 2}
            \cup {<<>>})
=============================================================================
