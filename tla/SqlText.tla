------------------------------- MODULE SqlText -------------------------------
(***************************************************************************)
(* The tokens of the SQL of include/sql/lexer.l, the queries they are      *)
(* parsed into (include/sql/query), and a reference reading: what a text   *)
(* means, read off the whole of it at once.  Module Parser, which works    *)
(* token by token, is checked against it.                                  *)
(*                                                                         *)
(* A query of one of these shapes holds its predicate nodes, children      *)
(* before parents, and the place of the root, like the trees of Predicates.*)
(***************************************************************************)
EXTENDS Predicates, SequencesExt

CONSTANT LiteralOf   \* String(const char*): text of a STRING -> place among strings

\* num: the value of a number; a float counts in some small unit.
Token(tok, text, num) == [tok |-> tok, text |-> text, num |-> num]
Word(tok) == Token(tok, "", 0)
Id(name) == Token("ID", name, 0)

OpOf == [EQ |-> "=", LE |-> "<=", NE |-> "!=", LT |-> "<", GE |-> ">=", GT |-> ">"]

Literals == {"NUMBER", "FLOAT", "STRING"}
Keywords == {"EXIT", "SELECT", "FROM", "SEMICOLON", "COMMA", "STAR", "DOT", "WHERE",
             "LBRACE", "RBRACE", "NOT", "AND", "OR"}

\* UNKNOWN: a character that starts no token; HIGHBYTE: the same beyond 127.
Terminals == Keywords \cup DOMAIN OpOf \cup Literals \cup {"ID", "UNKNOWN", "HIGHBYTE", "EOF"}
Tokens == [tok : Terminals, text : STRING, num : Int]

NewQuery(type) ==
  [type |-> type, relations |-> <<>>, attributes |-> <<>>, preds |-> <<>>, root |-> NoPredicate]

LiteralValue(t) ==
  CASE t.tok = "NUMBER" -> Value("int", t.num)
    [] t.tok = "FLOAT"  -> Value("float", t.num)
    [] t.tok = "STRING" -> Value("string", LiteralOf[t.text])

-----------------------------------------------------------------------------
(* The reference reading: sets of readings, empty if there is none. *)

Toks(s) == [k \in DOMAIN s |-> s[k].tok]
Places(s, tok) == {k \in DOMAIN s : s[k].tok = tok}
MinOf(S) == CHOOSE x \in S : \A y \in S : x <= y
MaxOf(S) == CHOOSE x \in S : \A y \in S : x >= y

\* What stands between the commas.
Listed(s) ==
  FoldLeft(LAMBDA parts, t : IF t.tok = "COMMA" THEN Append(parts, <<>>)
                             ELSE Append(Front(parts), Append(Last(parts), t)),
           << <<>> >>, s)

NamedAttributes(s) ==
  CASE Toks(s) = <<"ID">>              -> {Attribute("", s[1].text)}
    [] Toks(s) = <<"ID", "DOT", "ID">> -> {Attribute(s[1].text, s[3].text)}
    [] OTHER                           -> {}

ListedAttributes(s) ==
  IF Toks(s) = <<"STAR">> THEN {Attribute("", "*")} ELSE NamedAttributes(s)

OperandsIn(s) ==
  {[attr |-> a] : a \in NamedAttributes(s)}
  \cup {OperandVal(LiteralValue(s[1])) : t \in {"is"} \cap (IF Len(s) = 1 /\ s[1].tok \in Literals
                                                            THEN {"is"} ELSE {})}

\* Trees as sequences of nodes, the root last.
NotTree(t) == Append(t, Connective("Not", <<Len(t)>>))

BinaryTree(kind, l, r) ==
  l \o [i \in DOMAIN r |-> [r[i] EXCEPT !.child = [k \in DOMAIN @ |-> @[k] + Len(l)]]]
    \o <<Connective(kind, <<Len(l), Len(l) + Len(r)>>)>>

LeafTrees(s) ==
  LET ops == {k \in DOMAIN s : s[k].tok \in DOMAIN OpOf}
  IN  UNION {{<<PredicateLeaf(OpOf[s[k].tok], l, r)>> :
                l \in OperandsIn(SubSeq(s, 1, k - 1)),
                r \in OperandsIn(SubSeq(s, k + 1, Len(s)))} : k \in ops}

(***************************************************************************)
(* A condition is split at its last OR outside of braces, else at its last *)
(* AND; what has neither is a negation, a condition in braces or a leaf.   *)
(***************************************************************************)
ConditionTrees(s) ==
  LET n == Len(s)
      depth[k \in 0 .. n] ==
        IF k = 0 THEN 0
        ELSE depth[k - 1] + (CASE s[k].tok = "LBRACE" -> 1 [] s[k].tok = "RBRACE" -> -1
                               [] OTHER -> 0)
      trees[p \in (1 .. n + 1) \X (0 .. n)] ==
        LET lo == p[1]
            hi == p[2]
            at(t) == {k \in Places(s, t) : k \in lo + 1 .. hi - 1 /\ depth[k] = depth[lo - 1]}
            split(kind, k) == {BinaryTree(kind, l, r) : l \in trees[<<lo, k - 1>>],
                                                        r \in trees[<<k + 1, hi>>]}
        IN  CASE lo > hi          -> {}
              [] at("OR") # {}    -> split("Or", MaxOf(at("OR")))
              [] at("AND") # {}   -> split("And", MaxOf(at("AND")))
              [] s[lo].tok = "NOT" -> {NotTree(t) : t \in trees[<<lo + 1, hi>>]}
              [] s[lo].tok = "LBRACE" /\ s[hi].tok = "RBRACE" -> trees[<<lo + 1, hi - 1>>]
              [] OTHER            -> LeafTrees(SubSeq(s, lo, hi))
  IN  trees[<<1, n>>]

SelectReadings(s) ==
  LET from  == MinOf(Places(s, "FROM"))
      where == MinOf(Places(s, "WHERE") \cup {Len(s)})
      attrs == Listed(SubSeq(s, 2, from - 1))
      rels  == Listed(SubSeq(s, from + 1, where - 1))
      trees == IF where = Len(s) THEN {<<>>}
               ELSE ConditionTrees(SubSeq(s, where + 1, Len(s) - 1)) \ {<<>>}
  IN  IF /\ from < where
         /\ \A k \in DOMAIN attrs : ListedAttributes(attrs[k]) # {}
         /\ \A k \in DOMAIN rels : Toks(rels[k]) = <<"ID">>
      THEN {[type |-> "Select",
             relations  |-> [k \in DOMAIN rels |-> rels[k][1].text],
             attributes |-> [k \in DOMAIN attrs |-> CHOOSE a \in ListedAttributes(attrs[k]) : TRUE],
             preds |-> t, root |-> Len(t)] : t \in trees}
      ELSE {}

Readings(s) ==
  IF Toks(s) = <<"EXIT", "SEMICOLON">> THEN {NewQuery("Exit")}
  ELSE IF /\ s # <<>> /\ s[1].tok = "SELECT" /\ s[Len(s)].tok = "SEMICOLON"
          /\ Places(s, "FROM") # {}
  THEN SelectReadings(s) ELSE {}
=============================================================================
