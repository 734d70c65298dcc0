------------------------------ MODULE Scanner ------------------------------
(***************************************************************************)
(* yylex (include/sql/lexer.l) on the text that scan_string was given: at  *)
(* each place the rule with the longest match wins, and the first of them  *)
(* if several match as much.  So the order of the rules tells a keyword    *)
(* from a name, and their lengths tell `or' from `order', a number from a  *)
(* float, `<' from `<=', and where a literal ends.                         *)
(*                                                                         *)
(* A text is a sequence of characters, each a string of length one (a      *)
(* backspace, which is white space too, is left out).  What the parser     *)
(* does with the tokens is in module Parser.                               *)
(***************************************************************************)
EXTENDS Integers, Sequences, FiniteSets

CONSTANTS
  Texts,     \* what is scanned
  Newline    \* the character \n

ASSUME ScannedTextsAssumption == Texts \subseteq Seq(STRING)

VARIABLES
  text,
  at,           \* how many characters have been matched
  tokens,       \* the tokens returned: [tok, from, to], their places in the text
  str_stack_    \* the texts pushed; the parser's pops are left out

scannerVars == <<text, at, tokens, str_stack_>>

-----------------------------------------------------------------------------
(* The patterns *)

Digits == {"0", "1", "2", "3", "4", "5", "6", "7", "8", "9"}

Letters ==
  {"a", "b", "c", "d", "e", "f", "g", "h", "i", "j", "k", "l", "m", "n", "o", "p", "q", "r",
   "s", "t", "u", "v", "w", "x", "y", "z", "A", "B", "C", "D", "E", "F", "G", "H", "I", "J",
   "K", "L", "M", "N", "O", "P", "Q", "R", "S", "T", "U", "V", "W", "X", "Y", "Z", "_"}

Quote == "'"
Backslash == "\\"

\* The patterns that are one word, in the order of the rules.
Words ==
  <<[tok |-> "EXIT",   word |-> <<"e", "x", "i", "t">>],
    [tok |-> "SELECT", word |-> <<"s", "e", "l", "e", "c", "t">>],
    [tok |-> "FROM",   word |-> <<"f", "r", "o", "m">>],
    [tok |-> "SEMICOLON", word |-> <<";">>], [tok |-> "COMMA", word |-> <<",">>],
    [tok |-> "STAR",   word |-> <<"*">>],    [tok |-> "DOT",   word |-> <<".">>],
    [tok |-> "WHERE",  word |-> <<"w", "h", "e", "r", "e">>],
    [tok |-> "LBRACE", word |-> <<"(">>],    [tok |-> "RBRACE", word |-> <<")">>],
    [tok |-> "NOT",    word |-> <<"n", "o", "t">>],
    [tok |-> "AND",    word |-> <<"a", "n", "d">>],
    [tok |-> "OR",     word |-> <<"o", "r">>],
    [tok |-> "EQ", word |-> <<"=">>],      [tok |-> "LE", word |-> <<"<", "=">>],
    [tok |-> "NE", word |-> <<"!", "=">>], [tok |-> "LT", word |-> <<"<">>],
    [tok |-> "GE", word |-> <<">", "=">>], [tok |-> "GT", word |-> <<">">>]>>

IsNumber(s) ==
  LET first == IF s[1] = "-" THEN 2 ELSE 1
  IN  first <= Len(s) /\ \A k \in first .. Len(s) : s[k] \in Digits

IsFloat(s) ==
  \E dot \in 2 .. Len(s) - 1 :
    /\ s[dot] = "." /\ IsNumber(SubSeq(s, 1, dot - 1))
    /\ \A k \in dot + 1 .. Len(s) : s[k] \in Digits

IsName(s) == s[1] \in Letters /\ \A k \in DOMAIN s : s[k] \in Letters \cup Digits

\* Bug: a backslash in a literal is a character like any other.
IsLiteral_unescaped(s) ==
  /\ Len(s) >= 2 /\ s[1] = Quote /\ s[Len(s)] = Quote
  /\ \A k \in 2 .. Len(s) - 1 : s[k] # Quote

\* The places in s, a literal from its first character, that a backslash takes along.
Escaped(s) ==
  LET escaped[k \in 0 .. Len(s)] == k > 2 /\ s[k - 1] = Backslash /\ ~escaped[k - 1]
  IN  escaped

\* A backslash takes the character behind it along, which is no newline.
IsLiteral(s) ==
  /\ Len(s) >= 2 /\ s[1] = Quote /\ s[Len(s)] = Quote /\ ~Escaped(s)[Len(s)]
  /\ \A k \in 2 .. Len(s) - 1 : IF Escaped(s)[k] THEN s[k] # Newline ELSE s[k] # Quote

WhiteSpace == {<<" ">>, <<"\t">>, <<"\r">>, <<"\f">>}

IsWord(s) == \E k \in DOMAIN Words : Words[k].word = s
WordToken(s) == Words[CHOOSE k \in DOMAIN Words : Words[k].word = s].tok

\* Bug: the rule of names stands before the keywords.
Matched_names(s) ==
  IF s = <<Newline>> THEN "white space"
  ELSE IF IsLiteral(s)       THEN "STRING"
  ELSE IF s \in WhiteSpace   THEN "white space"
  ELSE IF IsName(s)          THEN "ID"
  ELSE IF IsWord(s)          THEN WordToken(s)
  ELSE IF IsNumber(s)        THEN "NUMBER"
  ELSE IF IsFloat(s)         THEN "FLOAT"
  ELSE IF Len(s) = 1         THEN "UNKNOWN"
  ELSE "none"

\* The token of the first rule that matches all of s, in the order of the rules.
Matched(s) ==
  IF s = <<Newline>> THEN "white space"
  ELSE IF IsLiteral(s)       THEN "STRING"
  ELSE IF s \in WhiteSpace   THEN "white space"
  ELSE IF IsWord(s)          THEN WordToken(s)
  ELSE IF IsNumber(s)        THEN "NUMBER"
  ELSE IF IsFloat(s)         THEN "FLOAT"
  ELSE IF IsName(s)          THEN "ID"
  ELSE IF Len(s) = 1         THEN "UNKNOWN"
  ELSE "none"

-----------------------------------------------------------------------------
Ahead(n) == SubSeq(text, at + 1, at + n)
Lengths == {n \in 1 .. Len(text) - at : Matched(Ahead(n)) # "none"}

\* The longest match.
Length == CHOOSE n \in Lengths : \A m \in Lengths : m <= n

\* One rule of the scanner; white space is passed over.
MatchRule ==
  /\ at < Len(text)
  /\ LET n   == Length
         tok == Matched(Ahead(n))
     IN  /\ at' = at + n
         /\ tokens' = IF tok = "white space" THEN tokens
                      ELSE Append(tokens, [tok |-> tok, from |-> at + 1, to |-> at + n])
         /\ str_stack_' = IF tok \in {"ID", "STRING"} THEN Append(str_stack_, Ahead(n))
                          ELSE str_stack_
  /\ UNCHANGED text

ScannerInit == text \in Texts /\ at = 0 /\ tokens = <<>> /\ str_stack_ = <<>>

ScannerSpec == ScannerInit /\ [][MatchRule]_scannerVars

-----------------------------------------------------------------------------
(* Properties *)

(***************************************************************************)
(* No token is cut short by a rule that stands before the one that was     *)
(* meant: a name that begins with a keyword is a name, and a keyword is    *)
(* never followed by more of a word; a number has all its digits, and its  *)
(* fraction if it has one; `<=' is not `<' and `='.                        *)
(***************************************************************************)
After(t) == SubSeq(text, t.to + 1, Len(text))

StartsIn(s, S) == s # <<>> /\ s[1] \in S

Keywords == {"EXIT", "SELECT", "FROM", "WHERE", "NOT", "AND", "OR"}

TokensAreWhole ==
  \A k \in DOMAIN tokens :
    LET t   == tokens[k]
        end == After(t)
    IN  /\ t.tok \in Keywords \cup {"ID"} => ~StartsIn(end, Letters \cup Digits)
        /\ t.tok = "ID" => \A i \in DOMAIN Words : Words[i].word # SubSeq(text, t.from, t.to)
        /\ t.tok \in {"NUMBER", "FLOAT"} => ~StartsIn(end, Digits)
        /\ t.tok = "NUMBER" /\ StartsIn(end, {"."}) => ~StartsIn(Tail(end), Digits)
        /\ t.tok \in {"LT", "GT"} => ~StartsIn(end, {"="})

(***************************************************************************)
(* What stands in quotes is one literal: keywords, semicolons, newlines    *)
(* and escaped quotes in it are no tokens, and nothing outside of quotes   *)
(* becomes part of a literal.  Quotes are told from left to right; a text  *)
(* that leaves one open, or escapes a newline, is not meant.               *)
(***************************************************************************)
\* "out", "in" or "escape" behind each character; "bad" after an escaped newline.
Quoted(before, c) ==
  CASE before = "out"    -> IF c = Quote THEN "in" ELSE "out"
    [] before = "in"     -> IF c = Quote THEN "out" ELSE IF c = Backslash THEN "escape" ELSE "in"
    [] before = "escape" -> IF c = Newline THEN "bad" ELSE "in"
    [] OTHER             -> "bad"

Quoting(t) ==
  LET q[k \in 0 .. Len(t)] == IF k = 0 THEN "out" ELSE Quoted(q[k - 1], t[k])
  IN  q

LiteralsAreOpaque ==
  LET q == Quoting(text)
      inside == {k \in 1 .. at : q[k] # "out" \/ q[k - 1] # "out"}
      literals == {k \in DOMAIN tokens : tokens[k].tok = "STRING"}
  IN  q[Len(text)] = "out" =>
        /\ inside = UNION {tokens[k].from .. tokens[k].to : k \in literals}
        /\ \A k \in literals : q[tokens[k].from - 1] = "out" /\ q[tokens[k].to] = "out"
        /\ \A k \in literals : \A i \in tokens[k].from .. tokens[k].to - 1 : q[i] # "out"
        /\ Len(str_stack_) = Cardinality(literals \cup {k \in DOMAIN tokens : tokens[k].tok = "ID"})
=============================================================================
