--------------------------- MODULE ScannerProofs ---------------------------
(***************************************************************************)
(* Proofs about the scanner, for every text: no token is cut short, and    *)
(* what stands in quotes is one literal.                                   *)
(***************************************************************************)
EXTENDS Scanner, SequenceTheorems, FiniteSetTheorems, Induction, TLAPS

-----------------------------------------------------------------------------
(* The rules *)

WordTokens == {"EXIT", "SELECT", "FROM", "SEMICOLON", "COMMA", "STAR", "DOT", "WHERE", "LBRACE",
               "RBRACE", "NOT", "AND", "OR", "EQ", "LE", "NE", "LT", "GE", "GT"}

Kinds == WordTokens \cup {"white space", "STRING", "NUMBER", "FLOAT", "ID", "UNKNOWN", "none"}

(* What the proofs need of a word. *)
Plain(w) ==
  /\ w.tok \in WordTokens
  /\ w.word # <<>>
  /\ \A k \in DOMAIN w.word : w.word[k] # Quote
  /\ w.tok \in Keywords => IsName(w.word)
  /\ w.tok = "LT" => w.word = <<"<">>
  /\ w.tok = "GT" => w.word = <<">">>

LEMMA SpelledOut ==
  ASSUME NEW w \in Seq(Letters), w # <<>>
  PROVE  IsName(w) /\ \A k \in DOMAIN w : w[k] # Quote
<1>1. Quote \notin Letters
  BY DEF Quote, Letters
<1>2. \A k \in DOMAIN w : w[k] \in Letters
  OBVIOUS
<1>3. w[1] \in Letters
  OBVIOUS
<1> QED
  BY <1>1, <1>2, <1>3 DEF IsName

LEMMA OneSign ==
  ASSUME NEW c, c # Quote
  PROVE  <<c>> # <<>> /\ \A k \in DOMAIN <<c>> : <<c>>[k] # Quote
OBVIOUS

LEMMA TwoSigns ==
  ASSUME NEW c, NEW d, c # Quote, d # Quote
  PROVE  <<c, d>> # <<>> /\ \A k \in DOMAIN <<c, d>> : <<c, d>>[k] # Quote
OBVIOUS

(* A keyword is a name, and no word has a quote. *)
LEMMA WordsArePlain == \A i \in DOMAIN Words : Plain(Words[i])
<1>1. Plain(Words[1])
  <2>1. Words[1].tok = "EXIT" /\ Words[1].word = <<"e", "x", "i", "t">>
    BY DEF Words
  <2>2. <<"e", "x", "i", "t">> \in Seq(Letters) /\ <<"e", "x", "i", "t">> # <<>>
    BY DEF Letters
  <2> QED
    BY <2>1, <2>2, SpelledOut DEF Plain, WordTokens
<1>2. Plain(Words[2])
  <2>1. Words[2].tok = "SELECT" /\ Words[2].word = <<"s", "e", "l", "e", "c", "t">>
    BY DEF Words
  <2>2. <<"s", "e", "l", "e", "c", "t">> \in Seq(Letters) /\ <<"s", "e", "l", "e", "c", "t">> # <<>>
    BY DEF Letters
  <2> QED
    BY <2>1, <2>2, SpelledOut DEF Plain, WordTokens
<1>3. Plain(Words[3])
  <2>1. Words[3].tok = "FROM" /\ Words[3].word = <<"f", "r", "o", "m">>
    BY DEF Words
  <2>2. <<"f", "r", "o", "m">> \in Seq(Letters) /\ <<"f", "r", "o", "m">> # <<>>
    BY DEF Letters
  <2> QED
    BY <2>1, <2>2, SpelledOut DEF Plain, WordTokens
<1>4. Plain(Words[4])
  <2>1. Words[4].tok = "SEMICOLON" /\ Words[4].word = <<";">>
    BY DEF Words
  <2> QED
    BY <2>1, OneSign DEF Plain, WordTokens, Keywords, Quote
<1>5. Plain(Words[5])
  <2>1. Words[5].tok = "COMMA" /\ Words[5].word = <<",">>
    BY DEF Words
  <2> QED
    BY <2>1, OneSign DEF Plain, WordTokens, Keywords, Quote
<1>6. Plain(Words[6])
  <2>1. Words[6].tok = "STAR" /\ Words[6].word = <<"*">>
    BY DEF Words
  <2> QED
    BY <2>1, OneSign DEF Plain, WordTokens, Keywords, Quote
<1>7. Plain(Words[7])
  <2>1. Words[7].tok = "DOT" /\ Words[7].word = <<".">>
    BY DEF Words
  <2> QED
    BY <2>1, OneSign DEF Plain, WordTokens, Keywords, Quote
<1>8. Plain(Words[8])
  <2>1. Words[8].tok = "WHERE" /\ Words[8].word = <<"w", "h", "e", "r", "e">>
    BY DEF Words
  <2>2. <<"w", "h", "e", "r", "e">> \in Seq(Letters) /\ <<"w", "h", "e", "r", "e">> # <<>>
    BY DEF Letters
  <2> QED
    BY <2>1, <2>2, SpelledOut DEF Plain, WordTokens
<1>9. Plain(Words[9])
  <2>1. Words[9].tok = "LBRACE" /\ Words[9].word = <<"(">>
    BY DEF Words
  <2> QED
    BY <2>1, OneSign DEF Plain, WordTokens, Keywords, Quote
<1>10. Plain(Words[10])
  <2>1. Words[10].tok = "RBRACE" /\ Words[10].word = <<")">>
    BY DEF Words
  <2> QED
    BY <2>1, OneSign DEF Plain, WordTokens, Keywords, Quote
<1>11. Plain(Words[11])
  <2>1. Words[11].tok = "NOT" /\ Words[11].word = <<"n", "o", "t">>
    BY DEF Words
  <2>2. <<"n", "o", "t">> \in Seq(Letters) /\ <<"n", "o", "t">> # <<>>
    BY DEF Letters
  <2> QED
    BY <2>1, <2>2, SpelledOut DEF Plain, WordTokens
<1>12. Plain(Words[12])
  <2>1. Words[12].tok = "AND" /\ Words[12].word = <<"a", "n", "d">>
    BY DEF Words
  <2>2. <<"a", "n", "d">> \in Seq(Letters) /\ <<"a", "n", "d">> # <<>>
    BY DEF Letters
  <2> QED
    BY <2>1, <2>2, SpelledOut DEF Plain, WordTokens
<1>13. Plain(Words[13])
  <2>1. Words[13].tok = "OR" /\ Words[13].word = <<"o", "r">>
    BY DEF Words
  <2>2. <<"o", "r">> \in Seq(Letters) /\ <<"o", "r">> # <<>>
    BY DEF Letters
  <2> QED
    BY <2>1, <2>2, SpelledOut DEF Plain, WordTokens
<1>14. Plain(Words[14])
  <2>1. Words[14].tok = "EQ" /\ Words[14].word = <<"=">>
    BY DEF Words
  <2> QED
    BY <2>1, OneSign DEF Plain, WordTokens, Keywords, Quote
<1>15. Plain(Words[15])
  <2>1. Words[15].tok = "LE" /\ Words[15].word = <<"<", "=">>
    BY DEF Words
  <2> QED
    BY <2>1, TwoSigns DEF Plain, WordTokens, Keywords, Quote
<1>16. Plain(Words[16])
  <2>1. Words[16].tok = "NE" /\ Words[16].word = <<"!", "=">>
    BY DEF Words
  <2> QED
    BY <2>1, TwoSigns DEF Plain, WordTokens, Keywords, Quote
<1>17. Plain(Words[17])
  <2>1. Words[17].tok = "LT" /\ Words[17].word = <<"<">>
    BY DEF Words
  <2> QED
    BY <2>1, OneSign DEF Plain, WordTokens, Keywords, Quote
<1>18. Plain(Words[18])
  <2>1. Words[18].tok = "GE" /\ Words[18].word = <<">", "=">>
    BY DEF Words
  <2> QED
    BY <2>1, TwoSigns DEF Plain, WordTokens, Keywords, Quote
<1>19. Plain(Words[19])
  <2>1. Words[19].tok = "GT" /\ Words[19].word = <<">">>
    BY DEF Words
  <2> QED
    BY <2>1, OneSign DEF Plain, WordTokens, Keywords, Quote
<1>20. DOMAIN Words = 1 .. 19
  BY DEF Words
<1> QED
  BY <1>1, <1>2, <1>3, <1>4, <1>5, <1>6, <1>7, <1>8, <1>9, <1>10, <1>11, <1>12, <1>13, <1>14,
     <1>15, <1>16, <1>17, <1>18, <1>19, <1>20

(* What the first rule that matches says of the text matched. *)
LEMMA MatchedIs ==
  ASSUME NEW s \in Seq(STRING), s # <<>>
  PROVE  /\ Matched(s) \in Kinds
         /\ Matched(s) = "none" =>
              ~IsLiteral(s) /\ ~IsWord(s) /\ ~IsNumber(s) /\ ~IsFloat(s) /\ ~IsName(s) /\ Len(s) # 1
         /\ Matched(s) \in Keywords \cup {"ID"} => IsName(s)
         /\ Matched(s) = "ID" => ~IsWord(s)
         /\ Matched(s) = "NUMBER" => IsNumber(s)
         /\ Matched(s) = "FLOAT" => IsFloat(s)
         /\ Matched(s) = "LT" => s = <<"<">>
         /\ Matched(s) = "GT" => s = <<">">>
         /\ Matched(s) = "STRING" <=> IsLiteral(s)
<1>1. ASSUME IsWord(s)
      PROVE  \E i \in DOMAIN Words : Words[i].word = s /\ Words[i].tok = WordToken(s)
  BY <1>1 DEF IsWord, WordToken
<1>2. ASSUME IsWord(s)
      PROVE  /\ WordToken(s) \in WordTokens
             /\ WordToken(s) \in Keywords => IsName(s)
             /\ WordToken(s) = "LT" => s = <<"<">>
             /\ WordToken(s) = "GT" => s = <<">">>
  BY <1>1, <1>2, WordsArePlain DEF Plain
<1>3. IsLiteral(s) => s # <<Newline>>
  BY DEF IsLiteral
<1>4. \A c \in {"white space", "STRING", "NUMBER", "FLOAT", "ID", "UNKNOWN", "none"} :
        c \notin WordTokens /\ c # "LT" /\ c # "GT" /\ c \notin Keywords
  BY DEF WordTokens, Keywords
<1>5. s = <<Newline>> \/ s \in WhiteSpace => Len(s) = 1
  <2>1. \A c : Len(<<c>>) = 1
    OBVIOUS
  <2> QED
    BY <2>1 DEF WhiteSpace
<1>6. CASE s = <<Newline>>
  <2>1. Matched(s) = "white space"
    BY <1>6 DEF Matched
  <2> QED
    BY <1>3, <1>4, <1>6, <2>1 DEF Kinds
<1>7. CASE IsLiteral(s)
  <2>1. Matched(s) = "STRING"
    BY <1>3, <1>7 DEF Matched
  <2> QED
    BY <1>4, <1>7, <2>1 DEF Kinds
<1>8. CASE s # <<Newline>> /\ ~IsLiteral(s) /\ s \in WhiteSpace
  <2>1. Matched(s) = "white space"
    BY <1>8 DEF Matched
  <2> QED
    BY <1>4, <1>8, <2>1 DEF Kinds
<1>9. CASE s # <<Newline>> /\ ~IsLiteral(s) /\ s \notin WhiteSpace /\ IsWord(s)
  <2>1. Matched(s) = WordToken(s)
    BY <1>9 DEF Matched
  <2>2. Matched(s) \notin {"white space", "STRING", "NUMBER", "FLOAT", "ID", "UNKNOWN", "none"}
    BY <1>2, <1>4, <1>9, <2>1
  <2> QED
    BY <1>2, <1>9, <2>1, <2>2 DEF Kinds
<1>10. CASE s # <<Newline>> /\ ~IsLiteral(s) /\ s \notin WhiteSpace /\ ~IsWord(s)
  <2>1. Matched(s) = IF IsNumber(s) THEN "NUMBER" ELSE IF IsFloat(s) THEN "FLOAT"
                     ELSE IF IsName(s) THEN "ID" ELSE IF Len(s) = 1 THEN "UNKNOWN" ELSE "none"
    BY <1>10 DEF Matched
  <2> QED
    BY <1>4, <1>10, <2>1 DEF Kinds
<1> QED
  BY <1>6, <1>7, <1>8, <1>9, <1>10

(* Only a literal begins with a quote, if more than the quote is matched ... *)
LEMMA NothingElseHasQuotes ==
  ASSUME NEW s \in Seq(STRING), s # <<>>, Matched(s) \notin {"STRING", "none"},
         s[1] # Quote \/ Len(s) > 1
  PROVE  \A k \in DOMAIN s : s[k] # Quote
<1>1. ~IsLiteral(s)
  BY MatchedIs
<1>2. CASE Len(s) = 1
  BY <1>2
<1>3. CASE Len(s) # 1 /\ IsWord(s)
  BY <1>3, WordsArePlain DEF IsWord, Plain
<1>4. CASE Len(s) # 1 /\ IsNumber(s)
  <2>1. Quote \notin Digits /\ Quote # "-"
    BY DEF Quote, Digits
  <2> QED
    BY <1>4, <2>1 DEF IsNumber
<1>5. CASE Len(s) # 1 /\ IsFloat(s)
  <2>1. Quote \notin Digits /\ Quote # "-" /\ Quote # "."
    BY DEF Quote, Digits
  <2>2. PICK dot \in 2 .. Len(s) - 1 :
          /\ s[dot] = "." /\ IsNumber(SubSeq(s, 1, dot - 1))
          /\ \A k \in dot + 1 .. Len(s) : s[k] \in Digits
    BY <1>5 DEF IsFloat
  <2> DEFINE u == SubSeq(s, 1, dot - 1)
  <2>3. Len(u) = dot - 1 /\ \A k \in 1 .. dot - 1 : u[k] = s[k]
    BY SubSeqProperties
  <2>4. \A k \in 1 .. Len(u) : u[k] # Quote
    BY <2>1, <2>2, <2>3 DEF IsNumber
  <2> HIDE DEF u
  <2>5. ASSUME NEW k \in DOMAIN s PROVE s[k] # Quote
    <3>1. k \in 1 .. dot - 1 \/ k = dot \/ k \in dot + 1 .. Len(s)
      OBVIOUS
    <3> QED
      BY <2>1, <2>2, <2>3, <2>4, <3>1
  <2> QED
    BY <2>5
<1>6. CASE Len(s) # 1 /\ IsName(s)
  <2>1. Quote \notin Digits /\ Quote \notin Letters
    BY DEF Quote, Digits, Letters
  <2> QED
    BY <1>6, <2>1 DEF IsName
<1>7. s = <<Newline>> \/ s \in WhiteSpace => Len(s) = 1
  <2>1. \A c : Len(<<c>>) = 1
    OBVIOUS
  <2> QED
    BY <2>1 DEF WhiteSpace
<1> QED
  BY <1>1, <1>2, <1>3, <1>4, <1>5, <1>6, <1>7 DEF Matched

-----------------------------------------------------------------------------
(* Longer matches *)

LEMMA CutIs ==
  ASSUME NEW t \in Seq(STRING), NEW a \in 1 .. Len(t), NEW b \in a .. Len(t)
  PROVE  LET s == SubSeq(t, a, b)
         IN  /\ s \in Seq(STRING) /\ s # <<>>
             /\ Len(s) = b - a + 1
             /\ \A k \in 1 .. b - a + 1 : s[k] = t[a + k - 1]
             /\ s[1] = t[a]
<1> DEFINE s == SubSeq(t, a, b)
<1>1. \A i \in a .. b : t[i] \in STRING
  OBVIOUS
<1>2. s \in Seq(STRING) /\ Len(s) = b - a + 1 /\ \A k \in 1 .. b - a + 1 : s[k] = t[a + k - 1]
  BY <1>1, SubSeqProperties
<1> HIDE DEF s
<1>3. s # <<>>
  BY <1>2
<1>4. s[1] = t[a]
  <2>1. 1 \in 1 .. b - a + 1 /\ a + 1 - 1 = a
    OBVIOUS
  <2> QED
    BY <1>2, <2>1
<1> QED
  BY <1>2, <1>3, <1>4 DEF s

(* One more character: what was matched, and the character behind it. *)
LEMMA CutGrows ==
  ASSUME NEW t \in Seq(STRING), NEW a \in 1 .. Len(t), NEW b \in a .. Len(t), b < Len(t)
  PROVE  LET s == SubSeq(t, a, b)
             u == SubSeq(t, a, b + 1)
         IN  /\ u \in Seq(STRING) /\ u # <<>>
             /\ Len(u) = Len(s) + 1
             /\ \A k \in 1 .. Len(s) : u[k] = s[k]
             /\ u[Len(s) + 1] = t[b + 1]
             /\ u[1] = s[1]
<1> DEFINE s == SubSeq(t, a, b)
           u == SubSeq(t, a, b + 1)
<1>1. /\ Len(s) = b - a + 1
      /\ \A k \in 1 .. b - a + 1 : s[k] = t[a + k - 1]
      /\ s[1] = t[a]
  BY CutIs
<1>2. b + 1 \in a .. Len(t)
  OBVIOUS
<1>3. /\ u \in Seq(STRING) /\ u # <<>> /\ Len(u) = (b + 1) - a + 1
      /\ \A k \in 1 .. (b + 1) - a + 1 : u[k] = t[a + k - 1]
      /\ u[1] = t[a]
  BY <1>2, CutIs
<1> HIDE DEF s, u
<1>4. Len(u) = Len(s) + 1
  BY <1>1, <1>3
<1>5. \A k \in 1 .. Len(s) : u[k] = s[k]
  BY <1>1, <1>3
<1>6. u[Len(s) + 1] = t[b + 1]
  <2> DEFINE k == b - a + 2
  <2>1. k \in 1 .. (b + 1) - a + 1 /\ a + k - 1 = b + 1 /\ k = (b - a + 1) + 1
    OBVIOUS
  <2> HIDE DEF k
  <2>2. u[k] = t[b + 1]
    BY <1>3, <2>1
  <2> QED
    BY <1>1, <2>1, <2>2
<1> QED
  BY <1>1, <1>3, <1>4, <1>5, <1>6 DEF s, u

LEMMA NameGrows ==
  ASSUME NEW t \in Seq(STRING), NEW a \in 1 .. Len(t), NEW b \in a .. Len(t), b < Len(t),
         IsName(SubSeq(t, a, b)), t[b + 1] \in Letters \cup Digits
  PROVE  IsName(SubSeq(t, a, b + 1))
<1> DEFINE s == SubSeq(t, a, b)
           u == SubSeq(t, a, b + 1)
<1>1. /\ u \in Seq(STRING) /\ Len(u) = Len(s) + 1 /\ u[1] = s[1]
      /\ \A k \in 1 .. Len(s) : u[k] = s[k]
      /\ u[Len(s) + 1] = t[b + 1]
  BY CutGrows
<1>2. s \in Seq(STRING)
  BY CutIs
<1>3. IsName(s)
  OBVIOUS
<1> HIDE DEF s, u
<1>5. s[1] \in Letters /\ \A k \in 1 .. Len(s) : s[k] \in Letters \cup Digits
  BY <1>2, <1>3 DEF IsName
<1>4. ASSUME NEW k \in DOMAIN u PROVE u[k] \in Letters \cup Digits
  <2>1. Len(s) \in Nat /\ (k \in 1 .. Len(s) \/ k = Len(s) + 1)
    BY <1>1, <1>2
  <2> QED
    BY <1>1, <1>5, <2>1
<1>6. IsName(u)
  BY <1>1, <1>4, <1>5 DEF IsName
<1> QED
  BY <1>6 DEF u

LEMMA NumberGrows ==
  ASSUME NEW t \in Seq(STRING), NEW a \in 1 .. Len(t), NEW b \in a .. Len(t), b < Len(t),
         IsNumber(SubSeq(t, a, b)), t[b + 1] \in Digits
  PROVE  IsNumber(SubSeq(t, a, b + 1))
<1> DEFINE s == SubSeq(t, a, b)
           u == SubSeq(t, a, b + 1)
           first == IF s[1] = "-" THEN 2 ELSE 1
<1>1. /\ u \in Seq(STRING) /\ Len(u) = Len(s) + 1 /\ u[1] = s[1]
      /\ \A k \in 1 .. Len(s) : u[k] = s[k]
      /\ u[Len(s) + 1] = t[b + 1]
  BY CutGrows
<1>2. s \in Seq(STRING)
  BY CutIs
<1>3. first <= Len(s) /\ \A k \in first .. Len(s) : s[k] \in Digits
  BY DEF IsNumber
<1>4. first \in 1 .. 2 /\ (IF u[1] = "-" THEN 2 ELSE 1) = first
  BY <1>1
<1> HIDE DEF s, u, first
<1>5. ASSUME NEW k \in first .. Len(u) PROVE u[k] \in Digits
  <2>1. Len(s) \in Nat /\ k \in 1 .. Len(s) + 1 /\ (k \in first .. Len(s) \/ k = Len(s) + 1)
    BY <1>1, <1>2, <1>4
  <2> QED
    BY <1>1, <1>3, <1>4, <2>1
<1>6. first <= Len(u)
  BY <1>1, <1>2, <1>3, <1>4
<1>7. IsNumber(u)
  BY <1>4, <1>5, <1>6 DEF IsNumber
<1> QED
  BY <1>7 DEF u

LEMMA FloatGrows ==
  ASSUME NEW t \in Seq(STRING), NEW a \in 1 .. Len(t), NEW b \in a .. Len(t), b < Len(t),
         IsFloat(SubSeq(t, a, b)), t[b + 1] \in Digits
  PROVE  IsFloat(SubSeq(t, a, b + 1))
<1> DEFINE s == SubSeq(t, a, b)
           u == SubSeq(t, a, b + 1)
<1>1. /\ u \in Seq(STRING) /\ Len(u) = Len(s) + 1
      /\ \A k \in 1 .. Len(s) : u[k] = s[k]
      /\ u[Len(s) + 1] = t[b + 1]
  BY CutGrows
<1>2. s \in Seq(STRING) /\ Len(s) = b - a + 1
  BY CutIs
<1>3. PICK dot \in 2 .. Len(s) - 1 :
        /\ s[dot] = "." /\ IsNumber(SubSeq(s, 1, dot - 1))
        /\ \A k \in dot + 1 .. Len(s) : s[k] \in Digits
  BY DEF IsFloat
<1>4. SubSeq(s, 1, dot - 1) = SubSeq(u, 1, dot - 1)
  <2>1. a + (dot - 1) - 1 \in Int /\ a + 1 - 1 = a
    BY <1>2, <1>3
  <2>2. 1 \in 1 .. b - a + 1 /\ dot - 1 \in 1 .. b - a + 1
    BY <1>2, <1>3
  <2>3. 1 \in 1 .. (b + 1) - a + 1 /\ dot - 1 \in 1 .. (b + 1) - a + 1 /\ b + 1 \in 1 .. Len(t)
    BY <2>2
  <2>4. SubSeq(s, 1, dot - 1) = SubSeq(t, a + 1 - 1, a + (dot - 1) - 1)
    BY <2>2, SubSeqOfSubSeq
  <2>5. SubSeq(u, 1, dot - 1) = SubSeq(t, a + 1 - 1, a + (dot - 1) - 1)
    BY <2>3, SubSeqOfSubSeq
  <2> QED
    BY <2>4, <2>5
<1> HIDE DEF s, u
<1>5. ASSUME NEW k \in dot + 1 .. Len(u) PROVE u[k] \in Digits
  <2>1. \/ k \in dot + 1 .. Len(s) /\ k \in 1 .. Len(s)
        \/ k = Len(s) + 1
    BY <1>1, <1>2
  <2> QED
    BY <1>1, <1>3, <2>1
<1>6. dot \in 2 .. Len(u) - 1 /\ u[dot] = "."
  BY <1>1, <1>2, <1>3
<1>7. IsFloat(u)
  BY <1>3, <1>4, <1>5, <1>6 DEF IsFloat
<1> QED
  BY <1>7 DEF u

(* A number, a dot and a digit are a float. *)
LEMMA FractionFollows ==
  ASSUME NEW t \in Seq(STRING), NEW a \in 1 .. Len(t), NEW b \in a .. Len(t), b + 1 < Len(t),
         IsNumber(SubSeq(t, a, b)), t[b + 1] = ".", t[b + 2] \in Digits
  PROVE  IsFloat(SubSeq(t, a, b + 2))
<1> DEFINE s == SubSeq(t, a, b)
           u == SubSeq(t, a, b + 2)
           dot == b - a + 2
<1>1. b + 2 \in a .. Len(t)
  OBVIOUS
<1>2. /\ Len(u) = (b + 2) - a + 1
      /\ \A k \in 1 .. (b + 2) - a + 1 : u[k] = t[a + k - 1]
  BY <1>1, CutIs
<1>3. SubSeq(u, 1, dot - 1) = s
  <2>1. 1 \in 1 .. (b + 2) - a + 1 /\ dot - 1 \in 1 .. (b + 2) - a + 1 /\ b + 2 \in 1 .. Len(t)
    OBVIOUS
  <2>2. SubSeq(u, 1, dot - 1) = SubSeq(t, a + 1 - 1, a + (dot - 1) - 1)
    BY <2>1, SubSeqOfSubSeq
  <2>3. a + 1 - 1 = a /\ a + (dot - 1) - 1 = b
    OBVIOUS
  <2> QED
    BY <2>2, <2>3
<1>4. dot \in 2 .. ((b + 2) - a + 1) - 1 /\ dot + 1 = (b + 2) - a + 1
  OBVIOUS
<1>5. a + dot - 1 = b + 1 /\ a + (dot + 1) - 1 = b + 2
  OBVIOUS
<1>9. dot \in 1 .. (b + 2) - a + 1 /\ dot + 1 \in 1 .. (b + 2) - a + 1
  OBVIOUS
<1> HIDE DEF u, s, dot
<1>6. u[dot] = "." /\ u[dot + 1] \in Digits
  BY <1>2, <1>5, <1>9
<1>7. \A k \in dot + 1 .. Len(u) : k = dot + 1
  BY <1>2, <1>4
<1>8. IsFloat(u)
  BY <1>2, <1>3, <1>4, <1>6, <1>7 DEF IsFloat, s
<1> QED
  BY <1>8 DEF u

-----------------------------------------------------------------------------
(* The two recursions: which places are escaped, and what is quoted *)

LEMMA EscapedIs ==
  ASSUME NEW s \in Seq(STRING)
  PROVE  \A k \in 0 .. Len(s) :
           Escaped(s)[k] <=> k > 2 /\ s[k - 1] = Backslash /\ ~Escaped(s)[k - 1]
<1> DEFINE N == Len(s)
           next(k, e) == k > 2 /\ s[k - 1] = Backslash /\ ~e
           step == [k \in 1 .. N |-> [e \in BOOLEAN |-> next(k, e)]]
<1>1. N \in Nat
  OBVIOUS
<1>2. \A k, e : next(k, e) \in BOOLEAN
  OBVIOUS
<1>3. next(0, FALSE) = FALSE
  OBVIOUS
<1> HIDE DEF next, N
<1>4. step \in Steps(N, BOOLEAN)
  BY <1>2 DEF Steps
<1>5. \A k \in 1 .. N, e \in BOOLEAN : step[k][e] = next(k, e)
  OBVIOUS
<1> HIDE DEF step
<1>6. Solutions(N, BOOLEAN, FALSE, step) # {}
  BY <1>1, <1>4, RecursionExists
<1>7. PICK f \in [0 .. N -> BOOLEAN] : f[0] = FALSE /\ \A k \in 1 .. N : f[k] = step[k][f[k - 1]]
  BY <1>6 DEF Solutions
<1>8. ASSUME NEW k \in 0 .. N PROVE f[k] = next(k, f[k - 1])
  <2>1. CASE k = 0
    <3>1. next(0, f[0 - 1]) = FALSE
      BY DEF next
    <3> QED
      BY <1>7, <2>1, <3>1
  <2>2. CASE k # 0
    <3>1. k \in 1 .. N /\ k - 1 \in 0 .. N
      BY <1>1, <2>2
    <3>2. f[k - 1] \in BOOLEAN
      BY <3>1
    <3> QED
      BY <1>5, <1>7, <3>1, <3>2
  <2> QED
    BY <2>1, <2>2
<1>9. f = [k \in 0 .. N |-> next(k, f[k - 1])]
  <2>1. f = [k \in 0 .. N |-> f[k]]
    OBVIOUS
  <2> QED
    BY <1>8, <2>1
<1>10. Escaped(s) = [k \in 0 .. N |-> next(k, Escaped(s)[k - 1])]
  BY <1>9 DEF Escaped, N, next
<1> DEFINE g == Escaped(s)
<1>11. g = [k \in 0 .. N |-> next(k, g[k - 1])]
  BY <1>10
<1> HIDE DEF g
<1>12. \A k \in 0 .. N : g[k] = next(k, g[k - 1])
  BY <1>11
<1> QED
  BY <1>12 DEF g, N, next

States == {"out", "in", "escape", "bad"}

LEMMA QuotingIs ==
  ASSUME NEW t \in Seq(STRING)
  PROVE  /\ Quoting(t)[0] = "out"
         /\ \A k \in 1 .. Len(t) : Quoting(t)[k] = Quoted(Quoting(t)[k - 1], t[k])
         /\ \A k \in 0 .. Len(t) : Quoting(t)[k] \in States
<1> DEFINE N == Len(t)
           step == [k \in 1 .. N |-> [q \in States |-> Quoted(q, t[k])]]
<1>1. N \in Nat /\ "out" \in States
  BY DEF States
<1>2. \A q \in States : \A c : Quoted(q, c) \in States
  BY DEF States, Quoted
<1> HIDE DEF N
<1>3. step \in Steps(N, States)
  BY <1>2 DEF Steps
<1>4. \A k \in 1 .. N, q \in States : step[k][q] = Quoted(q, t[k])
  OBVIOUS
<1> HIDE DEF step
<1>5. Solutions(N, States, "out", step) # {}
  BY <1>1, <1>3, RecursionExists
<1>6. PICK f \in [0 .. N -> States] : f[0] = "out" /\ \A k \in 1 .. N : f[k] = step[k][f[k - 1]]
  BY <1>5 DEF Solutions
<1>7. ASSUME NEW k \in 1 .. N PROVE f[k] = Quoted(f[k - 1], t[k])
  <2>1. f[k - 1] \in States
    BY <1>1
  <2> QED
    BY <1>4, <1>6, <2>1
<1>8. f = [k \in 0 .. N |-> IF k = 0 THEN "out" ELSE Quoted(f[k - 1], t[k])]
  <2>1. f = [k \in 0 .. N |-> f[k]]
    OBVIOUS
  <2>2. \A k \in 0 .. N : f[k] = IF k = 0 THEN "out" ELSE Quoted(f[k - 1], t[k])
    BY <1>1, <1>6, <1>7
  <2> QED
    BY <2>1, <2>2
<1>9. Quoting(t) = [k \in 0 .. N |-> IF k = 0 THEN "out" ELSE Quoted(Quoting(t)[k - 1], t[k])]
  BY <1>8 DEF Quoting, N
<1> DEFINE g == Quoting(t)
<1>10. g = [k \in 0 .. N |-> IF k = 0 THEN "out" ELSE Quoted(g[k - 1], t[k])]
  BY <1>9
<1> HIDE DEF g
<1>11. g[0] = "out" /\ \A k \in 1 .. N : g[k] = Quoted(g[k - 1], t[k])
  <2>1. ASSUME NEW k \in 1 .. N PROVE g[k] = Quoted(g[k - 1], t[k])
    <3>1. k \in 0 .. N /\ k # 0
      BY <1>1
    <3> QED
      BY <1>10, <3>1
  <2>2. 0 \in 0 .. N
    BY <1>1
  <2> QED
    BY <1>10, <2>1, <2>2
<1>12. \A k \in 0 .. N : g[k] \in States
  <2>1. g[0] \in States
    BY <1>1, <1>11
  <2>2. \A k \in 1 .. N : g[k - 1] \in States => g[k] \in States
    BY <1>2, <1>11
  <2> QED
    BY <1>1, <2>1, <2>2, RecursionTyped
<1> QED
  BY <1>11, <1>12 DEF g, N

(* Behind an escaped newline nothing is right any more. *)
LEMMA BadStays ==
  ASSUME NEW t \in Seq(STRING), NEW a \in 0 .. Len(t), Quoting(t)[a] = "bad"
  PROVE  Quoting(t)[Len(t)] = "bad"
<1> DEFINE q == Quoting(t)
           N == Len(t) - a
           T == {j \in 0 .. N : q[a + j] = "bad"}
<1>1. N \in Nat /\ a + N = Len(t)
  OBVIOUS
<1>2. 0 \in T
  OBVIOUS
<1>3. ASSUME NEW j \in 0 .. N - 1, j \in T PROVE j + 1 \in T
  <2>1. a + j + 1 \in 1 .. Len(t) /\ (a + j + 1) - 1 = a + j /\ a + (j + 1) = a + j + 1
    OBVIOUS
  <2>2. q[a + j + 1] = Quoted(q[a + j], t[a + j + 1])
    BY <2>1, QuotingIs
  <2>3. q[a + j] = "bad"
    BY <1>3
  <2>4. q[a + j + 1] = "bad"
    BY <2>2, <2>3 DEF Quoted
  <2> QED
    BY <2>1, <2>4
<1> HIDE DEF T, N
<1>4. 0 .. N \subseteq T
  BY <1>1, <1>2, <1>3, IntervalInductionSet
<1>5. N \in T
  BY <1>1, <1>4
<1> QED
  BY <1>1, <1>5 DEF T

(* Within a literal: a place is escaped exactly behind a backslash that is not. *)
LEMMA EscapesAgree ==
  ASSUME NEW t \in Seq(STRING), NEW a \in 0 .. Len(t) - 2, NEW e \in 2 .. Len(t) - a,
         Quoting(t)[a + 1] = "in",
         \A i \in 1 .. e - 1 : Quoting(t)[a + i] \in {"in", "escape"},
         NEW s \in Seq(STRING), Len(s) >= e, \A k \in 1 .. Len(s) : s[k] = t[a + k]
  PROVE  \A k \in 2 .. e : Escaped(s)[k] <=> Quoting(t)[a + k - 1] = "escape"
<1> DEFINE q == Quoting(t)
           x == Escaped(s)
           T == {j \in 0 .. e - 2 : x[j + 2] <=> q[a + j + 1] = "escape"}
<1>1. \A k \in 0 .. Len(s) : x[k] <=> k > 2 /\ s[k - 1] = Backslash /\ ~x[k - 1]
  BY EscapedIs
<1>2. Len(s) \in Nat /\ Len(t) \in Nat /\ e - 2 \in Nat
  OBVIOUS
<1>3. 0 \in T
  <2>1. ~x[2]
    BY <1>1, <1>2
  <2>2. q[a + 0 + 1] = "in" /\ 0 + 2 = 2
    OBVIOUS
  <2> HIDE DEF x, q
  <2> QED
    BY <1>2, <2>1, <2>2
<1>4. ASSUME NEW j \in 0 .. (e - 2) - 1, j \in T PROVE j + 1 \in T
  <2>1. x[j + 2] <=> q[a + j + 1] = "escape"
    BY <1>4
  <2>2. /\ j + 3 \in 0 .. Len(s) /\ j + 3 > 2 /\ (j + 3) - 1 = j + 2 /\ (j + 1) + 2 = j + 3
        /\ j + 2 \in 1 .. Len(s) /\ a + (j + 2) = a + j + 2 /\ a + (j + 1) + 1 = a + j + 2
        /\ a + j + 2 \in 1 .. Len(t) /\ (a + j + 2) - 1 = a + j + 1
        /\ j + 1 \in 1 .. e - 1 /\ a + (j + 1) = a + j + 1 /\ j + 1 \in 0 .. e - 2
    BY <1>2
  <2>3. x[j + 3] <=> s[j + 2] = Backslash /\ ~x[j + 2]
    BY <1>1, <2>2
  <2>4. s[j + 2] = t[a + j + 2]
    BY <2>2
  <2>5. q[a + j + 2] = Quoted(q[a + j + 1], t[a + j + 2])
    BY <2>2, QuotingIs
  <2>6. q[a + j + 1] \in {"in", "escape"}
    BY <2>2
  <2> HIDE DEF x, q
  <2>7. q[a + j + 2] = "escape" <=> q[a + j + 1] = "in" /\ t[a + j + 2] = Backslash
    BY <2>5, <2>6 DEF Quoted, Quote, Backslash
  <2>8. x[j + 3] <=> q[a + j + 2] = "escape"
    BY <2>1, <2>3, <2>4, <2>6, <2>7
  <2> QED
    BY <2>2, <2>8
<1> HIDE DEF T
<1>5. 0 .. e - 2 \subseteq T
  BY <1>2, <1>3, <1>4, IntervalInductionSet
<1>6. ASSUME NEW k \in 2 .. e PROVE x[k] <=> q[a + k - 1] = "escape"
  <2>1. k - 2 \in T
    BY <1>5
  <2>2. (k - 2) + 2 = k /\ a + (k - 2) + 1 = a + k - 1
    OBVIOUS
  <2> QED
    BY <2>1, <2>2 DEF T
<1> QED
  BY <1>6

(* What lies ahead of a place. *)
LEMMA AheadIs ==
  ASSUME NEW t \in Seq(STRING), NEW a \in 0 .. Len(t) - 1, NEW m \in 1 .. Len(t) - a
  PROVE  LET s == SubSeq(t, a + 1, a + m)
         IN  /\ s \in Seq(STRING) /\ s # <<>> /\ Len(s) = m
             /\ \A k \in 1 .. m : s[k] = t[a + k]
             /\ s[1] = t[a + 1]
<1> DEFINE b == a + 1
           c == a + m
           s == SubSeq(t, b, c)
<1>1. b \in 1 .. Len(t) /\ c \in b .. Len(t) /\ c - b + 1 = m
  OBVIOUS
<1>2. \A k \in 1 .. m : b + k - 1 = a + k
  OBVIOUS
<1> HIDE DEF b, c
<1>3. /\ s \in Seq(STRING) /\ s # <<>> /\ Len(s) = m
      /\ \A k \in 1 .. m : s[k] = t[b + k - 1]
      /\ s[1] = t[b]
  BY <1>1, CutIs
<1> HIDE DEF s
<1>4. \A k \in 1 .. m : s[k] = t[a + k]
  BY <1>2, <1>3
<1> QED
  BY <1>3, <1>4 DEF s, b, c

(* A quote that is closed later opens a literal, which is as long as the quoted text. *)
LEMMA LiteralStep ==
  ASSUME NEW t \in Seq(STRING), NEW a \in 0 .. Len(t) - 1, NEW n \in 1 .. Len(t) - a,
         Quoting(t)[a] = "out", Quoting(t)[Len(t)] = "out", t[a + 1] = Quote,
         Matched(SubSeq(t, a + 1, a + n)) # "none",
         \A m \in n + 1 .. Len(t) - a : Matched(SubSeq(t, a + 1, a + m)) = "none"
  PROVE  /\ n >= 2 /\ Matched(SubSeq(t, a + 1, a + n)) = "STRING"
         /\ Quoting(t)[a + n] = "out"
         /\ \A i \in a + 1 .. a + n - 1 : Quoting(t)[i] # "out"
<1> DEFINE q == Quoting(t)
           N == Len(t)
           closed == {j \in a + 2 .. N : q[j] = "out"}
<1>1. N \in Nat /\ \A k \in 1 .. N : q[k] = Quoted(q[k - 1], t[k])
  BY QuotingIs
<1>2. q[a + 1] = "in"
  <2>1. q[a + 1] = Quoted(q[a], t[a + 1])
    <3>1. a + 1 \in 1 .. N /\ (a + 1) - 1 = a
      OBVIOUS
    <3> QED
      BY <1>1, <3>1
  <2> QED
    BY <2>1 DEF Quoted
<1>3. N # a + 1 /\ a + 2 <= N
  BY <1>2
<1>4. N \in closed /\ closed \in SUBSET Nat
  BY <1>1, <1>3
<1>5. PICK j \in closed : \A i \in closed : j <= i
  BY <1>4, LeastNatural
<1>6. j \in a + 2 .. N /\ q[j] = "out"
  OBVIOUS
<1>7. ASSUME NEW i \in a + 1 .. j - 1 PROVE q[i] \in {"in", "escape"}
  <2>1. i \in 0 .. N
    BY <1>6
  <2>2. q[i] # "bad"
    BY <2>1, BadStays
  <2>3. q[i] # "out"
    <3>1. CASE i = a + 1
      BY <1>2, <3>1
    <3>2. CASE i # a + 1
      <4>1. i \in a + 2 .. N /\ ~(j <= i)
        BY <1>6, <3>2
      <4> QED
        BY <1>5, <4>1
    <3> QED
      BY <3>1, <3>2
  <2> QED
    BY <2>1, <2>2, <2>3, QuotingIs DEF States
<1> DEFINE e == j - a
<1>8. e \in 2 .. N - a /\ a + e = j
  BY <1>6
<1>9. q[j - 1] = "in" /\ t[j] = Quote
  <2>1. j \in 1 .. N /\ j - 1 \in a + 1 .. j - 1
    BY <1>6
  <2>2. q[j] = Quoted(q[j - 1], t[j]) /\ q[j - 1] \in {"in", "escape"}
    BY <1>1, <1>7, <2>1
  <2> HIDE DEF q, closed
  <2> QED
    BY <1>6, <2>2 DEF Quoted
<1>10. \A i \in 1 .. e - 1 : q[a + i] \in {"in", "escape"}
  BY <1>7
<1> DEFINE s(m) == SubSeq(t, a + 1, a + m)
<1>11. ASSUME NEW m \in e .. N - a
       PROVE  /\ s(m) \in Seq(STRING) /\ s(m) # <<>> /\ Len(s(m)) = m
              /\ \A k \in 1 .. m : s(m)[k] = t[a + k]
              /\ s(m)[1] = Quote /\ s(m)[e] = Quote
              /\ \A k \in 2 .. e : Escaped(s(m))[k] <=> q[a + k - 1] = "escape"
  <2>1. m \in 1 .. N - a
    BY <1>8
  <2>2. /\ s(m) \in Seq(STRING) /\ s(m) # <<>> /\ Len(s(m)) = m
        /\ \A k \in 1 .. m : s(m)[k] = t[a + k]
        /\ s(m)[1] = t[a + 1]
    BY <2>1, AheadIs
  <2>3. \A k \in 1 .. Len(s(m)) : s(m)[k] = t[a + k]
    BY <2>2
  <2>4. \A k \in 1 .. m : s(m)[k] = t[a + k]
    BY <2>2
  <2>5. e \in 1 .. m /\ Len(s(m)) >= e /\ a \in 0 .. N - 2
    BY <1>8, <2>2
  <2>6. s(m)[e] = Quote
    BY <1>8, <1>9, <2>4, <2>5
  <2>8. \A i \in 1 .. e - 1 : Quoting(t)[a + i] \in {"in", "escape"}
    BY <1>10
  <2>9. Quoting(t)[a + 1] = "in" /\ a \in 0 .. Len(t) - 2 /\ e \in 2 .. Len(t) - a
    BY <1>2, <1>8, <2>5
  <2> HIDE DEF s, e
  <2>7. \A k \in 2 .. e : Escaped(s(m))[k] <=> q[a + k - 1] = "escape"
    <3>1. s(m) \in Seq(STRING) /\ Len(s(m)) >= e
      BY <2>2, <2>5
    <3> QED
      BY <2>3, <2>8, <2>9, <3>1, EscapesAgree
  <2> QED
    BY <2>2, <2>4, <2>6, <2>7
<1>12. IsLiteral(s(e))
  <2>1. e \in e .. N - a
    BY <1>8
  <2>2. /\ s(e) \in Seq(STRING) /\ s(e) # <<>> /\ Len(s(e)) = e
        /\ \A k \in 1 .. e : s(e)[k] = t[a + k]
        /\ s(e)[1] = Quote /\ s(e)[e] = Quote
        /\ \A k \in 2 .. e : Escaped(s(e))[k] <=> q[a + k - 1] = "escape"
    BY <1>11, <2>1
  <2>3. ~Escaped(s(e))[e]
    <3>1. a + e - 1 = j - 1 /\ e \in 2 .. e
      BY <1>8
    <3> QED
      BY <1>9, <2>2, <3>1
  <2>4. ASSUME NEW k \in 2 .. e - 1
        PROVE  IF Escaped(s(e))[k] THEN s(e)[k] # Newline ELSE s(e)[k] # Quote
    <3>1. /\ k \in 2 .. e /\ k \in 1 .. e /\ a + k \in 1 .. N /\ (a + k) - 1 = a + k - 1
          /\ k - 1 \in 1 .. e - 1 /\ k \in 1 .. e - 1 /\ a + (k - 1) = a + k - 1
      BY <1>8
    <3>2. q[a + k] = Quoted(q[a + k - 1], t[a + k])
      BY <1>1, <3>1
    <3>3. q[a + k] \in {"in", "escape"} /\ q[a + k - 1] \in {"in", "escape"}
      BY <1>10, <3>1
    <3>4. s(e)[k] = t[a + k] /\ (Escaped(s(e))[k] <=> q[a + k - 1] = "escape")
      BY <2>2, <3>1
    <3> HIDE DEF q, s, e
    <3>5. CASE q[a + k - 1] = "escape"
      BY <3>2, <3>3, <3>4, <3>5 DEF Quoted
    <3>6. CASE q[a + k - 1] = "in"
      BY <3>2, <3>3, <3>4, <3>6 DEF Quoted
    <3> QED
      BY <3>3, <3>5, <3>6
  <2>5. e >= 2
    BY <1>8
  <2> HIDE DEF s, e
  <2> QED
    BY <2>2, <2>3, <2>4, <2>5 DEF IsLiteral
<1>13. Matched(s(e)) = "STRING"
  <2>1. e \in e .. N - a
    BY <1>8
  <2>2. s(e) \in Seq(STRING) /\ s(e) # <<>>
    BY <1>11, <2>1
  <2> HIDE DEF s, e
  <2> QED
    BY <1>12, <2>2, MatchedIs
<1>14. n >= e
  <2>1. ~(e \in n + 1 .. N - a)
    <3>1. \A m \in n + 1 .. N - a : Matched(s(m)) = "none"
      OBVIOUS
    <3> HIDE DEF s, e
    <3> QED
      BY <1>13, <3>1
  <2> QED
    BY <1>8, <2>1
<1>15. n = e
  <2> SUFFICES ASSUME n > e PROVE FALSE
    BY <1>8, <1>14
  <2>1. n \in e .. N - a /\ e \in 2 .. n - 1 /\ e \in 2 .. e /\ a + e - 1 = j - 1
    BY <1>8
  <2>2. /\ s(n) \in Seq(STRING) /\ s(n) # <<>> /\ Len(s(n)) = n
        /\ s(n)[1] = Quote /\ s(n)[e] = Quote
        /\ \A k \in 2 .. e : Escaped(s(n))[k] <=> q[a + k - 1] = "escape"
    BY <1>11, <2>1
  <2>3. ~Escaped(s(n))[e]
    BY <1>9, <2>1, <2>2
  <2>4. Matched(s(n)) # "none"
    OBVIOUS
  <2> HIDE DEF s, e, q
  <2>5. ~IsLiteral(s(n))
    BY <2>1, <2>2, <2>3 DEF IsLiteral
  <2>6. Matched(s(n)) # "STRING"
    BY <2>2, <2>5, MatchedIs
  <2>7. Len(s(n)) > 1 /\ 1 \in DOMAIN s(n)
    BY <2>1, <2>2
  <2> QED
    BY <2>2, <2>4, <2>6, <2>7, NothingElseHasQuotes
<1>16. \A i \in a + 1 .. a + n - 1 : q[i] # "out"
  <2>1. \A i \in a + 1 .. a + n - 1 : i \in a + 1 .. j - 1
    BY <1>8, <1>15
  <2> QED
    BY <1>7, <2>1
<1> QED
  BY <1>6, <1>8, <1>13, <1>15, <1>16

(* What begins outside of quotes with another character has no quotes in it. *)
LEMMA PlainStep ==
  ASSUME NEW t \in Seq(STRING), NEW a \in 0 .. Len(t) - 1, NEW n \in 1 .. Len(t) - a,
         Quoting(t)[a] = "out", t[a + 1] # Quote,
         Matched(SubSeq(t, a + 1, a + n)) # "none"
  PROVE  /\ Matched(SubSeq(t, a + 1, a + n)) # "STRING"
         /\ \A i \in a .. a + n : Quoting(t)[i] = "out"
<1> DEFINE q == Quoting(t)
           s == SubSeq(t, a + 1, a + n)
           T == {j \in 0 .. n : q[a + j] = "out"}
<1>1. /\ s \in Seq(STRING) /\ s # <<>> /\ Len(s) = n
      /\ \A k \in 1 .. n : s[k] = t[a + k]
      /\ s[1] = t[a + 1]
  BY AheadIs
<1>2. Matched(s) # "none" /\ s[1] # Quote
  BY <1>1
<1> HIDE DEF s
<1>3. Matched(s) # "STRING"
  BY <1>1, <1>2, MatchedIs DEF IsLiteral
<1>4. \A k \in 1 .. n : t[a + k] # Quote
  <2>1. \A k \in DOMAIN s : s[k] # Quote
    BY <1>1, <1>2, <1>3, NothingElseHasQuotes
  <2>2. ASSUME NEW k \in 1 .. n PROVE t[a + k] # Quote
    <3>1. k \in DOMAIN s /\ s[k] = t[a + k]
      BY <1>1
    <3> QED
      BY <2>1, <3>1
  <2> QED
    BY <2>2
<1>5. 0 \in T
  OBVIOUS
<1>6. ASSUME NEW j \in 0 .. n - 1, j \in T PROVE j + 1 \in T
  <2>1. a + j + 1 \in 1 .. Len(t) /\ (a + j + 1) - 1 = a + j /\ a + (j + 1) = a + j + 1
    OBVIOUS
  <2>2. q[a + j + 1] = Quoted(q[a + j], t[a + j + 1])
    BY <2>1, QuotingIs
  <2>3. q[a + j] = "out"
    BY <1>6
  <2>4. j + 1 \in 1 .. n /\ t[a + j + 1] # Quote
    BY <1>4, <2>1
  <2>5. q[a + j + 1] = "out"
    BY <2>2, <2>3, <2>4 DEF Quoted
  <2> QED
    BY <2>1, <2>4, <2>5
<1> HIDE DEF T
<1>7. 0 .. n \subseteq T
  <2>1. n \in Nat
    OBVIOUS
  <2> QED
    BY <1>5, <1>6, <2>1, IntervalInductionSet
<1>8. ASSUME NEW i \in a .. a + n PROVE q[i] = "out"
  <2>1. i - a \in T /\ a + (i - a) = i
    BY <1>7
  <2> QED
    BY <2>1 DEF T
<1> QED
  BY <1>3, <1>8 DEF s

-----------------------------------------------------------------------------
(* No token is cut short *)

(* A token is the longest match at its place, and what it is the first rule for. *)
LongestAt(t, x) ==
  /\ x.tok = Matched(SubSeq(t, x.from, x.to))
  /\ \A m \in x.to + 1 .. Len(t) : Matched(SubSeq(t, x.from, m)) = "none"

Places(a) == [tok : Kinds, from : 1 .. a, to : 1 .. a]

TokensInv ==
  /\ text \in Seq(STRING) /\ at \in 0 .. Len(text)
  /\ tokens \in Seq(Places(at))
  /\ \A k \in DOMAIN tokens : tokens[k].from <= tokens[k].to /\ LongestAt(text, tokens[k])

(* There is a longest match: a character alone always matches. *)
LEMMA LengthIs ==
  ASSUME text \in Seq(STRING), at \in 0 .. Len(text) - 1
  PROVE  /\ Length \in 1 .. Len(text) - at
         /\ Matched(SubSeq(text, at + 1, at + Length)) # "none"
         /\ \A m \in Length + 1 .. Len(text) - at : Matched(SubSeq(text, at + 1, at + m)) = "none"
<1> DEFINE N == Len(text) - at
           Short == {N - n : n \in Lengths}
<1>1. N \in Nat /\ 1 \in 1 .. N
  OBVIOUS
<1>2. \A n : n \in Lengths <=> n \in 1 .. N /\ Matched(SubSeq(text, at + 1, at + n)) # "none"
  BY DEF Lengths, Ahead
<1>3. 1 \in Lengths
  <2> DEFINE s == SubSeq(text, at + 1, at + 1)
  <2>1. s \in Seq(STRING) /\ s # <<>> /\ Len(s) = 1
    BY <1>1, AheadIs
  <2> HIDE DEF s
  <2>2. Matched(s) # "none"
    BY <2>1, MatchedIs
  <2> QED
    BY <1>1, <1>2, <2>2 DEF s
<1>4. \A n \in Lengths : n \in 1 .. N
  BY <1>2
<1> HIDE DEF N
<1>5. Short \in SUBSET Nat /\ Short # {}
  BY <1>1, <1>3, <1>4
<1>6. PICK d \in Short : \A x \in Short : d <= x
  BY <1>5, LeastNatural
<1>7. PICK best \in Lengths : d = N - best
  OBVIOUS
<1>8. \A m \in Lengths : m <= best
  <2> SUFFICES ASSUME NEW m \in Lengths PROVE m <= best
    OBVIOUS
  <2>1. N - m \in Short /\ m \in 1 .. N /\ best \in 1 .. N
    BY <1>4
  <2>2. N - best <= N - m
    BY <1>6, <1>7, <2>1
  <2> QED
    BY <1>1, <2>1, <2>2
<1>9. Length \in Lengths /\ \A m \in Lengths : m <= Length
  BY <1>8 DEF Length
<1>10. Length \in 1 .. N
  BY <1>4, <1>9
<1>11. ASSUME NEW m \in Length + 1 .. N PROVE Matched(SubSeq(text, at + 1, at + m)) = "none"
  <2>1. m \in 1 .. N /\ ~(m <= Length)
    BY <1>1, <1>10
  <2>2. m \notin Lengths
    BY <1>9, <2>1
  <2> QED
    BY <1>2, <2>1, <2>2
<1> QED
  BY <1>2, <1>9, <1>10, <1>11 DEF N

(* One rule: the longest match is passed, and is a token if it is not white space. *)
LEMMA RuleIs ==
  ASSUME TokensInv, MatchRule
  PROVE  \E n \in 1 .. Len(text) - at :
           LET s == SubSeq(text, at + 1, at + n)
               x == [tok |-> Matched(s), from |-> at + 1, to |-> at + n]
           IN  /\ at \in 0 .. Len(text) - 1 /\ text' = text /\ at' = at + n
               /\ Matched(s) # "none" /\ Matched(s) \in Kinds /\ s \in Seq(STRING)
               /\ \A m \in n + 1 .. Len(text) - at : Matched(SubSeq(text, at + 1, at + m)) = "none"
               /\ IF Matched(s) = "white space" THEN tokens' = tokens
                  ELSE tokens' = Append(tokens, x)
               /\ str_stack_' = IF Matched(s) \in {"ID", "STRING"} THEN Append(str_stack_, s)
                                ELSE str_stack_
<1>1. text \in Seq(STRING) /\ at \in 0 .. Len(text) - 1
  <2>1. text \in Seq(STRING) /\ at \in 0 .. Len(text)
    BY DEF TokensInv
  <2>2. at < Len(text)
    BY DEF MatchRule
  <2> QED
    BY <2>1, <2>2
<1>2. /\ Length \in 1 .. Len(text) - at
      /\ Matched(SubSeq(text, at + 1, at + Length)) # "none"
      /\ \A m \in Length + 1 .. Len(text) - at : Matched(SubSeq(text, at + 1, at + m)) = "none"
  BY <1>1, LengthIs
<1> DEFINE s == SubSeq(text, at + 1, at + Length)
<1>3. s \in Seq(STRING) /\ s # <<>>
  BY <1>1, <1>2, AheadIs
<1>4. Matched(s) \in Kinds
  <2> HIDE DEF s
  <2> QED
    BY <1>3, MatchedIs
<1>5. /\ text' = text /\ at' = at + Length
      /\ IF Matched(s) = "white space" THEN tokens' = tokens
         ELSE tokens' = Append(tokens, [tok |-> Matched(s), from |-> at + 1, to |-> at + Length])
      /\ str_stack_' = IF Matched(s) \in {"ID", "STRING"} THEN Append(str_stack_, s)
                       ELSE str_stack_
  BY DEF MatchRule, Ahead
<1> HIDE DEF s
<1> QED
  BY <1>1, <1>2, <1>3, <1>4, <1>5 DEF s

LEMMA TokensKept == TokensInv /\ [MatchRule]_scannerVars => TokensInv'
<1>1. ASSUME TokensInv, UNCHANGED scannerVars PROVE TokensInv'
  BY <1>1 DEF TokensInv, scannerVars
<1>2. ASSUME TokensInv, MatchRule PROVE TokensInv'
  <2>1. text \in Seq(STRING) /\ at \in 0 .. Len(text) /\ tokens \in Seq(Places(at))
    BY <1>2 DEF TokensInv
  <2>2. \A k \in DOMAIN tokens : tokens[k].from <= tokens[k].to /\ LongestAt(text, tokens[k])
    BY <1>2 DEF TokensInv
  <2>3. PICK n \in 1 .. Len(text) - at :
          LET s == SubSeq(text, at + 1, at + n)
              x == [tok |-> Matched(s), from |-> at + 1, to |-> at + n]
          IN  /\ at \in 0 .. Len(text) - 1 /\ text' = text /\ at' = at + n
              /\ Matched(s) # "none" /\ Matched(s) \in Kinds
              /\ \A m \in n + 1 .. Len(text) - at : Matched(SubSeq(text, at + 1, at + m)) = "none"
              /\ IF Matched(s) = "white space" THEN tokens' = tokens
                 ELSE tokens' = Append(tokens, x)
    BY <1>2, RuleIs
  <2> DEFINE s == SubSeq(text, at + 1, at + n)
             x == [tok |-> Matched(s), from |-> at + 1, to |-> at + n]
  <2>4. at' \in 0 .. Len(text) /\ at <= at' /\ 1 .. at \subseteq 1 .. at'
    <3>1. at' = at + n
      BY <2>3
    <3>2. at + n \in 0 .. Len(text) /\ at <= at + n
      BY <2>1
    <3>3. 1 .. at \subseteq 1 .. at + n
      BY <2>1
    <3> QED
      BY <3>1, <3>2, <3>3
  <2>5. tokens \in Seq(Places(at'))
    <3>1. Places(at) \subseteq Places(at')
      BY <2>4 DEF Places
    <3> QED
      BY <2>1, <3>1
  <2>6. x \in Places(at')
    <3>1. at + 1 \in 1 .. at + n /\ at + n \in 1 .. at + n
      BY <2>1
    <3> HIDE DEF s
    <3> QED
      BY <2>3, <3>1 DEF Places, s
  <2>7. x.from <= x.to /\ LongestAt(text, x)
    <3>1. x.from = at + 1 /\ x.to = at + n /\ x.tok = Matched(s)
      OBVIOUS
    <3>2. ASSUME NEW m \in x.to + 1 .. Len(text) PROVE Matched(SubSeq(text, x.from, m)) = "none"
      <4>1. m - at \in n + 1 .. Len(text) - at /\ at + (m - at) = m
        BY <2>1, <3>1
      <4>2. Matched(SubSeq(text, at + 1, at + (m - at))) = "none"
        BY <2>3, <4>1
      <4> QED
        BY <3>1, <4>1, <4>2
    <3>3. x.from <= x.to
      BY <2>1, <3>1
    <3>4. x.tok = Matched(SubSeq(text, x.from, x.to))
      BY <3>1
    <3> HIDE DEF x
    <3> QED
      BY <3>2, <3>3, <3>4 DEF LongestAt
  <2>8. tokens' = tokens \/ tokens' = Append(tokens, x)
    BY <2>3
  <2> HIDE DEF x
  <2>9. tokens' \in Seq(Places(at'))
    BY <2>5, <2>6, <2>8
  <2>10. \A k \in DOMAIN tokens' : tokens'[k].from <= tokens'[k].to /\ LongestAt(text, tokens'[k])
    BY <2>2, <2>5, <2>6, <2>7, <2>8
  <2> QED
    BY <2>1, <2>3, <2>4, <2>9, <2>10 DEF TokensInv
<1> QED
  BY <1>1, <1>2

(* The invariant holds throughout, whatever the text. *)
THEOREM TokensInvariance == ScannerSpec => []TokensInv
<1>1. ScannerInit => TokensInv
  <2> SUFFICES ASSUME ScannerInit PROVE TokensInv
    OBVIOUS
  <2>1. text \in Seq(STRING) /\ at = 0 /\ tokens = <<>>
    BY ScannedTextsAssumption DEF ScannerInit
  <2> QED
    BY <2>1 DEF TokensInv
<1>2. TokensInv /\ [MatchRule]_scannerVars => TokensInv'
  BY TokensKept
<1> QED
  BY <1>1, <1>2, PTL DEF ScannerSpec

(* What is left of a text, and its first characters. *)
LEMMA RestIs ==
  ASSUME NEW t \in Seq(STRING), NEW b \in 0 .. Len(t), NEW S
  PROVE  LET end == SubSeq(t, b + 1, Len(t))
         IN  /\ StartsIn(end, S) <=> b < Len(t) /\ t[b + 1] \in S
             /\ end # <<>> => (StartsIn(Tail(end), S) <=> b + 1 < Len(t) /\ t[b + 2] \in S)
<1> DEFINE end == SubSeq(t, b + 1, Len(t))
<1>1. CASE b = Len(t)
  <2>1. end = <<>>
    BY <1>1, SubSeqEmpty
  <2> QED
    BY <1>1, <2>1 DEF StartsIn
<1>2. CASE b < Len(t)
  <2> DEFINE c == b + 1
  <2>1. c \in 1 .. Len(t) /\ Len(t) \in c .. Len(t) /\ Len(t) - c + 1 = Len(t) - b
    BY <1>2
  <2>2. /\ end \in Seq(STRING) /\ end # <<>> /\ Len(end) = Len(t) - b /\ end[1] = t[c]
        /\ \A k \in 1 .. Len(t) - b : end[k] = t[c + k - 1]
    <3> DEFINE s == SubSeq(t, c, Len(t))
    <3> HIDE DEF c
    <3>1. /\ s \in Seq(STRING) /\ s # <<>> /\ Len(s) = Len(t) - c + 1 /\ s[1] = t[c]
          /\ \A k \in 1 .. Len(t) - c + 1 : s[k] = t[c + k - 1]
      BY <2>1, CutIs
    <3>2. end = s
      BY DEF c
    <3> HIDE DEF s, end
    <3> QED
      BY <2>1, <3>1, <3>2
  <2> HIDE DEF end
  <2> DEFINE rest == Tail(end)
  <2>3. /\ rest \in Seq(STRING) /\ Len(rest) = Len(end) - 1
        /\ \A k \in 1 .. Len(rest) : rest[k] = end[k + 1]
    BY <2>2, HeadTailProperties
  <2> HIDE DEF rest
  <2>7. Len(rest) = Len(t) - b - 1
    <3>1. Len(end) \in Nat /\ Len(end) - 1 = Len(t) - b - 1
      BY <2>2
    <3> QED
      BY <2>3, <3>1
  <2>4. StartsIn(end, S) <=> t[b + 1] \in S
    BY <2>2 DEF StartsIn
  <2>5. CASE b + 1 = Len(t)
    <3>1. Len(rest) = 0
      BY <2>5, <2>7
    <3>2. rest = <<>>
      BY <2>3, <3>1
    <3> QED
      BY <1>2, <2>4, <2>5, <3>2 DEF StartsIn, end, rest
  <2>6. CASE b + 1 < Len(t)
    <3>1. 1 \in 1 .. Len(rest) /\ 1 + 1 \in 1 .. Len(t) - b /\ c + (1 + 1) - 1 = b + 2
      BY <2>6, <2>7
    <3>2. rest[1] = t[b + 2]
      BY <2>2, <2>3, <3>1
    <3>3. rest # <<>>
      BY <2>3, <3>1
    <3> QED
      BY <1>2, <2>4, <2>6, <3>2, <3>3 DEF StartsIn, end, rest
  <2> QED
    BY <1>2, <2>5, <2>6
<1> QED
  BY <1>1, <1>2

(* A longest match is no part of a longer name, number or comparison. *)
LEMMA LongestIsWhole ==
  ASSUME NEW t \in Seq(STRING), NEW x \in Places(Len(t)), x.from <= x.to, LongestAt(t, x)
  PROVE  LET end == SubSeq(t, x.to + 1, Len(t))
         IN  /\ x.tok \in Keywords \cup {"ID"} => ~StartsIn(end, Letters \cup Digits)
             /\ x.tok = "ID" => \A i \in DOMAIN Words : Words[i].word # SubSeq(t, x.from, x.to)
             /\ x.tok \in {"NUMBER", "FLOAT"} => ~StartsIn(end, Digits)
             /\ x.tok = "NUMBER" /\ StartsIn(end, {"."}) => ~StartsIn(Tail(end), Digits)
             /\ x.tok \in {"LT", "GT"} => ~StartsIn(end, {"="})
<1> DEFINE a == x.from
           b == x.to
           s == SubSeq(t, a, b)
           end == SubSeq(t, b + 1, Len(t))
<1>1. a \in 1 .. Len(t) /\ b \in a .. Len(t) /\ b \in 0 .. Len(t) /\ x.tok = Matched(s)
  BY DEF Places, LongestAt
<1>2. \A m \in b + 1 .. Len(t) : Matched(SubSeq(t, a, m)) = "none"
  BY DEF LongestAt
<1>3. s \in Seq(STRING) /\ s # <<>>
  BY <1>1, CutIs
<1> HIDE DEF a, b, s, end
<1>4. ASSUME NEW m \in b + 1 .. Len(t)
      PROVE  /\ ~IsName(SubSeq(t, a, m)) /\ ~IsNumber(SubSeq(t, a, m))
             /\ ~IsFloat(SubSeq(t, a, m)) /\ ~IsWord(SubSeq(t, a, m))
  <2> DEFINE u == SubSeq(t, a, m)
  <2>1. m \in a .. Len(t)
    BY <1>1
  <2>2. u \in Seq(STRING) /\ u # <<>>
    BY <1>1, <2>1, CutIs
  <2>3. Matched(u) = "none"
    BY <1>2
  <2> HIDE DEF u
  <2>4. ~IsName(u) /\ ~IsNumber(u) /\ ~IsFloat(u) /\ ~IsWord(u)
    BY <2>2, <2>3, MatchedIs
  <2> QED
    BY <2>4 DEF u
<1>5. \A S : StartsIn(end, S) => b < Len(t) /\ t[b + 1] \in S
  BY <1>1, RestIs DEF end
<1>6. /\ x.tok \in Keywords \cup {"ID"} => IsName(s)
      /\ x.tok = "ID" => ~IsWord(s)
      /\ x.tok = "NUMBER" => IsNumber(s)
      /\ x.tok = "FLOAT" => IsFloat(s)
      /\ x.tok = "LT" => s = <<"<">>
      /\ x.tok = "GT" => s = <<">">>
  BY <1>1, <1>3, MatchedIs
<1>7. b < Len(t) => b + 1 \in b + 1 .. Len(t)
  BY <1>1
<1>8. ASSUME x.tok \in Keywords \cup {"ID"} PROVE ~StartsIn(end, Letters \cup Digits)
  <2> SUFFICES ASSUME StartsIn(end, Letters \cup Digits) PROVE FALSE
    OBVIOUS
  <2>1. b < Len(t) /\ t[b + 1] \in Letters \cup Digits
    BY <1>5
  <2>2. IsName(SubSeq(t, a, b + 1))
    BY <1>1, <1>6, <1>8, <2>1, NameGrows DEF s
  <2> QED
    BY <1>4, <1>7, <2>1, <2>2
<1>9. ASSUME x.tok \in {"NUMBER", "FLOAT"} PROVE ~StartsIn(end, Digits)
  <2> SUFFICES ASSUME StartsIn(end, Digits) PROVE FALSE
    OBVIOUS
  <2>1. b < Len(t) /\ t[b + 1] \in Digits
    BY <1>5
  <2>2. CASE x.tok = "NUMBER"
    <3>1. IsNumber(SubSeq(t, a, b + 1))
      BY <1>1, <1>6, <2>1, <2>2, NumberGrows DEF s
    <3> QED
      BY <1>4, <1>7, <2>1, <3>1
  <2>3. CASE x.tok = "FLOAT"
    <3>1. IsFloat(SubSeq(t, a, b + 1))
      BY <1>1, <1>6, <2>1, <2>3, FloatGrows DEF s
    <3> QED
      BY <1>4, <1>7, <2>1, <3>1
  <2> QED
    BY <1>9, <2>2, <2>3
<1>10. ASSUME x.tok = "NUMBER", StartsIn(end, {"."}) PROVE ~StartsIn(Tail(end), Digits)
  <2> SUFFICES ASSUME StartsIn(Tail(end), Digits) PROVE FALSE
    OBVIOUS
  <2>1. b < Len(t) /\ t[b + 1] = "."
    BY <1>5, <1>10
  <2>2. end # <<>>
    BY <1>10 DEF StartsIn
  <2>3. b + 1 < Len(t) /\ t[b + 2] \in Digits
    BY <1>1, <2>2, RestIs DEF end
  <2>4. IsFloat(SubSeq(t, a, b + 2))
    BY <1>1, <1>6, <1>10, <2>1, <2>3, FractionFollows DEF s
  <2>5. b + 2 \in b + 1 .. Len(t)
    BY <1>1, <2>3
  <2> QED
    BY <1>4, <2>4, <2>5
<1>11. ASSUME x.tok \in {"LT", "GT"} PROVE ~StartsIn(end, {"="})
  <2> SUFFICES ASSUME StartsIn(end, {"="}) PROVE FALSE
    OBVIOUS
  <2>1. b < Len(t) /\ t[b + 1] = "="
    BY <1>5
  <2> DEFINE u == SubSeq(t, a, b + 1)
  <2>2. PICK c \in {"<", ">"} : s = <<c>>
    BY <1>6, <1>11
  <2>3. /\ u \in Seq(STRING) /\ Len(u) = Len(s) + 1
        /\ u[Len(s) + 1] = t[b + 1] /\ u[1] = s[1]
    BY <1>1, <2>1, CutGrows DEF s
  <2>4. Len(s) = 1 /\ s[1] = c
    BY <2>2
  <2> HIDE DEF u
  <2>5. u = <<c, "=">>
    BY <2>1, <2>3, <2>4
  <2>6. \E i \in DOMAIN Words : Words[i].word = <<c, "=">>
    <3>1. DOMAIN Words = 1 .. 19 /\ Words[15].word = <<"<", "=">> /\ Words[18].word = <<">", "=">>
      BY DEF Words
    <3>2. 15 \in 1 .. 19 /\ 18 \in 1 .. 19
      OBVIOUS
    <3> QED
      BY <3>1, <3>2
  <2>7. IsWord(u)
    BY <2>5, <2>6 DEF IsWord
  <2> QED
    BY <1>4, <1>7, <2>1, <2>7 DEF u
<1>12. x.tok = "ID" => \A i \in DOMAIN Words : Words[i].word # s
  BY <1>6 DEF IsWord
<1> QED
  BY <1>8, <1>9, <1>10, <1>11, <1>12 DEF a, b, s, end

LEMMA LongestSuffices == TokensInv => TokensAreWhole
<1> SUFFICES ASSUME TokensInv, NEW k \in DOMAIN tokens
             PROVE  LET t   == tokens[k]
                        end == After(t)
                    IN  /\ t.tok \in Keywords \cup {"ID"} => ~StartsIn(end, Letters \cup Digits)
                        /\ t.tok = "ID" =>
                             \A i \in DOMAIN Words : Words[i].word # SubSeq(text, t.from, t.to)
                        /\ t.tok \in {"NUMBER", "FLOAT"} => ~StartsIn(end, Digits)
                        /\ t.tok = "NUMBER" /\ StartsIn(end, {"."}) => ~StartsIn(Tail(end), Digits)
                        /\ t.tok \in {"LT", "GT"} => ~StartsIn(end, {"="})
  BY DEF TokensAreWhole
<1> DEFINE x == tokens[k]
<1>1. text \in Seq(STRING) /\ at \in 0 .. Len(text) /\ x \in Places(at)
  BY DEF TokensInv
<1>2. x \in Places(Len(text))
  BY <1>1 DEF Places
<1>3. x.from <= x.to /\ LongestAt(text, x)
  BY DEF TokensInv
<1> HIDE DEF x
<1> QED
  BY <1>1, <1>2, <1>3, LongestIsWhole DEF After, x

(* The rules of lexer.l cut every text where a reader would: no rule stands in  *)
(* the way of a longer match, and no name is a keyword.                        *)
THEOREM TokensAreNotCut == ScannerSpec => []TokensAreWhole
BY TokensInvariance, LongestSuffices, PTL

-----------------------------------------------------------------------------
(* What stands in quotes is one literal *)

Inside(q, a) == {k \in 1 .. a : q[k] # "out" \/ q[k - 1] # "out"}

OfKinds(toks, S) == {k \in DOMAIN toks : toks[k].tok \in S}

Covered(toks) == UNION {toks[k].from .. toks[k].to : k \in OfKinds(toks, {"STRING"})}

(* A literal runs from a quote to the next that ends it. *)
Quotes(q, x) ==
  /\ q[x.from - 1] = "out" /\ q[x.to] = "out"
  /\ \A i \in x.from .. x.to - 1 : q[i] # "out"

Opaque(q, a, toks) ==
  /\ q[a] = "out"
  /\ Inside(q, a) = Covered(toks)
  /\ \A k \in OfKinds(toks, {"STRING"}) : Quotes(q, toks[k])

LiteralsInv ==
  /\ TokensInv
  /\ str_stack_ \in Seq(Seq(STRING))
  /\ Len(str_stack_) = Cardinality(OfKinds(tokens, {"ID", "STRING"}))
  /\ Quoting(text)[Len(text)] = "out" => Opaque(Quoting(text), at, tokens)

LEMMA OfKindsGrows ==
  ASSUME NEW R, NEW toks \in Seq(R), NEW x \in R, NEW S
  PROVE  OfKinds(Append(toks, x), S) = IF x.tok \in S THEN OfKinds(toks, S) \cup {Len(toks) + 1}
                                       ELSE OfKinds(toks, S)
<1> DEFINE u == Append(toks, x)
           n == Len(toks)
<1>1. /\ n \in Nat /\ DOMAIN toks = 1 .. n /\ DOMAIN u = 1 .. n + 1
      /\ u[n + 1] = x /\ \A k \in 1 .. n : u[k] = toks[k]
  OBVIOUS
<1> HIDE DEF u, n
<1>2. \A k : k \in 1 .. n + 1 <=> k \in 1 .. n \/ k = n + 1
  BY <1>1
<1>3. \A k \in 1 .. n : k # n + 1
  BY <1>1
<1>4. OfKinds(u, S) = IF x.tok \in S THEN OfKinds(toks, S) \cup {n + 1} ELSE OfKinds(toks, S)
  BY <1>1, <1>2, <1>3 DEF OfKinds
<1> QED
  BY <1>4 DEF u, n

LEMMA CoveredGrows ==
  ASSUME NEW R, NEW toks \in Seq(R), NEW x \in R
  PROVE  Covered(Append(toks, x)) = IF x.tok = "STRING" THEN Covered(toks) \cup (x.from .. x.to)
                                    ELSE Covered(toks)
<1> DEFINE u == Append(toks, x)
           n == Len(toks)
           L == OfKinds(toks, {"STRING"})
<1>1. u[n + 1] = x /\ \A k \in DOMAIN toks : u[k] = toks[k]
  OBVIOUS
<1>2. OfKinds(u, {"STRING"}) = IF x.tok \in {"STRING"} THEN L \cup {n + 1} ELSE L
  <2>1. \A S : OfKinds(u, S) = IF x.tok \in S THEN OfKinds(toks, S) \cup {n + 1}
                              ELSE OfKinds(toks, S)
    BY OfKindsGrows
  <2> HIDE DEF u, n
  <2> QED
    BY <2>1
<1> HIDE DEF u, n
<1>3. L \subseteq DOMAIN toks
  BY DEF OfKinds
<1> HIDE DEF L
<1>4. \A k \in L : u[k] = toks[k]
  BY <1>1, <1>3
<1>5. CASE x.tok = "STRING"
  <2>1. Covered(u) = UNION {u[k].from .. u[k].to : k \in L \cup {n + 1}}
    BY <1>2, <1>5 DEF Covered
  <2>2. Covered(u) = (UNION {toks[k].from .. toks[k].to : k \in L}) \cup (x.from .. x.to)
    BY <1>1, <1>4, <2>1
  <2> QED
    BY <1>5, <2>2 DEF Covered, u, L
<1>6. CASE x.tok # "STRING"
  <2>1. Covered(u) = UNION {u[k].from .. u[k].to : k \in L}
    BY <1>2, <1>6 DEF Covered
  <2>2. Covered(u) = UNION {toks[k].from .. toks[k].to : k \in L}
    BY <1>4, <2>1
  <2> QED
    BY <1>6, <2>2 DEF Covered, u, L
<1> QED
  BY <1>5, <1>6

(* One more token is passed, and the quotes with it. *)
LEMMA OpaqueGrows ==
  ASSUME NEW t \in Seq(STRING), NEW a \in 0 .. Len(t) - 1, NEW n \in 1 .. Len(t) - a,
         NEW R, NEW toks \in Seq(R),
         Quoting(t)[Len(t)] = "out", Opaque(Quoting(t), a, toks),
         Matched(SubSeq(t, a + 1, a + n)) # "none",
         \A m \in n + 1 .. Len(t) - a : Matched(SubSeq(t, a + 1, a + m)) = "none",
         NEW x \in R, x.from = a + 1, x.to = a + n, x.tok = Matched(SubSeq(t, a + 1, a + n))
  PROVE  /\ Opaque(Quoting(t), a + n, Append(toks, x))
         /\ x.tok # "STRING" => Opaque(Quoting(t), a + n, toks)
<1> DEFINE q == Quoting(t)
           u == Append(toks, x)
           L == OfKinds(toks, {"STRING"})
           l == Len(toks)
<1>1. q[a] = "out" /\ Inside(q, a) = Covered(toks) /\ \A k \in L : Quotes(q, toks[k])
  BY DEF Opaque
<1>2. u[l + 1] = x /\ \A k \in DOMAIN toks : u[k] = toks[k]
  OBVIOUS
<1>3. OfKinds(u, {"STRING"}) = IF x.tok \in {"STRING"} THEN L \cup {l + 1} ELSE L
  <2>1. \A S : OfKinds(u, S) = IF x.tok \in S THEN OfKinds(toks, S) \cup {l + 1}
                              ELSE OfKinds(toks, S)
    BY OfKindsGrows
  <2> HIDE DEF u, l
  <2> QED
    BY <2>1
<1>4. Covered(u) = IF x.tok = "STRING" THEN Covered(toks) \cup (x.from .. x.to) ELSE Covered(toks)
  BY CoveredGrows
<1>5. L \subseteq DOMAIN toks
  BY DEF OfKinds
<1>6. \A k : k \in 1 .. a + n <=> k \in 1 .. a \/ k \in a + 1 .. a + n
  OBVIOUS
<1>7. CASE t[a + 1] = Quote
  <2>1. /\ n >= 2 /\ x.tok = "STRING" /\ q[a + n] = "out"
        /\ \A i \in a + 1 .. a + n - 1 : q[i] # "out"
    BY <1>1, <1>7, LiteralStep
  <2>2. Quotes(q, x)
    <3>1. x.from - 1 = a /\ x.to - 1 = a + n - 1
      OBVIOUS
    <3> HIDE DEF q
    <3> QED
      BY <1>1, <2>1, <3>1 DEF Quotes
  <2>3. ASSUME NEW k \in a + 1 .. a + n PROVE q[k] # "out" \/ q[k - 1] # "out"
    <3>1. k \in a + 1 .. a + n - 1 \/ k - 1 \in a + 1 .. a + n - 1
      BY <2>1
    <3> QED
      BY <2>1, <3>1
  <2> HIDE DEF q, u, L, l
  <2>4. Inside(q, a + n) = Inside(q, a) \cup (a + 1 .. a + n)
    BY <1>6, <2>3 DEF Inside
  <2>5. Inside(q, a + n) = Covered(u)
    BY <1>1, <1>4, <2>1, <2>4
  <2>6. \A k \in OfKinds(u, {"STRING"}) : Quotes(q, u[k])
    BY <1>1, <1>2, <1>3, <1>5, <2>1, <2>2
  <2> QED
    BY <2>1, <2>5, <2>6 DEF Opaque, q, u
<1>8. CASE t[a + 1] # Quote
  <2>1. x.tok # "STRING" /\ \A i \in a .. a + n : q[i] = "out"
    BY <1>1, <1>8, PlainStep
  <2>2. \A k \in a + 1 .. a + n : q[k] = "out" /\ q[k - 1] = "out"
    <3>1. \A k \in a + 1 .. a + n : k \in a .. a + n /\ k - 1 \in a .. a + n
      OBVIOUS
    <3> QED
      BY <2>1, <3>1
  <2>3. a + n \in a .. a + n
    OBVIOUS
  <2> HIDE DEF q, u, L, l
  <2>4. Inside(q, a + n) = Inside(q, a)
    BY <1>6, <2>2 DEF Inside
  <2>5. Covered(u) = Covered(toks) /\ OfKinds(u, {"STRING"}) = L
    BY <1>3, <1>4, <2>1
  <2>6. \A k \in OfKinds(u, {"STRING"}) : Quotes(q, u[k])
    BY <1>1, <1>2, <1>5, <2>5
  <2>7. q[a + n] = "out"
    BY <2>1, <2>3
  <2>8. Opaque(q, a + n, u)
    BY <1>1, <2>4, <2>5, <2>6, <2>7 DEF Opaque
  <2>9. Opaque(q, a + n, toks)
    BY <1>1, <2>4, <2>7 DEF Opaque, L
  <2> QED
    BY <2>8, <2>9 DEF q, u
<1> QED
  BY <1>7, <1>8

(* Every name and every literal is pushed, once. *)
LEMMA PushedGrows ==
  ASSUME NEW R, NEW toks \in Seq(R), NEW x \in R, NEW S
  PROVE  /\ IsFiniteSet(OfKinds(toks, S)) /\ Cardinality(OfKinds(toks, S)) \in Nat
         /\ Cardinality(OfKinds(Append(toks, x), S)) =
              IF x.tok \in S THEN Cardinality(OfKinds(toks, S)) + 1
              ELSE Cardinality(OfKinds(toks, S))
<1> DEFINE K == OfKinds(toks, S)
           n == Len(toks)
<1>1. K \in SUBSET (1 .. n) /\ n \in Nat
  BY DEF OfKinds
<1>2. n + 1 \notin K
  BY <1>1
<1>3. IsFiniteSet(K)
  <2>1. IsFiniteSet(1 .. n)
    BY <1>1, FS_Interval
  <2> HIDE DEF K, n
  <2> QED
    BY <1>1, <2>1, FS_Subset
<1>4. OfKinds(Append(toks, x), S) = IF x.tok \in S THEN K \cup {n + 1} ELSE K
  BY OfKindsGrows
<1> HIDE DEF K, n
<1>5. Cardinality(K) \in Nat
  BY <1>3, FS_CardinalityType
<1>6. Cardinality(K \cup {n + 1}) = Cardinality(K) + 1
  BY <1>2, <1>3, FS_AddElement
<1> QED
  BY <1>3, <1>4, <1>5, <1>6 DEF K

LEMMA LiteralsKept == LiteralsInv /\ [MatchRule]_scannerVars => LiteralsInv'
<1>1. ASSUME LiteralsInv, UNCHANGED scannerVars PROVE LiteralsInv'
  <2>1. TokensInv'
    BY <1>1, TokensKept DEF LiteralsInv
  <2>2. text' = text /\ at' = at /\ tokens' = tokens /\ str_stack_' = str_stack_
    BY <1>1 DEF scannerVars
  <2> QED
    BY <1>1, <2>1, <2>2 DEF LiteralsInv
<1>2. ASSUME LiteralsInv, MatchRule PROVE LiteralsInv'
  <2>1. TokensInv' /\ TokensInv
    BY <1>2, TokensKept DEF LiteralsInv
  <2>2. text \in Seq(STRING) /\ tokens \in Seq(Places(at))
    BY <2>1 DEF TokensInv
  <2>3. PICK n \in 1 .. Len(text) - at :
          LET s == SubSeq(text, at + 1, at + n)
              x == [tok |-> Matched(s), from |-> at + 1, to |-> at + n]
          IN  /\ at \in 0 .. Len(text) - 1 /\ text' = text /\ at' = at + n
              /\ Matched(s) # "none" /\ Matched(s) \in Kinds /\ s \in Seq(STRING)
              /\ \A m \in n + 1 .. Len(text) - at : Matched(SubSeq(text, at + 1, at + m)) = "none"
              /\ IF Matched(s) = "white space" THEN tokens' = tokens
                 ELSE tokens' = Append(tokens, x)
              /\ str_stack_' = IF Matched(s) \in {"ID", "STRING"} THEN Append(str_stack_, s)
                               ELSE str_stack_
    BY <1>2, <2>1, RuleIs
  <2> DEFINE s == SubSeq(text, at + 1, at + n)
             x == [tok |-> Matched(s), from |-> at + 1, to |-> at + n]
             R == [tok : Kinds, from : Nat, to : Nat]
             pushed == {"ID", "STRING"}
             K == OfKinds(tokens, pushed)
  <2>4. x.tok = Matched(s) /\ x.from = at + 1 /\ x.to = at + n
    OBVIOUS
  <2>5. /\ text' = text /\ at' = at + n /\ at \in 0 .. Len(text) - 1
        /\ Matched(s) # "none" /\ s \in Seq(STRING)
        /\ \A m \in n + 1 .. Len(text) - at : Matched(SubSeq(text, at + 1, at + m)) = "none"
    BY <2>3
  <2>6. /\ IF x.tok = "white space" THEN tokens' = tokens ELSE tokens' = Append(tokens, x)
        /\ str_stack_' = IF x.tok \in {"ID", "STRING"} THEN Append(str_stack_, s) ELSE str_stack_
    BY <2>3, <2>4
  <2>7. x \in R
    <3>1. at + 1 \in Nat /\ at + n \in Nat
      BY <2>5
    <3>2. Matched(s) \in Kinds
      BY <2>3
    <3> HIDE DEF s
    <3> QED
      BY <3>1, <3>2
  <2>8. tokens \in Seq(R)
    <3>1. Places(at) \subseteq R
      BY <2>5 DEF Places
    <3> HIDE DEF R
    <3> QED
      BY <2>2, <3>1
  <2>9. /\ str_stack_ \in Seq(Seq(STRING)) /\ Len(str_stack_) = Cardinality(K)
        /\ Quoting(text)[Len(text)] = "out" => Opaque(Quoting(text), at, tokens)
    BY <1>2 DEF LiteralsInv
  <2> HIDE DEF x, R
  <2>10. str_stack_' \in Seq(Seq(STRING))
    <3> HIDE DEF s
    <3>1. s \in Seq(STRING) /\ str_stack_ \in Seq(Seq(STRING))
      BY <2>5, <2>9
    <3>2. Append(str_stack_, s) \in Seq(Seq(STRING))
      BY <3>1, AppendProperties
    <3> QED
      BY <2>6, <3>1, <3>2
  <2>11. Len(str_stack_') = Cardinality(OfKinds(tokens', pushed))
    <3>1. /\ Cardinality(K) \in Nat
          /\ Cardinality(OfKinds(Append(tokens, x), pushed)) =
               IF x.tok \in pushed THEN Cardinality(K) + 1 ELSE Cardinality(K)
      BY <2>7, <2>8, PushedGrows
    <3>2. Len(Append(str_stack_, s)) = Len(str_stack_) + 1
      <4> HIDE DEF s
      <4> QED
        BY <2>5, <2>9
    <3> HIDE DEF s, K
    <3>3. CASE x.tok \in pushed
      <4>1. x.tok # "white space"
        BY <3>3
      <4> QED
        BY <2>6, <2>9, <3>1, <3>2, <3>3, <4>1
    <3>4. CASE x.tok \notin pushed
      <4>1. Cardinality(OfKinds(tokens', pushed)) = Cardinality(K)
        BY <2>6, <3>1, <3>4 DEF K
      <4> QED
        BY <2>6, <2>9, <3>4, <4>1
    <3> QED
      BY <3>3, <3>4
  <2>12. ASSUME Quoting(text)[Len(text)] = "out" PROVE Opaque(Quoting(text), at + n, tokens')
    <3>1. Opaque(Quoting(text), at, tokens)
      BY <2>9, <2>12
    <3>2. /\ Opaque(Quoting(text), at + n, Append(tokens, x))
          /\ x.tok # "STRING" => Opaque(Quoting(text), at + n, tokens)
      BY <2>2, <2>4, <2>5, <2>7, <2>8, <2>12, <3>1, OpaqueGrows
    <3> QED
      BY <2>6, <3>2
  <2> QED
    BY <2>1, <2>5, <2>10, <2>11, <2>12 DEF LiteralsInv
<1> QED
  BY <1>1, <1>2

(* The invariant holds throughout, whatever the text. *)
THEOREM LiteralsInvariance == ScannerSpec => []LiteralsInv
<1>1. ScannerInit => LiteralsInv
  <2> SUFFICES ASSUME ScannerInit PROVE LiteralsInv
    OBVIOUS
  <2>1. text \in Seq(STRING) /\ at = 0 /\ tokens = <<>> /\ str_stack_ = <<>>
    BY ScannedTextsAssumption DEF ScannerInit
  <2>2. TokensInv
    BY <2>1 DEF TokensInv
  <2>3. \A S : OfKinds(tokens, S) = {}
    BY <2>1 DEF OfKinds
  <2>4. Len(str_stack_) = Cardinality({}) /\ str_stack_ \in Seq(Seq(STRING))
    BY <2>1, FS_EmptySet
  <2>5. Quoting(text)[0] = "out"
    BY <2>1, QuotingIs
  <2>6. Covered(tokens) = {}
    BY <2>3 DEF Covered
  <2>7. Inside(Quoting(text), 0) = {}
    BY DEF Inside
  <2>8. Opaque(Quoting(text), at, tokens)
    BY <2>1, <2>3, <2>5, <2>6, <2>7 DEF Opaque
  <2> QED
    BY <2>2, <2>3, <2>4, <2>8 DEF LiteralsInv
<1>2. LiteralsInv /\ [MatchRule]_scannerVars => LiteralsInv'
  BY LiteralsKept
<1> QED
  BY <1>1, <1>2, PTL DEF ScannerSpec

LEMMA OpaqueSuffices == LiteralsInv => LiteralsAreOpaque
<1> SUFFICES ASSUME LiteralsInv, Quoting(text)[Len(text)] = "out"
             PROVE  LET q == Quoting(text)
                        inside == {k \in 1 .. at : q[k] # "out" \/ q[k - 1] # "out"}
                        literals == {k \in DOMAIN tokens : tokens[k].tok = "STRING"}
                    IN  /\ inside = UNION {tokens[k].from .. tokens[k].to : k \in literals}
                        /\ \A k \in literals :
                             q[tokens[k].from - 1] = "out" /\ q[tokens[k].to] = "out"
                        /\ \A k \in literals :
                             \A i \in tokens[k].from .. tokens[k].to - 1 : q[i] # "out"
                        /\ Len(str_stack_) =
                             Cardinality(literals \cup {k \in DOMAIN tokens : tokens[k].tok = "ID"})
  BY DEF LiteralsAreOpaque
<1> DEFINE q == Quoting(text)
           literals == {k \in DOMAIN tokens : tokens[k].tok = "STRING"}
           names == {k \in DOMAIN tokens : tokens[k].tok = "ID"}
<1>1. Opaque(q, at, tokens) /\ Len(str_stack_) = Cardinality(OfKinds(tokens, {"ID", "STRING"}))
  BY DEF LiteralsInv
<1>2. OfKinds(tokens, {"STRING"}) = literals
  BY DEF OfKinds
<1>3. OfKinds(tokens, {"ID", "STRING"}) = literals \cup names
  BY DEF OfKinds
<1> HIDE DEF q, literals, names
<1>4. /\ Inside(q, at) = UNION {tokens[k].from .. tokens[k].to : k \in literals}
      /\ \A k \in literals : Quotes(q, tokens[k])
  BY <1>1, <1>2 DEF Opaque, Covered
<1>5. Len(str_stack_) = Cardinality(literals \cup names)
  BY <1>1, <1>3
<1> QED
  BY <1>4, <1>5 DEF Inside, Quotes, q, literals, names

(* Escapes, newlines and keywords in a literal stay in it, and nothing else gets in, *)
(* in every text whose quotes are closed.                                            *)
THEOREM LiteralsStayClosed == ScannerSpec => []LiteralsAreOpaque
BY LiteralsInvariance, OpaqueSuffices, PTL
=============================================================================
