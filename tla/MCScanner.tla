----------------------------- MODULE MCScanner -----------------------------
(***************************************************************************)
(* Every text of up to four of the characters that the patterns tell       *)
(* apart, and every text of up to three pieces of SQL with nothing in      *)
(* between.                                                                *)
(***************************************************************************)
EXTENDS Scanner

Characters == {"o", "r", "1", "-", ".", "'", "\\", ";", " ", "<", "=", "newline", "?"}

Pieces ==
  {<<"o", "r">>, <<"o", "r", "d", "e", "r">>, <<"n", "o", "t">>, <<"a", "n", "d">>, <<"_", "1">>,
   <<"f", "r", "o", "m">>, <<"s", "e", "l", "e", "c", "t">>, <<"w", "h", "e", "r", "e">>,
   <<"e", "x", "i", "t">>, <<"-", "1", ".", "5">>, <<"2", "0">>, <<".">>, <<"-">>, <<",">>,
   <<"<", "=">>, <<"!", "=">>, <<">">>, <<"=">>, <<"(">>, <<")">>, <<"*">>, <<" ">>, <<"!">>,
   <<"'", "o", "r", "'">>, <<"'", ";", "newline", "'">>, <<"'", "\\", "'", ";", "'">>,
   <<"'", "\\", "\\", "'">>, <<"'">>}

MCTexts ==
  UNION {[1 .. n -> Characters] : n \in 0 .. 4}
  \cup {p \o q \o r : p \in Pieces, q \in Pieces, r \in Pieces}
=============================================================================
