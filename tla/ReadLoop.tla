------------------------------ MODULE ReadLoop ------------------------------
(***************************************************************************)
(* The loop of main (src/standalone/shell.cpp) around everything else: it  *)
(* collects characters up to the first newline after a semicolon, hands    *)
(* them to sql_parse, and starts over.                                     *)
(*                                                                         *)
(* At the end of the input get() returns EOF for ever.  EOF is a character *)
(* like any other to the loop: what was not handed over by then never is,  *)
(* and the buffer grows without end (here: up to MaxBuffer).               *)
(***************************************************************************)
EXTENDS Integers, Sequences

CONSTANTS
  Inputs,                         \* what may be typed
  Semicolon, Newline, Nul, Eof,   \* the characters the code tells apart
  MaxBuffer                       \* bound on the buffer (TLC)

CharactersOf(s) == {s[k] : k \in DOMAIN s}

ASSUME ReadAssumption ==
  /\ Newline # Semicolon /\ Eof \notin {Newline, Semicolon}
  /\ \A s \in Inputs : s \in Seq(CharactersOf(s))

VARIABLES
  typed,     \* history: the whole input
  input,     \* what get() has not returned yet
  sql,       \* the buffer of the turn
  semi,      \* a semicolon was read in this turn
  handed,    \* history: what sql_parse was given, turn by turn
  turn       \* "reading", "running" (parse and execute), "exited"

readVars == <<typed, input, sql, semi, handed, turn>>

\* Bug: only a semicolon right before the newline counts.
SemiAfter_last(nxt) == nxt = Semicolon \/ (nxt = Newline /\ semi)

SemiAfter(nxt) == semi \/ nxt = Semicolon

\* sql.data() is read as a C string, the last character is overwritten.
CString(s) ==
  LET nuls == {k \in DOMAIN s : s[k] = Nul} \cup {Len(s)}
  IN  SubSeq(s, 1, (CHOOSE k \in nuls : \A j \in nuls : k <= j) - 1)

ReadChar ==
  /\ turn = "reading" /\ Len(sql) < MaxBuffer
  /\ LET nxt == IF input = <<>> THEN Eof ELSE Head(input)
     IN  /\ semi' = SemiAfter(nxt)
         /\ IF semi' /\ nxt = Newline
            THEN turn' = "running" /\ handed' = Append(handed, CString(Append(sql, nxt)))
            ELSE UNCHANGED <<turn, handed>>
         /\ sql' = Append(sql, nxt)
  /\ input' = IF input = <<>> THEN input ELSE Tail(input)
  /\ UNCHANGED typed

\* Bug: semi is not set to false for the next turn.
NextTurn_semi ==
  /\ turn = "running"
  /\ turn' = "reading" /\ sql' = <<>>
  /\ UNCHANGED <<typed, input, semi, handed>>

\* The statement is done with: the variables of the turn are new ones.
NextTurn ==
  /\ turn = "running"
  /\ turn' = "reading" /\ sql' = <<>> /\ semi' = FALSE
  /\ UNCHANGED <<typed, input, handed>>

\* The statement was `exit'.
ExitTurn ==
  /\ turn = "running"
  /\ turn' = "exited"
  /\ UNCHANGED <<typed, input, sql, semi, handed>>

ReadInit ==
  /\ typed \in Inputs /\ input = typed
  /\ sql = <<>> /\ semi = FALSE /\ handed = <<>> /\ turn = "reading"

ReadNext == ReadChar \/ NextTurn \/ ExitTurn

\* The loop goes on, and so does every call made in it.
ReadSpec == ReadInit /\ [][ReadNext]_readVars /\ WF_readVars(ReadNext)

-----------------------------------------------------------------------------
\* A newline ends a statement iff there is a semicolon on the line that it ends.
EndsStatement(s, n) ==
  /\ s[n] = Newline
  /\ \E k \in 1 .. n - 1 : s[k] = Semicolon /\ \A j \in k + 1 .. n - 1 : s[j] # Newline

\* Where the statements of the first n characters end, for each n; 0 before the first.
EndsUpto(s) ==
  LET ends[n \in 0 .. Len(s)] ==
        IF n = 0 THEN <<0>>
        ELSE IF EndsStatement(s, n) THEN Append(ends[n - 1], n) ELSE ends[n - 1]
  IN  ends

StatementEnds(s) == EndsUpto(s)[Len(s)]

StatementsIn(s) ==
  LET ends == StatementEnds(s)
  IN  [k \in 1 .. Len(ends) - 1 |-> CString(SubSeq(s, ends[k] + 1, ends[k + 1]))]

\* How many characters get() has returned.
Got == Len(typed) - Len(input)

(***************************************************************************)
(* What is handed over is the input, in order and without a gap, cut at    *)
(* the newlines that end a statement; an unfinished statement at the end   *)
(* of the input, with or without its semicolon, is never handed over.      *)
(* While a statement is read, the buffer holds what there is of it, and    *)
(* behind the end of the input nothing but EOF.                            *)
(***************************************************************************)
HandsOverTheInput ==
  LET start == StatementEnds(typed)[Len(handed) + 1]
  IN  /\ Len(handed) <= Len(StatementsIn(typed))
      /\ handed = SubSeq(StatementsIn(typed), 1, Len(handed))
      /\ input = SubSeq(typed, Got + 1, Len(typed))
      /\ turn = "reading" =>
           /\ start <= Got
           /\ sql = SubSeq(typed, start + 1, Got) \o [k \in 1 .. Len(sql) - (Got - start) |-> Eof]
           /\ Len(sql) > Got - start => input = <<>>

(***************************************************************************)
(* Every finished statement is handed over in the end, however many lines  *)
(* it has, unless the shell was told to exit before.                       *)
(***************************************************************************)
EveryStatementIsHandedOver ==
  <>(turn = "exited" \/ Len(handed) = Len(StatementsIn(typed)))

-----------------------------------------------------------------------------
(***************************************************************************)
(* The inductive invariant of HandsOverTheInput: the turn started where    *)
(* the last statement of the characters got so far ended, and semi tells   *)
(* whether the line that is being read holds a semicolon since then.       *)
(***************************************************************************)
Start == EndsUpto(typed)[Got][Len(EndsUpto(typed)[Got])]

ReadTypes ==
  /\ typed \in Inputs /\ input \in Seq(CharactersOf(typed))
  /\ sql \in Seq(CharactersOf(typed) \cup {Eof}) /\ semi \in BOOLEAN
  /\ handed \in Seq(Seq(CharactersOf(typed) \cup {Eof}))
  /\ turn \in {"reading", "running", "exited"} /\ Len(input) <= Len(typed)

HandedSoFar ==
  /\ \A k \in 1 .. Len(input) : input[k] = typed[Got + k]
  /\ Len(handed) = Len(EndsUpto(typed)[Got]) - 1
  /\ \A k \in 1 .. Len(handed) : handed[k] = StatementsIn(typed)[k]

Buffered ==
  turn = "reading" =>
    /\ Got - Start <= Len(sql)
    /\ \A k \in 1 .. Got - Start : sql[k] = typed[Start + k]
    /\ \A k \in Got - Start + 1 .. Len(sql) : sql[k] = Eof
    /\ Len(sql) > Got - Start => input = <<>>

SemicolonSeen ==
  turn = "reading" =>
    /\ semi <=> \E k \in Start + 1 .. Got : typed[k] = Semicolon
    /\ semi => \E k \in Start + 1 .. Got :
                 typed[k] = Semicolon /\ \A j \in k + 1 .. Got : typed[j] # Newline

ReadInv ==
  ReadTypes /\ HandedSoFar /\ Buffered /\ SemicolonSeen /\ (turn = "running" => Start = Got)
=============================================================================
