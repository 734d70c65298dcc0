------------------------------ MODULE MCShell ------------------------------
(***************************************************************************)
(* Statements over the database of the shell, one and two of them in a     *)
(* row, with and without an end.                                           *)
(***************************************************************************)
EXTENDS Shell

MCSemicolon == Word("SEMICOLON")
MCNewline == Word("NEWLINE")
MCNul == Word("NUL")
MCEof == Word("EOF")
NoTokens(r) == {}

W(toks) == [k \in DOMAIN toks |-> Word(toks[k])]
N(name) == <<Id(name)>>
Of(rel, attr) == <<Id(rel), Word("DOT"), Id(attr)>>
Number(n) == <<Token("NUMBER", "", n)>>
Tenths(n) == <<Token("FLOAT", "", n)>>
Quoted(text) == <<Token("STRING", text, 0)>>

\* A list with commas.
Commas(names) ==
  [k \in 1 .. 2 * Len(names) - 1 |-> IF k % 2 = 1 THEN Id(names[(k + 1) \div 2]) ELSE Word("COMMA")]

Comparison(l, op, r) == l \o W(<<op>>) \o r
And(s) == W(<<"AND">>) \o s
Star == W(<<"STAR">>)
End == <<MCSemicolon, MCNewline>>
Select(attrs, rels) == W(<<"SELECT">>) \o attrs \o W(<<"FROM">>) \o Commas(rels)
SelectWhere(attrs, rels, condition_) ==
  Select(attrs, rels) \o W(<<"WHERE">>) \o condition_ \o End

-----------------------------------------------------------------------------
\* select * from student where birthday < '2001-12-06';
ByDate == SelectWhere(Star, <<"student">>, Comparison(N("birthday"), "LT", Quoted("'2001-12-06'")))

\* select name from student where '2001-02-29' = birthday;  -- there is no such day
NoDate == SelectWhere(N("name"), <<"student">>,
                      Comparison(Quoted("'2001-02-29'"), "EQ", N("birthday")))

\* select score, name from grade, student
\*   where student.stuId = grade.stuId and score < 95.5;
Joined ==
  SelectWhere(Commas(<<"score", "name">>), <<"grade", "student">>,
    Comparison(Of("student", "stuId"), "EQ", Of("grade", "stuId"))
    \o And(Comparison(N("score"), "LT", Tenths(955))))

\* select name, score from student, grade where score < 1.5 and student.stuId < grade.stuId;  -- nobody
Nobody ==
  SelectWhere(Commas(<<"name", "score">>), <<"student", "grade">>,
    Comparison(N("score"), "LT", Tenths(15))
    \o And(Comparison(Of("student", "stuId"), "LT", Of("grade", "stuId"))))

\* select credit from course, teach where workingyears = 8;  -- a column of neither
Unknown == SelectWhere(N("credit"), <<"course", "teach">>,
                       Comparison(N("workingyears"), "EQ", Number(8)))

\* select courseId from course, teach;  -- whose?
Ambiguous == Select(N("courseId"), <<"course", "teach">>) \o End

\* select credit from course where credit = 3;  -- an int is no float
Mistyped == SelectWhere(N("credit"), <<"course">>, Comparison(N("credit"), "EQ", Number(3)))

\* select * from pupil;
NoSuchRelation == Select(Star, <<"pupil">>) \o End

\* select *, x from teach, teach;  -- x is not looked at
Twice == Select(Star \o W(<<"COMMA">>) \o N("x"), <<"teach", "teach">>) \o End

\* select credit, courseName, credit from course
\*   where 1 < 2 and not (credit >= 3.0 or 2 < 1);
Folded ==
  SelectWhere(Commas(<<"credit", "courseName", "credit">>), <<"course">>,
    Comparison(Number(1), "LT", Number(2)) \o W(<<"AND", "NOT", "LBRACE">>)
    \o Comparison(N("credit"), "GE", Tenths(30)) \o W(<<"OR">>)
    \o Comparison(Number(2), "LT", Number(1)) \o W(<<"RBRACE">>))

\* select teacherName from teacher, teach, course
\*   where teacher.teacherId = teach.teacherId and course.courseId = teach.courseId
\*   and faculty = 'cs' and courseName = 'db';
Three ==
  SelectWhere(N("teacherName"), <<"teacher", "teach", "course">>,
    <<MCNewline>> \o Comparison(Of("teacher", "teacherId"), "EQ", Of("teach", "teacherId"))
    \o And(Comparison(Of("course", "courseId"), "EQ", Of("teach", "courseId"))) \o <<MCNewline>>
    \o And(Comparison(N("faculty"), "EQ", Quoted("'cs'")))
    \o And(Comparison(N("courseName"), "EQ", Quoted("'db'"))))

\* select name from student where stuId = 3082 and;
Broken == SelectWhere(N("name"), <<"student">>,
                      Comparison(N("stuId"), "EQ", Number(3082)) \o W(<<"AND">>))

Exit == W(<<"EXIT">>) \o End

\* Two statements on one line are one text to the parser, which refuses it.
TwoOnALine == Select(Star, <<"teach">>) \o <<MCSemicolon>> \o Select(Star, <<"teach">>) \o End

\* No semicolon, or no newline after it.
Unfinished == {Select(Star, <<"teach">>) \o <<MCNewline>>,
               Select(Star, <<"teach">>) \o <<MCSemicolon>>}

Singles == {ByDate, NoDate, Joined, Unknown, Ambiguous, Mistyped, NoSuchRelation, Twice, Folded,
            Three, Nobody, Broken, Exit, TwoOnALine}

Firsts == {NoDate, Ambiguous, Mistyped, Folded, Broken, Exit, TwoOnALine, ByDate}
Seconds == {ByDate, Folded, Ambiguous, Joined} \cup Unfinished

MCInputs == Singles \cup {f \o s : f \in Firsts, s \in Seconds}
=============================================================================
