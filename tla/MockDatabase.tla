---------------------------- MODULE MockDatabase ----------------------------
(***************************************************************************)
(* The database of the shell (src/standalone/mock_storage_manager.cpp):    *)
(* six relations, their schemas and their rows, and get_relation.  The     *)
(* other methods of MockStorageManager are in module Operators.            *)
(*                                                                         *)
(* A value is a number that orders the values of its type: an integer is   *)
(* itself, a float counts tenths, a date is yyyymmdd, and a string is its  *)
(* place in the Dictionary, which has the texts of the rows and those that *)
(* statements compare them with.                                           *)
(***************************************************************************)
EXTENDS Integers, Sequences, FiniteSets, TLC

\* In the order of std::string, in the quotes of the SQL.
Dictionary ==
  <<"'2001-02-29'", "'2001-06-10'", "'2001-12-06'", "'b.li'", "'b.liu'", "'cs'", "'db'",
    "'gis'", "'jg'", "'kyxl1'", "'kyxl2'", "'op'", "'taroball'", "'zeli'">>

\* String(const char*): the quotes are cut off.
StringOf == [text \in {Dictionary[k] : k \in DOMAIN Dictionary} |->
               CHOOSE k \in DOMAIN Dictionary : Dictionary[k] = text]

\* Those texts that Date::is_valid_date accepts (module Dates), by their place.
DateOf == (StringOf["'2001-06-10'"] :> 20010610) @@ (StringOf["'2001-12-06'"] :> 20011206)

String(text) == StringOf[text]
Date(text) == DateOf[StringOf[text]]

-----------------------------------------------------------------------------
(* The rows *)

student_data ==
  <<<<String("'zeli'"), Date("'2001-06-10'"), 3082>>,
    <<String("'taroball'"), Date("'2001-12-06'"), 3084>>,
    <<String("'op'"), 20010228, 3097>>>>

enroll_data == <<<<3082, 33>>, <<3084, 23>>, <<3097, 31>>>>

course_data ==
  <<<<31, String("'db'"), 30>>, <<33, String("'kyxl1'"), 10>>, <<23, String("'kyxl2'"), 10>>>>

grade_data == <<<<33, 3082, 950>>, <<23, 3084, 710>>, <<31, 3097, 955>>>>

teacher_data ==
  <<<<1001, String("'b.liu'"), String("'cs'"), 10>>,
    <<2001, String("'jg'"), String("'gis'"), 12>>,
    <<1003, String("'b.li'"), String("'cs'"), 8>>>>

teach_data == <<<<31, 1001>>, <<33, 2001>>, <<23, 1003>>>>

data ==
  [student |-> student_data, enroll |-> enroll_data, course |-> course_data,
   grade |-> grade_data, teacher |-> teacher_data, teach |-> teach_data]

-----------------------------------------------------------------------------
(* The schemas *)

\* The items of a relation from the names and the types of its attributes.
SchemaOf(rel, attrs, types) ==
  [k \in DOMAIN attrs |-> [relation_ |-> rel, attribute_ |-> attrs[k], type_ |-> types[k]]]

db_schema ==
  [student |-> SchemaOf("student", <<"name", "birthday", "stuId">>, <<"string", "date", "int">>),
   enroll  |-> SchemaOf("enroll", <<"stuId", "courseId">>, <<"int", "int">>),
   course  |-> SchemaOf("course", <<"courseId", "courseName", "credit">>,
                        <<"int", "string", "float">>),
   grade   |-> SchemaOf("grade", <<"courseId", "stuId", "score">>, <<"int", "int", "float">>),
   teacher |-> SchemaOf("teacher", <<"teacherId", "teacherName", "faculty", "workingyears">>,
                        <<"int", "string", "string", "int">>),
   teach   |-> SchemaOf("teach", <<"courseId", "teacherId">>, <<"int", "int">>)]

\* An empty array for a relation that is not there: its callers refuse that.
get_relation(rel) == IF rel \in DOMAIN db_schema THEN db_schema[rel] ELSE <<>>

Catalog ==
  [rel \in {r \in DOMAIN db_schema : get_relation(r) # <<>>} |-> get_relation(rel)]

\* Nothing in the code checks that the rows fit the schemas they are read with.
ASSUME RowsFitSchemas ==
  /\ DOMAIN data = DOMAIN Catalog
  /\ \A rel \in DOMAIN data :
       \A i \in DOMAIN data[rel] : Len(data[rel][i]) = Len(Catalog[rel])
=============================================================================
