------------------------------ MODULE MCSchema ------------------------------
(* Two relations that share one attribute name; one has a second attribute. *)
EXTENDS Schema

MCItems ==
  {[relation_ |-> "S", attribute_ |-> "a", type_ |-> "int"],
   [relation_ |-> "S", attribute_ |-> "b", type_ |-> "int"],
   [relation_ |-> "G", attribute_ |-> "a", type_ |-> "float"]}
=============================================================================
