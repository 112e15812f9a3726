--------------------------- MODULE MCTypeChecker ---------------------------
(***************************************************************************)
(* Two names, the second of which is the first's mangled for an int.       *)
(***************************************************************************)
EXTENDS TypeChecker

MCNames == {<<"f">>, <<"f", "int">>}

MCExterns == {[params |-> <<"int">>, variadic |-> TRUE]}

MCExpressions ==
  ({"id"} \X Names) \cup
  {<<"lit", "int">>, <<"+", <<"lit", "string">>, <<"id", <<"f">>>> >>, <<"<", <<"lit", "int">>, <<"lit", "string">> >>}
=============================================================================
