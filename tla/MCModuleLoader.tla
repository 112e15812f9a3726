-------------------------- MODULE MCModuleLoader --------------------------
(* Projects of up to five modules, two of them in a directory.             *)
EXTENDS ModuleLoader

A  == <<"", "a">>
B  == <<"", "b">>
DA == <<"d", "a">>
DB == <<"d", "b">>
UB == <<"", "d_b">>
MCNames == {A, B, DA, DB, UB}

MCSlashed(m) == IF m = UB THEN DB ELSE m

Plain(m) == [self |-> FALSE, name |-> m, selective |-> FALSE]
Self(m)  == [self |-> TRUE, name |-> m, selective |-> FALSE]
From(m)  == [self |-> FALSE, name |-> m, selective |-> TRUE]

(* Lists of up to two imports out of S.                                    *)
Lists(S) == {<<>>} \cup {<<r>> : r \in S} \cup {<<r, s>> : r, s \in S}

With(program, exists, unparsed, a, b, da) ==
  [program |-> program, exists |-> exists, unparsed |-> unparsed,
   imports |-> (A :> a @@ B :> b @@ DA :> da @@ DB :> <<>> @@ UB :> <<Plain(B)>>)]

(* The modules a and d.a import what they like, b imports d.a or not, d.b  *)
(* and d_b are there or not, d.a is good or not.                           *)
MCProjects ==
  { With(<<Plain(A), Plain(DA)>>, e, u, a, b, da) :
    e \in {{A, B, DA}, {A, B, DA, DB}, {A, B, DA, DB, UB}}, u \in {{}, {DA}},
    a  \in Lists({Plain(A), Plain(B), Plain(DA), Plain(UB), Self(B)}),
    b  \in {<<>>, <<Plain(DA)>>, <<Plain(A), Plain(DA)>>},
    da \in Lists({Plain(A), Plain(B), Self(B), From(B)}) }
=============================================================================
