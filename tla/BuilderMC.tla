------------------------------ MODULE BuilderMC ------------------------------
(***************************************************************************)
(* Builder for TLC: three builders that are interchangeable, fields of     *)
(* each shape that get_value tells apart, and paths that lead through one  *)
(* and two sections, into snapshots and into fields.                       *)
(***************************************************************************)
EXTENDS Builder, TLC

CONSTANTS b1, b2, b3

BuilderSymmetry == Permutations({b1, b2, b3})

PlainJson == Obj([type |-> Text("json"), value |-> Obj([a |-> Leaf("uint64", "x")])])

SomeFields == {Stored("int32", "x"), StoredArray("cstr", <<"x", "x">>, "list"), PlainJson}

SomePaths ==
    {<<>>, <<"a">>, <<"header">>, <<"a", "a">>, <<"a", "header">>, <<"a", "value">>,
     <<"a", "a", "a">>, <<"a", "value", "a">>, <<"a", "header", "application">>,
     <<"header", "a">>, <<"header", "application">>, <<"header", "application", "a">>,
     <<"app_data", "a">>, <<"app_data", "a", "a">>, <<"app_data", "header", "application">>,
     <<"exit_data", "details", "a">>, <<"code", "version", "a">>,
     <<"a", "app_data", "a">>, <<"adc_workflow", "wfid">>}

\* The environment lists a child twice.
ChildrenOfEnv == <<"u1", "u1">>
SomeChildLists == {<<"u1", "u2">>, <<"u3", "u3">>}
=============================================================================
