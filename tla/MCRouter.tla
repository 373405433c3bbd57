------------------------------ MODULE MCRouter ------------------------------
(* An instance of Router for TLC: patterns that overlap in every way two can. *)
EXTENDS Router

Const(t) == [kind |-> "const", label |-> t]
Param(kind, t) == [kind |-> kind, label |-> t]

MCPatterns ==
  { <<>>, <<Param("int", "x")>>, <<Param("string", "y")>>,
    <<Const("a"), Param("float", "xy")>>,
    <<Param("string", "y"), Const("b")>>,
    <<Const("*"), Param("string", "x"), Const("b")>>,
    <<Param("string", "y"), Param("int", "x")>> }

MCPaths ==
  { <<>>, <<"a">>, <<"7">>, <<"a", "b">>, <<"a", "7">>, <<"a", "1.5">>, <<"7", "7", "b">> }

MCIntTexts == {"", "7"}
MCFloatTexts == {"", "7", "1.5"}
MCNames == {"x", "y", "xy", "z"}
MCBegins == {<<n, n>> : n \in MCNames} \cup {<<"xy", "x">>}
=============================================================================
