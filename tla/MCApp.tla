------------------------------- MODULE MCApp -------------------------------
(***************************************************************************)
(* App for TLC: patterns that overlap at every kind of segment, and paths  *)
(* that end in every kind of node.                                         *)
(***************************************************************************)
EXTENDS App

A == Static("a")
B == Static("b")
X == Param("x")
Y == Param("y")

MCPatterns == {<<A, B, X>>, <<X, B>>, <<Y>>, <<A, Wildcard>>, <<Wildcard>>}

(* The two that leave a node without handlers in the way of the other.     *)
OverlapPatterns == {<<A, B, Y>>, <<X, B>>, <<A, Y>>}

MCPaths == {<<"">>, <<"a">>, <<"a", "b">>, <<"a", "", "c">>, <<"c", "b">>, <<"a", "b", "c">>}

MCPrefixes == {<<A>>}

Settings(origins, credentials) ==
    [origins |-> origins, credentials |-> credentials, methods |-> {"GET"},
     headers |-> {Star}, expose |-> {}, maxAge |-> None]

MCCorsBuilders ==
    {Settings(<<Star>>, TRUE), Settings(<<Star, "home">>, TRUE), Settings(<<"home">>, TRUE),
     Settings(<<Star>>, FALSE)}

MCOutcomes ==
    {[ok |-> TRUE, status |-> 200, vary |-> {"accept"}], [ok |-> FALSE, status |-> 500, vary |-> {}]}
=============================================================================
