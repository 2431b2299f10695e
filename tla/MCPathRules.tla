----------------------------- MODULE MCPathRules -----------------------------
(* Small alphabets for PathRulesCheck: enough letters for a partial overlap,  *)
(* every wildcard form, and every kind of written one.                        *)
EXTENDS PathRulesCheck

MCPatternSegs == {<<"a">>, <<"b">>, <<"*">>, <<"a", "*">>, <<"*", "*">>}
MCPathSegs == {<<"a">>, <<"b">>, <<"a", "b">>}

Lit(c) == [char |-> c, esc |-> FALSE]
Esc(c) == [char |-> c, esc |-> TRUE]
MCWrittenSegs ==
    {<<>>, <<Lit("a")>>, <<Lit("."), Esc(";"), Lit("a")>>, <<Lit(".")>>, <<Lit("."), Esc(".")>>,
     <<Lit("."), Lit("."), Lit(";")>>, <<Lit("b"), Esc("?")>>, <<Lit("a"), Lit("?"), Lit("%")>>,
     <<Esc("/")>>}
=============================================================================
