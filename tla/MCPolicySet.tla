----------------------------- MODULE MCPolicySet -----------------------------
(****************************************************************************)
(* Policies that overlap in every way the engine distinguishes: the four    *)
(* host pattern kinds on one domain, two destinations of one policy on one  *)
(* host, explicit and default ports, path rules with and without wildcards, *)
(* methods and upgrades, and selectors that are missing, narrowed to pods,  *)
(* shared by two tenants or malformed.                                      *)
(****************************************************************************)
EXTENDS PolicySet

MCLower(label) == IF label = "X" THEN "x" ELSE label

Seg(c) == <<[char |-> c, esc |-> FALSE]>>
Up == Seg(".") \o Seg(".")

Rule(path, exact, methods, upgrade) ==
    [path |-> path, exact |-> exact, methods |-> methods, upgrade |-> upgrade]
Dest(host, ports, mode, paths) ==
    [host |-> host, ports |-> ports, mode |-> mode, paths |-> paths]
Policy(name, nsSel, podSel, upstream, dests) ==
    [name |-> name, nsSel |-> nsSel, podSel |-> podSel, upstream |-> upstream, dests |-> dests]

TeamA == Selector({"a"})
TeamB == Selector({"b"})
Everyone == Selector({"a", "b"})

MCPool ==
  { Policy(1, TeamA, NilSelector, "u1",
           <<Dest(<<"*", "e">>, {}, "tunnel", <<>>)>>),
    Policy(2, TeamA, NilSelector, "u2",
           <<Dest(<<"x", "e">>, {}, "inspect",
                  <<Rule(<<<<"a">>>>, TRUE, {"GET"}, FALSE), Rule(<<<<"b">>>>, FALSE, {}, TRUE)>>)>>),
    Policy(3, Everyone, Selector({"web"}), "u3",
           <<Dest(<<"**", "e">>, {}, "inspect", <<>>)>>),
    Policy(4, TeamB, NilSelector, "u1",
           <<Dest(<<"x", "e">>, {8443}, "tunnel", <<>>), Dest(<<"*">>, {}, "tunnel", <<>>)>>),
    Policy(5, NilSelector, NilSelector, "u1",
           <<Dest(<<"*">>, {}, "tunnel", <<>>)>>),
    Policy(6, TeamA, NilSelector, "u3",
           <<Dest(<<"x", "e">>, {}, "inspect", <<Rule(<<<<"a">>, <<"*", "*">>>>, FALSE, {}, FALSE)>>),
             Dest(<<"x", "e">>, {443}, "inspect", <<Rule(<<<<"c">>>>, FALSE, {"GET"}, TRUE)>>)>>),
    Policy(7, TeamB, Selector({"web"}), "u2",
           <<Dest(<<"x", "e">>, {8443}, "inspect", <<Rule(<<>>, FALSE, {"GET"}, FALSE)>>)>>),
    Policy(8, TeamB, BadSelector, "u1",
           <<Dest(<<"*">>, {}, "inspect", <<>>)>>),
    Policy(9, BadSelector, NilSelector, "u2",
           <<Dest(<<"x", "e">>, {}, "tunnel", <<>>)>>) }

MCIdentities ==
    {[nsLabels |-> n, podLabels |-> p] : n \in {"a", "b"}, p \in {"web", "job"}}

Req(host, port, target, method, upgrade) ==
    [host |-> host, port |-> port, target |-> target, method |-> method, upgrade |-> upgrade]

MCRequests ==
    {Req(h, 443, t, m, u) :
        h \in {<<"X", "e", "">>, <<"z", "x", "e">>},
        t \in {<<Seg("a")>>, <<Seg("a"), Seg("b")>>, <<Seg("b"), Up, Seg("c")>>},
        m \in {"GET", "PUT"}, u \in BOOLEAN}
    \cup {Req(<<"x", "e">>, 8443, <<Seg("b")>>, "GET", u) : u \in BOOLEAN}
    \cup {Req(<<"x", "e">>, 443, <<Up>>, "GET", FALSE)}
=============================================================================
