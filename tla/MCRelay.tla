------------------------------ MODULE MCRelay -------------------------------
(****************************************************************************)
(* Two workloads, a and b, whose policies overlap on host x under different *)
(* profiles, so that one inspected connection carries requests of both      *)
(* profiles; host t is tunnelled and host d is in a noProxy list.           *)
(* Snapshots withdraw a grant and a profile, move a profile to another      *)
(* account and break one; the second resolver state has a name gone and two *)
(* with a denied address.                                                   *)
(****************************************************************************)
EXTENDS Relay

CONSTANTS c1, c2
Interchangeable == Permutations(Conns)

MCLower(label) == label

MCAccount(secret) == IF secret = "gone" THEN None ELSE secret

Seg(c) == <<[char |-> c, esc |-> FALSE]>>

Rule(path, upgrade) == [path |-> path, exact |-> FALSE, methods |-> {}, upgrade |-> upgrade]
Dest(host, mode, paths) == [host |-> host, ports |-> {}, mode |-> mode, paths |-> paths]
Policy(name, nsSel, upstream, dest) ==
    [name |-> name, nsSel |-> nsSel, podSel |-> NilSelector, upstream |-> upstream, dests |-> <<dest>>]
Profile(url, secret, noProxy) == [url |-> url, secret |-> secret, noProxy |-> noProxy]

TeamA == Selector({"a"})
Everyone == Selector({"a", "b"})

X == <<"x", "e">>
T == <<"t", "e">>
D == <<"d", "e">>

OwnX == Policy(1, TeamA, "u1", Dest(X, "inspect", <<Rule(<<<<"a">>>>, FALSE)>>))
SharedX == Policy(2, Everyone, "u2", Dest(X, "inspect", <<Rule(<<<<"b">>>>, TRUE)>>))
OwnT == Policy(3, TeamA, "u1", Dest(T, "tunnel", <<>>))
OwnD == Policy(4, TeamA, "u1", Dest(D, "tunnel", <<>>))
Typo == Policy(5, BadSelector, "u1", Dest(T, "tunnel", <<>>))

Complete ==
    [policies  |-> {OwnX, SharedX, OwnT, OwnD},
     upstreams |-> "u1" :> Profile("ok", "s1", {<<"", "e">>}) @@ "u2" :> Profile("ok", "s2", {})]

Withdrawn ==
    [policies  |-> {OwnX, OwnD},
     upstreams |-> "u1" :> Profile("ok", "s3", {})]

Broken ==
    [policies  |-> {OwnX, SharedX, Typo},
     upstreams |-> "u1" :> Profile("ok", "gone", {}) @@ "u2" :> Profile("bad", NoSecret, {D})]

\* The same two tenants with no noProxy list anywhere.
ProxiedOnly == <<[Complete EXCEPT !.upstreams["u1"].noProxy = {}], Withdrawn>>

MCSnapshots == <<Complete, Withdrawn, Broken>>

SteadyDns == <<X :> {"p"} @@ T :> {"p"} @@ D :> {"p", "q"}>>
MCDnsStates == Append(SteadyDns, X :> {"n"} @@ T :> {} @@ D :> {"p", "n"})

MCDenied == {"n"}

MCIdentities == {[nsLabels |-> n, podLabels |-> None] : n \in {"a", "b"}}

Req(kind, host, seg, upgrade, body, close) ==
    [kind |-> kind, abs |-> kind = "plain", host |-> host, port |-> IF host = <<>> THEN 0 ELSE 443,
     target |-> <<Seg(seg)>>, method |-> "GET", upgrade |-> upgrade, body |-> body, close |-> close]

ConnectX == {Req("connect", X, "", FALSE, "none", FALSE)}
MCConnects == {Req("connect", h, "", FALSE, "none", FALSE) : h \in {X, T, D, <<>>}}

TwoPaths == {Req("inner", <<>>, seg, FALSE, "none", FALSE) : seg \in {"a", "b"}}
MCInner == TwoPaths \cup {Req("inner", <<>>, "b", TRUE, "none", FALSE),
                          Req("inner", <<>>, "b", FALSE, "fits", FALSE),
                          Req("inner", <<>>, "b", FALSE, "fits", TRUE),
                          Req("inner", <<>>, "c", FALSE, "big", FALSE),
                          [Req("inner", <<>>, "b", FALSE, "none", FALSE) EXCEPT !.method = "CONNECT"]}

MCPlain ==
    {Req("plain", X, "a", FALSE, "none", FALSE), Req("plain", X, "b", FALSE, "fits", FALSE),
     Req("plain", X, "b", TRUE, "none", TRUE), Req("plain", X, "c", FALSE, "fits", FALSE),
     Req("plain", X, "c", FALSE, "big", FALSE), Req("plain", T, "a", FALSE, "none", FALSE),
     Req("plain", <<>>, "a", FALSE, "none", FALSE),
     [Req("plain", X, "a", FALSE, "none", FALSE) EXCEPT !.abs = FALSE]}
=============================================================================
