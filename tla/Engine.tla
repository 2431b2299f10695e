------------------------------- MODULE Engine -------------------------------
(****************************************************************************)
(* The policy engine: internal/policy/engine.go, the host half of match.go  *)
(* and the two readers of policy objects outside the request path           *)
(* (InspectedPolicies of store.go, the selectors of cabundle/controller.go).*)
(*                                                                          *)
(* A host, and a host pattern, is the sequence of labels between its dots;  *)
(* a trailing dot is a last label "".  A selector is nil, malformed         *)
(* (LabelSelectorAsSelector fails) or the set of label sets it matches.     *)
(* Policy names are ordered as numbers, which is all the code asks of them. *)
(* A policy is a record                                                     *)
(*   [name, nsSel, podSel, upstream, dests], a destination                  *)
(*   [host, ports, mode, paths] and a path rule                             *)
(*   [path, exact, methods, upgrade].                                       *)
(* The engine never runs without an identity: handle returns before.        *)
(****************************************************************************)
EXTENDS PathRules, FiniteSets

CONSTANT Lower(_)    \* a label in lower case

None == "none"       \* where the code has an empty string or nil

NilSelector == [kind |-> "nil", matches |-> {}]
BadSelector == [kind |-> "bad", matches |-> {}]
Selector(S) == [kind |-> "ok", matches |-> S]

\* Objects have names of their own.
UniqueNames(policies) ==
    /\ \A p \in policies : p.name \in Nat /\ DOMAIN p.dests \subseteq Nat
    /\ \A p, q \in policies : p.name = q.name => p = q

-----------------------------------------------------------------------------
(* Hosts and ports. *)

Blank(host) == host \in {<<>>, <<"">>}

canonicalHost(host) ==
    LET low == [i \in DOMAIN host |-> Lower(host[i])]
    IN  IF host # <<>> /\ Last(host) = "" THEN Front(low) ELSE low

\* host ends in a dot and rest, and something comes before that dot.
Below(host, rest) ==
    /\ Len(host) > Len(rest)
    /\ IsSuffix(rest, host)
    /\ SubSeq(host, 1, Len(host) - Len(rest)) # <<"">>

MatchHost(pattern, host) ==
    LET p == canonicalHost(pattern)
        h == canonicalHost(host)
    IN  /\ ~Blank(p) /\ ~Blank(h)
        /\ CASE p \in {<<"*">>, <<"**">>} -> TRUE
             [] p[1] = "**" /\ Len(p) > 1 -> Below(h, Tail(p))
             [] p[1] = "*" /\ Len(p) > 1 -> Below(h, Tail(p)) /\ Len(h) = Len(p)
             [] OTHER -> p = h

DefaultPorts == {80, 443}

MatchPort(ports, port) == port \in (IF ports = {} THEN DefaultPorts ELSE ports)

\* The rank is taken from the pattern as written.
hostSpecificity(pattern) ==
    CASE pattern \in {<<"*">>, <<"**">>} -> 0
      [] pattern # <<"**">> /\ pattern[1] = "**" -> 1
      [] pattern # <<"*">> /\ pattern[1] = "*" -> 2
      [] OTHER -> 3

-----------------------------------------------------------------------------
(* Selection. *)

\* The pod selector is looked at only when the namespace matches.
SelectorError(pol, id) ==
    \/ pol.nsSel.kind = "bad"
    \/ /\ pol.nsSel.kind = "ok" /\ id.nsLabels \in pol.nsSel.matches
       /\ pol.podSel.kind = "bad"

\* A missing namespace selector matches nothing, a missing pod selector
\* everything.
Selects(pol, id) ==
    /\ pol.nsSel.kind = "ok" /\ id.nsLabels \in pol.nsSel.matches
    /\ \/ pol.podSel.kind = "nil"
       \/ pol.podSel.kind = "ok" /\ id.podLabels \in pol.podSel.matches

-----------------------------------------------------------------------------
(* The connect stage. *)

\* Destination i of a policy as a MatchedDestination.
Grant(pol, i) ==
    [policy |-> pol.name, upstream |-> pol.upstream, idx |-> i, dst |-> pol.dests[i]]

\* Every destination of every selecting policy that covers host and port.
Matched(policies, id, host, port) ==
    UNION {{Grant(pol, i) : i \in {j \in DOMAIN pol.dests :
                                      /\ MatchHost(pol.dests[j].host, host)
                                      /\ MatchPort(pol.dests[j].ports, port)}}
           : pol \in {p \in policies : Selects(p, id)}}

\* Mutant of Less: no tie-break by policy name.
LessBySpecificity(g, h) ==
    hostSpecificity(g.dst.host) > hostSpecificity(h.dst.host)

\* The comparison the matched grants are sorted by.
Less(g, h) ==
    LET sg == hostSpecificity(g.dst.host)
        sh == hostSpecificity(h.dst.host)
    IN  sg > sh \/ (sg = sh /\ g.policy < h.policy)

\* The sort is stable, so grants of one policy keep the order of its list.
Before(g, h) == Less(g, h) \/ (~Less(h, g) /\ g.idx < h.idx)

\* The grant a loop over the sorted grants meets first.
First(grants) == CHOOSE g \in grants : \A h \in grants \ {g} : Before(g, h)

\* Mutant of TLSMode: the most specific grant alone decides on inspection.
TLSModeOfFirst(matched) == IF matched = {} THEN "tunnel" ELSE First(matched).dst.mode

\* Inspection wins over tunnelling.
TLSMode(matched) ==
    IF \E g \in matched : g.dst.mode = "inspect" THEN "inspect" ELSE "tunnel"

\* One malformed selector fails the evaluation for every workload it is
\* evaluated for.
AuthorizeConnect(policies, id, host, port) ==
    LET err     == \E pol \in policies : SelectorError(pol, id)
        matched == IF err THEN {} ELSE Matched(policies, id, host, port)
    IN  [err |-> err, allowed |-> matched # {}, host |-> host, port |-> port,
         mode |-> TLSMode(matched), matched |-> matched,
         upstream |-> IF matched = {} THEN None ELSE First(matched).upstream]

\* Who an audit record blames for a connect decision.
firstPolicy(dec) == IF dec.matched = {} THEN 0 ELSE First(dec.matched).policy

-----------------------------------------------------------------------------
(* The request stage. *)

\* Mutant of RuleAllows: upgrades need no permission.
RuleAllowsUpgrade(rule, path, method, upgrade) ==
    MatchPath(rule.path, rule.exact, path) /\ MatchMethod(rule.methods, method)

RuleAllows(rule, path, method, upgrade) ==
    /\ MatchPath(rule.path, rule.exact, path)
    /\ MatchMethod(rule.methods, method)
    /\ upgrade => rule.upgrade

\* A destination without rules grants the whole host, except an upgrade on an
\* inspected one.
GrantAllows(g, path, method, upgrade) ==
    IF g.dst.paths = <<>> THEN ~(upgrade /\ g.dst.mode = "inspect")
    ELSE \E i \in DOMAIN g.dst.paths : RuleAllows(g.dst.paths[i], path, method, upgrade)

DeniedRequest == [allowed |-> FALSE, policy |-> 0, upstream |-> None]

\* Mutant of AuthorizeRequest: only the most specific grant is asked.
AuthorizeRequestOfFirst(dec, target, method, upgrade) ==
    LET path  == NormalizePath(target)
        allow == {g \in {First(dec.matched)} : GrantAllows(g, path.segs, method, upgrade)}
    IN  IF ~dec.allowed \/ ~path.ok \/ allow = {} THEN DeniedRequest
        ELSE [allowed |-> TRUE, policy |-> First(allow).policy,
              upstream |-> First(allow).upstream]

\* Mutant of AuthorizeRequest: the request egresses under the connection's
\* profile instead of the one of the policy that allowed it.
AuthorizeRequestByConnection(dec, target, method, upgrade) ==
    LET path  == NormalizePath(target)
        allow == {g \in dec.matched : GrantAllows(g, path.segs, method, upgrade)}
    IN  IF ~dec.allowed \/ ~path.ok \/ allow = {} THEN DeniedRequest
        ELSE [allowed |-> TRUE, policy |-> First(allow).policy, upstream |-> dec.upstream]

\* The first grant, in sorted order, that allows the request decides it and
\* names the policy and the upstream profile.
AuthorizeRequest(dec, target, method, upgrade) ==
    LET path  == NormalizePath(target)
        allow == {g \in dec.matched : GrantAllows(g, path.segs, method, upgrade)}
    IN  IF ~dec.allowed \/ ~path.ok \/ allow = {} THEN DeniedRequest
        ELSE [allowed |-> TRUE, policy |-> First(allow).policy,
              upstream |-> First(allow).upstream]

-----------------------------------------------------------------------------
(* Which namespaces get the relay CA. *)

InspectedPolicies(policies) ==
    {pol \in policies : \E i \in DOMAIN pol.dests : pol.dests[i].mode = "inspect"}

\* Mutant of MatchesAny: a policy narrowed to some pods is left out.
MatchesAnyWholeNamespace(policies, nsLabels) ==
    /\ \A pol \in InspectedPolicies(policies) : pol.nsSel.kind # "bad"
    /\ \E pol \in InspectedPolicies(policies) :
           pol.nsSel.kind = "ok" /\ nsLabels \in pol.nsSel.matches /\ pol.podSel.kind = "nil"

\* inspectedSelectors and matchesAny: one malformed selector ends the sync, and
\* the pod selector plays no part.
MatchesAny(policies, nsLabels) ==
    /\ \A pol \in InspectedPolicies(policies) : pol.nsSel.kind # "bad"
    /\ \E pol \in InspectedPolicies(policies) :
           pol.nsSel.kind = "ok" /\ nsLabels \in pol.nsSel.matches
=============================================================================
