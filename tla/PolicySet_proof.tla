--------------------------- MODULE PolicySet_proof ---------------------------
(****************************************************************************)
(* Properties of the engine for every pool of policies, with malformed      *)
(* selectors among them or not, every workload and every request.           *)
(* They rest on one fact: what a set of policies grants is the union of     *)
(* what its members grant.  Then the order of a decision's grants, and the  *)
(* path rules against their reference definitions, for every target,        *)
(* pattern, segment, rule and path.                                         *)
(****************************************************************************)
EXTENDS PolicySet, PathRulesCheck, Engine_proof, FiniteSetTheorems, SequenceTheorems

\* No selector that is looked at for the workload is malformed.
Evaluates(P, id) == \A pol \in P : ~SelectorError(pol, id)

\* The connect stage holds exactly the matched grants, unless the evaluation
\* fails: then it holds none.
LEMMA ConnectMatched ==
    ASSUME NEW P, NEW id, NEW req
    PROVE  \A g : g \in Connect(P, id, req).matched <=>
                     Evaluates(P, id) /\ g \in Matched(P, id, req.host, req.port)
BY DEF Connect, AuthorizeConnect, Evaluates

\* A connection is inspected when some matched grant asks for it.
LEMMA InspectedMeaning ==
    ASSUME NEW P, NEW id, NEW req
    PROVE  Connect(P, id, req).mode = "inspect" <=>
               /\ Evaluates(P, id)
               /\ \E g \in Matched(P, id, req.host, req.port) : g.dst.mode = "inspect"
<1>1. Connect(P, id, req).mode = TLSMode(Connect(P, id, req).matched)
    BY DEF Connect, AuthorizeConnect
<1> QED
    BY <1>1, ConnectMatched DEF TLSMode

\* A request is permitted when the evaluation does not fail, its target
\* normalizes and some matched grant allows it; the order of the grants plays
\* no part.
LEMMA PermittedMeaning ==
    ASSUME NEW P, NEW id, NEW req
    PROVE  Permitted(P, id, req) <=>
               /\ Evaluates(P, id)
               /\ NormalizePath(req.target).ok
               /\ \E g \in Matched(P, id, req.host, req.port) :
                      GrantAllows(g, NormalizePath(req.target).segs, req.method, req.upgrade)
<1> DEFINE dec == Connect(P, id, req)
           path == NormalizePath(req.target)
           allow == {g \in dec.matched : GrantAllows(g, path.segs, req.method, req.upgrade)}
<1>1. /\ \A g : g \in dec.matched <=> Evaluates(P, id) /\ g \in Matched(P, id, req.host, req.port)
      /\ dec.allowed <=> dec.matched # {}
    BY ConnectMatched DEF Connect, AuthorizeConnect
<1> HIDE DEF dec
<1>2. Permitted(P, id, req) <=> dec.allowed /\ path.ok /\ allow # {}
    BY DEF Permitted, Decision, AuthorizeRequest, DeniedRequest, dec
<1>3. allow # {} <=> \E g \in dec.matched : GrantAllows(g, path.segs, req.method, req.upgrade)
    OBVIOUS
<1> QED
    BY <1>1, <1>2, <1>3

-----------------------------------------------------------------------------
\* Authors only ever create policies of the pool.
LEMMA WithinPool == Spec => [](policies \subseteq Pool)
<1>1. Init => policies \subseteq Pool
    BY DEF Init
<1>2. policies \subseteq Pool /\ [Next]_policies => (policies \subseteq Pool)'
    BY DEF Next, Create, Delete
<1> QED
    BY <1>1, <1>2, PTL DEF Spec

\* Grants are additive: whatever policies exist, a request is allowed exactly
\* when one policy alone would allow it and no selector that is looked at for
\* the workload is malformed.
THEOREM GrantsAreAdditive == Spec => []AllowedIffSomePolicyAllows
<1>1. AllowedIffSomePolicyAllows
    <2> SUFFICES ASSUME NEW id \in Identities, NEW req \in Requests
                 PROVE  Permitted(policies, id, req) <=>
                            Evaluates(policies, id) /\ \E pol \in policies : Permitted({pol}, id, req)
        BY DEF AllowedIffSomePolicyAllows, Evaluates
    <2> DEFINE path == NormalizePath(req.target)
               Ok(g) == GrantAllows(g, path.segs, req.method, req.upgrade)
    <2>1. Permitted(policies, id, req) <=>
              /\ Evaluates(policies, id) /\ path.ok
              /\ \E g \in Matched(policies, id, req.host, req.port) : Ok(g)
        BY PermittedMeaning
    <2>2. \A pol \in policies : Permitted({pol}, id, req) <=>
              /\ Evaluates({pol}, id) /\ path.ok
              /\ \E g \in Matched({pol}, id, req.host, req.port) : Ok(g)
        BY PermittedMeaning
    <2>3. \A g : g \in Matched(policies, id, req.host, req.port) <=>
              \E pol \in policies : g \in Matched({pol}, id, req.host, req.port)
        BY MatchedIsUnion
    <2>4. Evaluates(policies, id) => \A pol \in policies : Evaluates({pol}, id)
        BY DEF Evaluates
    <2> HIDE DEF path, Ok
    <2> QED
        BY <2>1, <2>2, <2>3, <2>4
<1> QED
    BY <1>1, PTL

\* Inspection wins: a connection is inspected exactly when some policy alone
\* would have it inspected and the evaluation does not fail.
THEOREM InspectionAlwaysWins == Spec => []InspectionWins
<1>1. InspectionWins
    <2> SUFFICES ASSUME NEW id \in Identities, NEW req \in Requests
                 PROVE  Connect(policies, id, req).mode = "inspect" <=>
                            /\ Evaluates(policies, id)
                            /\ \E pol \in policies : Connect({pol}, id, req).mode = "inspect"
        BY DEF InspectionWins, Evaluates
    <2>1. Connect(policies, id, req).mode = "inspect" <=>
              /\ Evaluates(policies, id)
              /\ \E g \in Matched(policies, id, req.host, req.port) : g.dst.mode = "inspect"
        BY InspectedMeaning
    <2>2. \A pol \in policies : Connect({pol}, id, req).mode = "inspect" <=>
              /\ Evaluates({pol}, id)
              /\ \E g \in Matched({pol}, id, req.host, req.port) : g.dst.mode = "inspect"
        BY InspectedMeaning
    <2>3. \A g : g \in Matched(policies, id, req.host, req.port) <=>
              \E pol \in policies : g \in Matched({pol}, id, req.host, req.port)
        BY MatchedIsUnion
    <2>4. Evaluates(policies, id) => \A pol \in policies : Evaluates({pol}, id)
        BY DEF Evaluates
    <2> QED
        BY <2>1, <2>2, <2>3, <2>4
<1> QED
    BY <1>1, PTL

\* Every inspected workload's namespace is one the CA bundle controller
\* publishes the relay CA to, malformed selectors or not: a selector that would
\* end the controller's sync also fails AuthorizeConnect.
THEOREM InspectedAlwaysGetsCA == Spec => []InspectedGetsCA
<1>1. InspectedGetsCA
    <2> SUFFICES ASSUME NEW id \in Identities, NEW req \in Requests,
                        Connect(policies, id, req).mode = "inspect"
                 PROVE  MatchesAny(policies, id.nsLabels)
        BY DEF InspectedGetsCA
    <2> DEFINE err == \E pol \in policies : SelectorError(pol, id)
               matched == IF err THEN {} ELSE Matched(policies, id, req.host, req.port)
    <2>1. TLSMode(matched) = "inspect"
        BY DEF Connect, AuthorizeConnect
    <2>2. PICK g \in matched : g.dst.mode = "inspect"
        BY <2>1 DEF TLSMode
    <2>3. ~err /\ g \in Matched(policies, id, req.host, req.port)
        BY <2>2
    <2>4. PICK pol \in policies : Selects(pol, id) /\ \E i \in DOMAIN pol.dests : g = Grant(pol, i)
        BY <2>3 DEF Matched
    <2>5. pol \in InspectedPolicies(policies)
        BY <2>2, <2>4 DEF InspectedPolicies, Grant
    <2>6. \A p \in InspectedPolicies(policies) : p.nsSel.kind # "bad"
        BY <2>3 DEF InspectedPolicies, SelectorError
    <2> QED
        BY <2>4, <2>5, <2>6 DEF MatchesAny, Selects
<1> QED
    BY <1>1, PTL

\* A decision names a policy that by itself allows the request, and the profile
\* of that policy, malformed selectors or not.
THEOREM DecisionsAreAttributed == Spec => []AttributedToGranter
<1>1. policies \subseteq Pool => AttributedToGranter
    <2> SUFFICES ASSUME policies \subseteq Pool, NEW id \in Identities, NEW req \in Requests,
                        Decision(policies, id, req).allowed
                 PROVE  \E pol \in policies :
                            /\ pol.name = Decision(policies, id, req).policy
                            /\ pol.upstream = Decision(policies, id, req).upstream
                            /\ Permitted({pol}, id, req)
        BY DEF AttributedToGranter
    <2>1. UniqueNames(policies)
        BY PoolAssumption DEF UniqueNames
    <2> DEFINE dec == AuthorizeConnect(policies, id, req.host, req.port)
               rdec == AuthorizeRequest(dec, req.target, req.method, req.upgrade)
    <2>2. Decision(policies, id, req) = rdec /\ rdec.allowed
        BY DEF Decision, Connect
    <2>3. \E pol \in policies :
              /\ pol.name = rdec.policy /\ pol.upstream = rdec.upstream
              /\ AuthorizeRequest(AuthorizeConnect({pol}, id, req.host, req.port),
                                  req.target, req.method, req.upgrade).allowed
        BY <2>1, <2>2, RequestGranter
    <2> HIDE DEF rdec
    <2> QED
        BY <2>2, <2>3 DEF Permitted, Decision, Connect
<1> QED
    BY <1>1, WithinPool, PTL

\* What a rule or a destination allows as an upgrade it allows without one.
LEMMA UpgradeIsMore ==
    ASSUME NEW g, NEW path, NEW method, GrantAllows(g, path, method, TRUE)
    PROVE  GrantAllows(g, path, method, FALSE)
BY DEF GrantAllows, RuleAllows

\* An upgrade passes only where the same request without it passes, and only by
\* a whole-host tunnel destination or an allowUpgrade rule, of the policy that the
\* decision names, that covers this very request.
THEOREM UpgradesAreDeliberate == Spec => []UpgradeIsDeliberate
<1>1. policies \subseteq Pool => UpgradeIsDeliberate
    <2> SUFFICES ASSUME policies \subseteq Pool, NEW id \in Identities, NEW req \in Requests,
                        req.upgrade, Permitted(policies, id, req)
                 PROVE  /\ Permitted(policies, id, [req EXCEPT !.upgrade = FALSE])
                        /\ \E pol \in policies :
                               /\ pol.name = Decision(policies, id, req).policy /\ Selects(pol, id)
                               /\ \E i \in DOMAIN pol.dests : MeansUpgrade(pol.dests[i], req)
        BY DEF UpgradeIsDeliberate
    <2> DEFINE dec == Connect(policies, id, req)
               path == NormalizePath(req.target)
               same == [req EXCEPT !.upgrade = FALSE]
    <2>1. /\ same.host = req.host /\ same.port = req.port /\ same.target = req.target
          /\ same.method = req.method /\ same.upgrade = FALSE /\ req.upgrade = TRUE
        BY RequestsAssumption
    <2>2. UniqueNames(policies)
        BY PoolAssumption DEF UniqueNames
    <2>3. /\ dec.allowed /\ path.ok
          /\ \E g \in dec.matched : GrantAllows(g, path.segs, req.method, TRUE)
        BY <2>1 DEF Permitted, Decision, AuthorizeRequest, DeniedRequest
    <2>4. Permitted(policies, id, same)
        <3>1. Connect(policies, id, same) = dec
            BY <2>1 DEF Connect
        <3>2. \E g \in dec.matched : GrantAllows(g, path.segs, req.method, FALSE)
            BY <2>3, UpgradeIsMore
        <3> HIDE DEF dec, path, same
        <3> QED
            BY <2>1, <2>3, <3>1, <3>2 DEF Permitted, Decision, AuthorizeRequest, path
    <2>5. PICK pol \in policies :
              /\ pol.name = Decision(policies, id, req).policy /\ Selects(pol, id)
              /\ \E i \in DOMAIN pol.dests :
                     /\ MatchHost(pol.dests[i].host, req.host) /\ MatchPort(pol.dests[i].ports, req.port)
                     /\ GrantAllows(Grant(pol, i), path.segs, req.method, req.upgrade)
        <3> DEFINE tgt == req.target
                   met == req.method
                   upg == req.upgrade
                   hst == req.host
                   prt == req.port
        <3>1. AuthorizeRequest(AuthorizeConnect(policies, id, hst, prt), tgt, met, upg).allowed
            BY DEF Permitted, Decision, Connect
        <3>2. \E pol \in policies :
                  /\ pol.name = AuthorizeRequest(AuthorizeConnect(policies, id, hst, prt),
                                                 tgt, met, upg).policy
                  /\ Selects(pol, id)
                  /\ \E i \in DOMAIN pol.dests :
                         /\ MatchHost(pol.dests[i].host, hst) /\ MatchPort(pol.dests[i].ports, prt)
                         /\ GrantAllows(Grant(pol, i), NormalizePath(tgt).segs, met, upg)
            <4> HIDE DEF tgt, met, upg, hst, prt
            <4> QED
                BY <2>2, <3>1, RequestGranter
        <3> QED
            BY <3>2 DEF Decision, Connect
    <2>6. PICK i \in DOMAIN pol.dests :
              /\ MatchHost(pol.dests[i].host, req.host) /\ MatchPort(pol.dests[i].ports, req.port)
              /\ GrantAllows(Grant(pol, i), path.segs, req.method, TRUE)
        BY <2>1, <2>5
    <2>7. pol.dests[i].mode \in {"tunnel", "inspect"} /\ Grant(pol, i).dst = pol.dests[i]
        BY PoolAssumption DEF Grant
    <2>8. MeansUpgrade(pol.dests[i], req)
        BY <2>6, <2>7 DEF MeansUpgrade, GrantAllows, RuleAllows
    <2> QED
        BY <2>4, <2>5, <2>8
<1> QED
    BY <1>1, WithinPool, PTL

-----------------------------------------------------------------------------
(* Loops over a bounded range. *)

\* Induction up to a bound, over a set.
LEMMA UpTo ==
    ASSUME NEW n \in Nat, NEW S, 0 \in S, \A i \in 0 .. n - 1 : i \in S => i + 1 \in S
    PROVE  \A i \in 0 .. n : i \in S
<1> DEFINE Bad == {i \in 0 .. n : i \notin S}
<1> SUFFICES ASSUME Bad # {} PROVE FALSE
    OBVIOUS
<1>1. PICK m \in Bad : \A k \in Bad : m <= k
    <2>1. Bad \subseteq Nat
        OBVIOUS
    <2> HIDE DEF Bad
    <2> QED
        BY <2>1, LeastNumber
<1>2. m # 0 /\ m - 1 \in 0 .. n - 1
    BY <1>1
<1>3. m - 1 \in S
    BY <1>1, <1>2
<1> QED
    BY <1>2, <1>3

\* Loops of m steps over values of V, and their runs.
Loops(V, m) == [1 .. m -> [V -> V]]

IsRun(f, V, start, m, step) ==
    /\ f \in [0 .. m -> V] /\ f[0] = start
    /\ \A i \in 1 .. m : f[i] = step[i][f[i - 1]]

\* Every loop has a run.
LEMMA Iterates ==
    ASSUME NEW V, NEW start \in V, NEW n \in Nat, NEW step \in Loops(V, n)
    PROVE  \E f : IsRun(f, V, start, n, step)
<1> USE DEF Loops
<1> DEFINE Run(f, m) == IsRun(f, V, start, m, step)
           S == {m \in 0 .. n : \E f : Run(f, m)}
<1>1. 0 \in S
    <2> DEFINE g == [i \in 0 .. 0 |-> start]
    <2>1. Run(g, 0)
        BY DEF IsRun
    <2> HIDE DEF Run
    <2> QED
        BY <2>1
<1>2. ASSUME NEW m \in 0 .. n - 1, m \in S
      PROVE  m + 1 \in S
    <2>1. PICK f : Run(f, m)
        BY <1>2
    <2>2. f[m] \in V /\ m + 1 \in 1 .. n /\ m \in Nat
        BY <2>1 DEF IsRun
    <2>3. step[m + 1][f[m]] \in V
        BY <2>2
    <2> DEFINE g == [i \in 0 .. m + 1 |-> IF i = m + 1 THEN step[m + 1][f[m]] ELSE f[i]]
    <2>4. g \in [0 .. m + 1 -> V]
        BY <2>1, <2>2, <2>3 DEF IsRun
    <2>5. /\ g[0] = start /\ \A i \in 1 .. m : g[i] = f[i] /\ g[i - 1] = f[i - 1]
          /\ g[m + 1] = step[m + 1][g[m]]
        BY <2>1, <2>2 DEF IsRun
    <2>6. 1 .. m + 1 = (1 .. m) \cup {m + 1} /\ (m + 1) - 1 = m
        BY <2>2
    <2> HIDE DEF g
    <2>7. Run(g, m + 1)
        BY <2>1, <2>4, <2>5, <2>6 DEF IsRun
    <2> HIDE DEF Run
    <2> QED
        BY <2>2, <2>7
<1>3. \A m \in 0 .. n - 1 : m \in S => m + 1 \in S
    BY <1>2
<1>4. n \in S
    <2> HIDE DEF S
    <2>1. \A m \in 0 .. n : m \in S
        BY <1>1, <1>3, UpTo
    <2> QED
        BY <2>1 DEF IsRun
<1> QED
    BY <1>4

\* The same for a loop from the last step to the first.
IsRunDown(f, V, start, m, step) ==
    /\ f \in [1 .. m + 1 -> V] /\ f[m + 1] = start
    /\ \A i \in 1 .. m : f[i] = step[i][f[i + 1]]

LEMMA IteratesDown ==
    ASSUME NEW V, NEW start \in V, NEW n \in Nat, NEW step \in Loops(V, n)
    PROVE  \E f : IsRunDown(f, V, start, n, step)
<1> DEFINE back == [k \in 1 .. n |-> step[n + 1 - k]]
<1>1. back \in Loops(V, n)
    BY DEF Loops
<1>2. \A k \in 1 .. n : back[k] = step[n + 1 - k]
    OBVIOUS
<1> HIDE DEF back
<1>3. PICK g : IsRun(g, V, start, n, back)
    BY <1>1, Iterates
<1> DEFINE f == [i \in 1 .. n + 1 |-> g[n + 1 - i]]
<1>4. f \in [1 .. n + 1 -> V] /\ f[n + 1] = start
    BY <1>3 DEF IsRun
<1>5. ASSUME NEW i \in 1 .. n PROVE f[i] = step[i][f[i + 1]]
    <2> DEFINE k == n + 1 - i
    <2>1. k \in 1 .. n /\ n + 1 - k = i /\ n + 1 - (i + 1) = k - 1 /\ i + 1 \in 1 .. n + 1
        OBVIOUS
    <2>2. g[k] = step[i][g[k - 1]]
        BY <1>2, <1>3, <2>1 DEF IsRun
    <2> QED
        BY <2>1, <2>2
<1> HIDE DEF f
<1> QED
    BY <1>4, <1>5 DEF IsRunDown

-----------------------------------------------------------------------------
(* The order of the grants of a decision. *)

\* The loop over the destinations of one policy.
HitsRun(seq, pol, id, req) ==
    LET G == Matched({pol}, id, req.host, req.port)
    IN  /\ seq[0] = <<>>
        /\ \A i \in 1 .. Len(pol.dests) :
               seq[i] = IF Grant(pol, i) \in G THEN Append(seq[i - 1], Grant(pol, i)) ELSE seq[i - 1]
        /\ Hits(pol, id, req) = seq[Len(pol.dests)]

\* The recursion of that loop has a solution.
LEMMA HitsRecursion ==
    ASSUME NEW pol, Len(pol.dests) \in Nat, NEW id, NEW req
    PROVE  \E seq : HitsRun(seq, pol, id, req)
<1> DEFINE n == Len(pol.dests)
           G == Matched({pol}, id, req.host, req.port)
           Step(prev, i) == IF Grant(pol, i) \in G THEN Append(prev, Grant(pol, i)) ELSE prev
           Body(f) == [i \in 0 .. n |-> IF i = 0 THEN <<>> ELSE Step(f[i - 1], i)]
           step == [i \in 1 .. n |-> [prev \in Seq(G) |-> Step(prev, i)]]
           sol == CHOOSE f : f = Body(f)
<1>1. Hits(pol, id, req) = sol[n]
    BY DEF Hits
<1>0. n \in Nat
    OBVIOUS
<1> DEFINE V == Seq(G)
<1> HIDE DEF G, n
<1>2. /\ step \in [1 .. n -> [V -> V]] /\ <<>> \in V
      /\ \A i \in 1 .. n, prev \in V : step[i][prev] = Step(prev, i)
    OBVIOUS
<1> HIDE DEF step, Step, V
<1> DEFINE none == <<>>
<1>3. none \in V /\ step \in Loops(V, n)
    BY <1>2 DEF Loops
<1> HIDE DEF none
<1>4. PICK f : IsRun(f, V, none, n, step)
    BY <1>0, <1>3, Iterates
<1>5. f = Body(f)
    <2>1. \A i \in 1 .. n : f[i - 1] \in V
        BY <1>0, <1>4 DEF IsRun
    <2>2. \A i \in 0 .. n : f[i] = IF i = 0 THEN <<>> ELSE Step(f[i - 1], i)
        BY <1>0, <1>2, <1>4, <2>1 DEF none, IsRun
    <2>3. f = [i \in 0 .. n |-> f[i]]
        BY <1>4 DEF IsRun
    <2> QED
        BY <2>2, <2>3
<1> HIDE DEF Body
<1>6. sol = Body(sol)
    BY <1>5
<1> HIDE DEF sol
<1>7. /\ sol[0] = <<>>
      /\ \A i \in 1 .. n : sol[i] = Step(sol[i - 1], i)
    BY <1>0, <1>6 DEF Body
<1> QED
    BY <1>1, <1>7 DEF Step, G, n, HitsRun

\* What a policy alone matches.
LEMMA MatchedOne ==
    ASSUME NEW pol, NEW id, NEW req, NEW g \in Matched({pol}, id, req.host, req.port)
    PROVE  /\ Selects(pol, id) /\ g.policy = pol.name
           /\ g.idx \in DOMAIN pol.dests /\ g = Grant(pol, g.idx)
<1>1. /\ Selects(pol, id)
      /\ \E i \in DOMAIN pol.dests : g = Grant(pol, i)
    BY DEF Matched
<1>2. PICK i \in DOMAIN pol.dests : g = Grant(pol, i)
    BY <1>1
<1>3. g.idx = i /\ g.policy = pol.name
    BY <1>2 DEF Grant
<1> QED
    BY <1>1, <1>2, <1>3

\* A list of grants in which those of one policy are in the order of its list.
InOrder(seq) ==
    \A a \in DOMAIN seq : \A b \in DOMAIN seq :
        a < b /\ seq[a].policy = seq[b].policy => seq[a].idx < seq[b].idx

\* Exactly the grants G, those of one policy in the order of its list.
Lists(seq, G) == seq \in Seq(G) /\ InOrder(seq) /\ \A g \in G : \E a \in DOMAIN seq : seq[a] = g

\* That loop lists what the policy matches, in the order of its list.
LEMMA HitsAre ==
    ASSUME NEW pol, pol.dests \in Seq(Range(pol.dests)), NEW id, NEW req
    PROVE  Lists(Hits(pol, id, req), Matched({pol}, id, req.host, req.port))
<1> DEFINE G == Matched({pol}, id, req.host, req.port)
           n == Len(pol.dests)
<1>0. n \in Nat /\ DOMAIN pol.dests = 1 .. n
    OBVIOUS
<1>a. PICK seq : HitsRun(seq, pol, id, req)
    BY <1>0, HitsRecursion
<1>1.            /\ seq[0] = <<>>
                 /\ \A i \in 1 .. n : seq[i] = IF Grant(pol, i) \in G
                                               THEN Append(seq[i - 1], Grant(pol, i)) ELSE seq[i - 1]
                 /\ Hits(pol, id, req) = seq[n]
    BY <1>a DEF HitsRun
<1>2. \A g \in G : g.policy = pol.name /\ g.idx \in 1 .. n /\ g = Grant(pol, g.idx)
    BY <1>0, MatchedOne
<1>3. \A i : Grant(pol, i).idx = i
    BY DEF Grant
<1> HIDE DEF G, n
<1> DEFINE Good(s, i) == /\ s \in Seq(G) /\ InOrder(s)
                         /\ \A a \in DOMAIN s : s[a].idx <= i
                         /\ \A g \in G : g.idx <= i => \E a \in DOMAIN s : s[a] = g
           S == {i \in 0 .. n : Good(seq[i], i)}
<1>4. 0 \in S
    <2>1. seq[0] \in Seq(G) /\ DOMAIN seq[0] = {}
        BY <1>1
    <2>2. \A g \in G : ~(g.idx <= 0)
        BY <1>0, <1>2
    <2> QED
        BY <1>0, <2>1, <2>2 DEF InOrder
<1>5. ASSUME NEW i \in 0 .. n - 1, i \in S
      PROVE  i + 1 \in S
    <2> DEFINE s == seq[i]
               e == Grant(pol, i + 1)
    <2>0. i \in Nat /\ i + 1 \in 1 .. n /\ (i + 1) - 1 = i /\ i + 1 \in 0 .. n
        BY <1>0
    <2>1. Good(s, i)
        BY <1>5
    <2>2. e.idx = i + 1
        BY <1>3
    <2>3. seq[i + 1] = IF e \in G THEN Append(s, e) ELSE s
        BY <1>1, <2>0
    <2> HIDE DEF s, e
    <2>4. \A g \in G : g.idx \in Nat /\ (g.idx <= i + 1 <=> g.idx <= i \/ g.idx = i + 1)
        BY <1>0, <1>2, <2>0
    <2>5. \A g \in G : g.idx = i + 1 => g = e
        BY <1>2 DEF e
    <2>6. CASE e \notin G
        <3>1. \A g \in G : g.idx <= i + 1 => g.idx <= i
            BY <2>4, <2>5, <2>6
        <3>2. \A a \in DOMAIN s : s[a].idx <= i + 1
            <4>1. \A a \in DOMAIN s : s[a] \in G /\ s[a].idx <= i
                BY <2>1
            <4> QED
                BY <2>0, <2>4, <4>1
        <3>3. Good(s, i + 1)
            BY <2>1, <3>1, <3>2
        <3> HIDE DEF Good
        <3> QED
            BY <2>0, <2>3, <2>6, <3>3
    <2>7. CASE e \in G
        <3> DEFINE r == Append(s, e)
                   k == Len(s)
        <3>1. /\ s \in Seq(G) /\ k \in Nat /\ DOMAIN s = 1 .. k
              /\ r \in Seq(G) /\ DOMAIN r = 1 .. k + 1
              /\ r[k + 1] = e /\ \A a \in 1 .. k : r[a] = s[a]
            BY <2>1, <2>7
        <3>2. \A a \in 1 .. k : s[a] \in G /\ s[a].idx \in Nat /\ s[a].idx <= i
            BY <2>1, <2>4, <3>1
        <3> HIDE DEF r, k
        <3>3. \A a \in 1 .. k + 1 : a \in 1 .. k \/ a = k + 1
            BY <3>1
        <3>4. InOrder(r)
            <4> SUFFICES ASSUME NEW a \in 1 .. k + 1, NEW b \in 1 .. k + 1, a < b,
                                r[a].policy = r[b].policy
                         PROVE  r[a].idx < r[b].idx
                BY <3>1 DEF InOrder
            <4>1. a \in 1 .. k
                BY <3>1, <3>3
            <4>2. CASE b \in 1 .. k
                BY <2>1, <3>1, <4>1, <4>2 DEF InOrder
            <4>3. CASE b = k + 1
                BY <2>0, <2>2, <3>1, <3>2, <4>1, <4>3
            <4> QED
                BY <3>3, <4>2, <4>3
        <3>5. \A a \in 1 .. k + 1 : r[a].idx <= i + 1
            BY <2>0, <2>2, <3>1, <3>2, <3>3
        <3>6. ASSUME NEW g \in G, g.idx <= i + 1
              PROVE  \E a \in 1 .. k + 1 : r[a] = g
            <4>1. CASE g = e
                BY <3>1, <4>1
            <4>2. CASE g # e
                <5>1. PICK a \in 1 .. k : s[a] = g
                    BY <2>1, <2>4, <2>5, <3>1, <3>6, <4>2
                <5> QED
                    BY <3>1, <5>1
            <4> QED
                BY <4>1, <4>2
        <3>7. Good(r, i + 1)
            BY <3>1, <3>4, <3>5, <3>6
        <3> HIDE DEF Good
        <3> QED
            BY <2>0, <2>3, <2>7, <3>7 DEF r
    <2> QED
        BY <2>6, <2>7
<1>6. Good(seq[n], n)
    <2>1. \A i \in 0 .. n - 1 : i \in S => i + 1 \in S
        BY <1>5
    <2> HIDE DEF S
    <2>2. \A i \in 0 .. n : i \in S
        BY <1>0, <1>4, <2>1, UpTo
    <2> QED
        BY <1>0, <2>2 DEF S
<1>7. \A g \in G : g.idx <= n
    BY <1>0, <1>2
<1> QED
    BY <1>1, <1>6, <1>7 DEF G, Lists

\* The policies a cache may hold.
Listable(P) ==
    /\ \A pol \in P : pol.name \in Nat /\ pol.dests \in Seq(Range(pol.dests))
    /\ \A p \in P : \A q \in P : p.name = q.name => p = q

\* The loop over the policies.
ListedRun(seq, n, list, id, req) ==
    /\ seq[0] = <<>>
    /\ \A i \in 1 .. n : seq[i] = seq[i - 1] \o Hits(list[i], id, req)
    /\ Listed(list, id, req) = seq[n]

\* The recursion of that loop has a solution.
LEMMA ListedRecursion ==
    ASSUME NEW P, Listable(P), NEW n \in Nat, NEW list \in [1 .. n -> P], NEW id, NEW req
    PROVE  \E seq : ListedRun(seq, n, list, id, req)
<1> DEFINE All == Matched(P, id, req.host, req.port)
           Step(prev, i) == prev \o Hits(list[i], id, req)
           Body(f) == [i \in 0 .. n |-> IF i = 0 THEN <<>> ELSE Step(f[i - 1], i)]
           step == [i \in 1 .. n |-> [prev \in Seq(All) |-> Step(prev, i)]]
           sol == CHOOSE f : f = Body(f)
<1>1. Listed(list, id, req) = sol[n]
    <2>1. Len(list) = n
        OBVIOUS
    <2> QED
        BY <2>1 DEF Listed
<1>2. ASSUME NEW i \in 1 .. n
      PROVE  Hits(list[i], id, req) \in Seq(All)
    <2> DEFINE G == Matched({list[i]}, id, req.host, req.port)
    <2>1. list[i] \in P /\ list[i].dests \in Seq(Range(list[i].dests))
        BY DEF Listable
    <2>2. G \subseteq All
        BY <2>1, MatchedIsUnion
    <2>3. Hits(list[i], id, req) \in Seq(G)
        BY <2>1, HitsAre DEF Lists
    <2> HIDE DEF G, All
    <2> QED
        BY <2>2, <2>3
<1> DEFINE V == Seq(All)
           none == <<>>
<1> HIDE DEF All
<1>3. \A i \in 1 .. n, prev \in V : Step(prev, i) \in V
    BY <1>2
<1> HIDE DEF Step
<1>4. /\ step \in Loops(V, n) /\ none \in V
      /\ \A i \in 1 .. n, prev \in V : step[i][prev] = Step(prev, i)
    BY <1>3 DEF Loops
<1> HIDE DEF step, V, none
<1>5. PICK f : IsRun(f, V, none, n, step)
    BY <1>4, Iterates
<1>6. f = Body(f)
    <2>1. \A i \in 1 .. n : f[i - 1] \in V
        BY <1>5 DEF IsRun
    <2>2. \A i \in 0 .. n : f[i] = IF i = 0 THEN <<>> ELSE Step(f[i - 1], i)
        BY <1>4, <1>5, <2>1 DEF none, IsRun
    <2>3. f = [i \in 0 .. n |-> f[i]]
        BY <1>5 DEF IsRun
    <2> QED
        BY <2>2, <2>3
<1> HIDE DEF Body
<1>7. sol = Body(sol)
    BY <1>6
<1> HIDE DEF sol
<1>8. /\ sol[0] = <<>>
      /\ \A i \in 1 .. n : sol[i] = Step(sol[i - 1], i)
    BY <1>7 DEF Body
<1> QED
    BY <1>1, <1>8 DEF Step, ListedRun

\* Grants that P matches, and among them all that the listed policies match.
ListsAll(l, P, n, list, id, req) ==
    /\ l \in Seq(Matched(P, id, req.host, req.port)) /\ InOrder(l)
    /\ \A k \in 1 .. n : \A g \in Matched({list[k]}, id, req.host, req.port) :
           \E a \in DOMAIN l : l[a] = g

\* After n policies, the list has what these match.
LEMMA ListedAre ==
    ASSUME NEW P, Listable(P), NEW n \in Nat, NEW list \in [1 .. n -> P],
           \A i \in 1 .. n : \A j \in 1 .. n : i # j => list[i] # list[j], NEW id, NEW req
    PROVE  ListsAll(Listed(list, id, req), P, n, list, id, req)
<1> DEFINE All == Matched(P, id, req.host, req.port)
           G(k) == Matched({list[k]}, id, req.host, req.port)
           H(k) == Hits(list[k], id, req)
<1>a. PICK seq : ListedRun(seq, n, list, id, req)
    BY ListedRecursion
<1>1.            /\ seq[0] = <<>>
                 /\ \A i \in 1 .. n : seq[i] = seq[i - 1] \o H(i)
                 /\ Listed(list, id, req) = seq[n]
    BY <1>a DEF ListedRun
<1>2. ASSUME NEW k \in 1 .. n
      PROVE  /\ H(k) \in Seq(G(k)) /\ InOrder(H(k)) /\ \A g \in G(k) : \E a \in DOMAIN H(k) : H(k)[a] = g
             /\ G(k) \subseteq All
             /\ \A g \in G(k) : g.policy = list[k].name
    <2>1. list[k] \in P /\ list[k].dests \in Seq(Range(list[k].dests))
        BY DEF Listable
    <2>2. G(k) \subseteq All
        BY <2>1, MatchedIsUnion
    <2>3. H(k) \in Seq(G(k)) /\ InOrder(H(k)) /\ \A g \in G(k) : \E a \in DOMAIN H(k) : H(k)[a] = g
        <3>1. Lists(H(k), G(k))
            BY <2>1, HitsAre
        <3> QED
            BY <3>1, Zenon DEF Lists
    <2>4. \A g \in G(k) : g.policy = list[k].name
        BY MatchedOne
    <2> QED
        BY <2>2, <2>3, <2>4
<1>3. \A i \in 1 .. n : \A j \in 1 .. n : i # j => list[i].name # list[j].name
    BY DEF Listable
<1> HIDE DEF All, G, H
<1> DEFINE Good(s, i) == /\ s \in Seq(All) /\ InOrder(s)
                         /\ \A a \in DOMAIN s : \E k \in 1 .. i : s[a].policy = list[k].name
                         /\ \A k \in 1 .. i : \A g \in G(k) : \E a \in DOMAIN s : s[a] = g
           S == {i \in 0 .. n : Good(seq[i], i)}
<1>4. 0 \in S
    <2>1. seq[0] \in Seq(All) /\ DOMAIN seq[0] = {} /\ 1 .. 0 = {}
        BY <1>1
    <2> QED
        BY <2>1 DEF InOrder
<1>5. ASSUME NEW i \in 0 .. n - 1, i \in S
      PROVE  i + 1 \in S
    <2> DEFINE s == seq[i]
               h == H(i + 1)
               r == s \o h
               x == Len(s)
               y == Len(h)
    <2>0. i \in Nat /\ i + 1 \in 1 .. n /\ (i + 1) - 1 = i /\ i + 1 \in 0 .. n
        OBVIOUS
    <2>1. Good(s, i)
        BY <1>5
    <2>2. seq[i + 1] = r
        BY <1>1, <2>0
    <2>3. h \in Seq(All) /\ InOrder(h) /\ \A a \in DOMAIN h : h[a] \in G(i + 1)
        <3>1. h \in Seq(G(i + 1)) /\ InOrder(h) /\ G(i + 1) \subseteq All
            BY <1>2, <2>0
        <3> HIDE DEF h
        <3> QED
            BY <3>1
    <2> HIDE DEF s, h
    <2>4. /\ x \in Nat /\ y \in Nat /\ DOMAIN s = 1 .. x /\ DOMAIN h = 1 .. y
          /\ r \in Seq(All) /\ DOMAIN r = 1 .. x + y
          /\ \A a \in 1 .. x : r[a] = s[a]
          /\ \A a \in 1 .. y : r[x + a] = h[a]
        BY <2>1, <2>3
    <2> HIDE DEF r, x, y
    <2>5. \A a \in 1 .. x + y : a \in 1 .. x \/ (a - x \in 1 .. y /\ a = x + (a - x) /\ a > x)
        BY <2>4
    <2>6. \A a \in 1 .. x : \E k \in 1 .. i : r[a].policy = list[k].name
        <3>1. \A a \in 1 .. x : \E k \in 1 .. i : s[a].policy = list[k].name
            BY <2>1, <2>4
        <3> QED
            BY <2>4, <3>1
    <2>7. \A a \in 1 .. y : r[x + a].policy = list[i + 1].name
        <3>1. \A g \in G(i + 1) : g.policy = list[i + 1].name
            BY <1>2, <2>0
        <3> QED
            BY <2>3, <2>4, <3>1
    <2>8. \A k \in 1 .. i : list[k].name # list[i + 1].name
        BY <1>3, <2>0
    <2>9. InOrder(r)
        <3> SUFFICES ASSUME NEW a \in 1 .. x + y, NEW b \in 1 .. x + y, a < b,
                            r[a].policy = r[b].policy
                     PROVE  r[a].idx < r[b].idx
            BY <2>4 DEF InOrder
        <3>1. CASE a \in 1 .. x /\ b \in 1 .. x
            BY <2>1, <2>4, <3>1 DEF InOrder
        <3>2. CASE a \in 1 .. x /\ b - x \in 1 .. y /\ b = x + (b - x)
            <4>1. PICK k \in 1 .. i : r[a].policy = list[k].name
                BY <2>6, <3>2
            <4>2. r[x + (b - x)].policy = list[i + 1].name
                BY <2>7, <3>2
            <4> QED
                BY <2>8, <3>2, <4>1, <4>2
        <3>3. CASE a - x \in 1 .. y /\ b - x \in 1 .. y /\ a = x + (a - x) /\ b = x + (b - x)
            <4> DEFINE c == a - x
                       d == b - x
            <4>1. c \in 1 .. y /\ d \in 1 .. y /\ a = x + c /\ b = x + d
                BY <3>3
            <4>2. c < d
                BY <2>4
            <4> HIDE DEF c, d
            <4>3. r[a] = h[c] /\ r[b] = h[d] /\ c \in DOMAIN h /\ d \in DOMAIN h
                BY <2>4, <4>1
            <4> QED
                BY <2>3, <4>2, <4>3 DEF InOrder
        <3> QED
            <4>1. a \in 1 .. x \/ (a - x \in 1 .. y /\ a = x + (a - x) /\ a > x)
                BY <2>5
            <4>2. b \in 1 .. x \/ (b - x \in 1 .. y /\ b = x + (b - x) /\ b > x)
                BY <2>5
            <4>3. ~(a > x /\ b \in 1 .. x)
                BY <2>4
            <4> QED
                BY <3>1, <3>2, <3>3, <4>1, <4>2, <4>3
    <2>10. ASSUME NEW a \in 1 .. x + y
           PROVE  \E k \in 1 .. i + 1 : r[a].policy = list[k].name
        <3>1. 1 .. i \subseteq 1 .. i + 1 /\ i + 1 \in 1 .. i + 1
            BY <2>0
        <3> QED
            BY <2>5, <2>6, <2>7, <3>1
    <2>11. ASSUME NEW k \in 1 .. i + 1, NEW g \in G(k)
           PROVE  \E a \in 1 .. x + y : r[a] = g
        <3>1. CASE k \in 1 .. i
            <4>1. PICK a \in 1 .. x : s[a] = g
                BY <2>1, <2>4, <3>1
            <4> QED
                BY <2>4, <4>1
        <3>2. CASE k = i + 1
            <4>1. PICK a \in 1 .. y : h[a] = g
                BY <1>2, <2>0, <2>4, <3>2 DEF h
            <4>2. x + a \in 1 .. x + y /\ r[x + a] = g
                BY <2>4, <4>1
            <4> QED
                BY <4>2
        <3> QED
            BY <2>0, <3>1, <3>2
    <2>12. Good(r, i + 1)
        BY <2>4, <2>9, <2>10, <2>11
    <2> HIDE DEF Good
    <2> QED
        BY <2>0, <2>2, <2>12
<1>6. Good(seq[n], n)
    <2>1. \A i \in 0 .. n - 1 : i \in S => i + 1 \in S
        BY <1>5
    <2> HIDE DEF S
    <2>2. \A i \in 0 .. n : i \in S
        BY <1>4, <2>1, UpTo
    <2> QED
        BY <2>2 DEF S
<1> QED
    BY <1>1, <1>6 DEF All, G, ListsAll

\* Element j of seq ends up before element i.
Earlier(seq, j, i) == Less(seq[j], seq[i]) \/ (~Less(seq[i], seq[j]) /\ j < i)

\* Element i and the ones that end up before it.
NotAfter(seq, i) == {j \in DOMAIN seq : j = i \/ Earlier(seq, j, i)}

\* The comparison and the positions together order the elements in a line.
LEMMA EarlierIsTotal ==
    ASSUME NEW seq, \A i \in DOMAIN seq : i \in Nat /\ seq[i].policy \in Nat
    PROVE  /\ \A i \in DOMAIN seq : ~Earlier(seq, i, i)
           /\ \A i, j \in DOMAIN seq : i = j \/ Earlier(seq, i, j) \/ Earlier(seq, j, i)
           /\ \A i, j \in DOMAIN seq : ~(Earlier(seq, i, j) /\ Earlier(seq, j, i))
           /\ \A i, j, k \in DOMAIN seq :
                  Earlier(seq, i, j) /\ Earlier(seq, j, k) => Earlier(seq, i, k)
<1> DEFINE R(i) == hostSpecificity(seq[i].dst.host)
           P(i) == seq[i].policy
<1>1. \A i \in DOMAIN seq : R(i) \in 0 .. 3 /\ P(i) \in Nat /\ i \in Nat
    BY Ranks
<1>2. \A i, j \in DOMAIN seq :
          Earlier(seq, i, j) <=>
              \/ R(i) > R(j) \/ (R(i) = R(j) /\ P(i) < P(j))
              \/ ~(R(j) > R(i) \/ (R(j) = R(i) /\ P(j) < P(i))) /\ i < j
    BY DEF Earlier, Less
<1> HIDE DEF R, P
<1>3. \A i, j \in DOMAIN seq :
          Earlier(seq, i, j) <=>
              R(i) > R(j) \/ (R(i) = R(j) /\ (P(i) < P(j) \/ (P(i) = P(j) /\ i < j)))
    BY <1>1, <1>2
<1> QED
    BY <1>1, <1>3

\* Every element has a place of its own.
LEMMA PlacesAreDistinct ==
    ASSUME NEW n \in Nat, NEW seq, DOMAIN seq = 1 .. n, \A i \in 1 .. n : seq[i].policy \in Nat
    PROVE  /\ \A i \in 1 .. n : Place(seq, i) \in 1 .. n
           /\ \A i, j \in 1 .. n : Earlier(seq, i, j) => Place(seq, i) < Place(seq, j)
<1>1. \A i \in 1 .. n : Place(seq, i) = Cardinality(NotAfter(seq, i))
    BY DEF Place, NotAfter, Earlier
<1>2. IsFiniteSet(1 .. n) /\ Cardinality(1 .. n) = n
    BY FS_Interval
<1>a. \A i \in DOMAIN seq : i \in Nat /\ seq[i].policy \in Nat
    OBVIOUS
<1>3. ASSUME NEW i \in 1 .. n
      PROVE  /\ IsFiniteSet(NotAfter(seq, i)) /\ Cardinality(NotAfter(seq, i)) \in 1 .. n
             /\ i \in NotAfter(seq, i)
    <2> DEFINE U == NotAfter(seq, i)
    <2>1. U \in SUBSET (1 .. n) /\ i \in U
        BY DEF NotAfter
    <2> HIDE DEF U
    <2>2. IsFiniteSet(U) /\ Cardinality(U) <= n
        <3> DEFINE D == 1 .. n
        <3>1. IsFiniteSet(D) /\ Cardinality(D) = n /\ U \in SUBSET D
            BY <1>2, <2>1
        <3> HIDE DEF D
        <3> QED
            BY <3>1, FS_Subset
    <2>3. Cardinality(U) \in Nat /\ Cardinality(U) # 0
        BY <2>1, <2>2, FS_CardinalityType, FS_EmptySet
    <2> QED
        BY <2>1, <2>2, <2>3 DEF U
<1>4. ASSUME NEW i \in 1 .. n, NEW j \in 1 .. n, Earlier(seq, i, j)
      PROVE  Cardinality(NotAfter(seq, i)) < Cardinality(NotAfter(seq, j))
    <2>1. NotAfter(seq, i) \in SUBSET NotAfter(seq, j) /\ j \notin NotAfter(seq, i)
        <3>1. \A k \in 1 .. n : Earlier(seq, k, i) => Earlier(seq, k, j)
            BY <1>a, <1>4, EarlierIsTotal, Zenon
        <3>2. ~Earlier(seq, j, i) /\ i # j
            BY <1>a, <1>4, EarlierIsTotal, Zenon
        <3> QED
            BY <1>4, <3>1, <3>2 DEF NotAfter
    <2>2. j \in NotAfter(seq, j)
        BY <1>3
    <2>3. NotAfter(seq, i) # NotAfter(seq, j)
        BY <2>1, <2>2
    <2>4. /\ Cardinality(NotAfter(seq, i)) <= Cardinality(NotAfter(seq, j))
          /\ Cardinality(NotAfter(seq, j)) # Cardinality(NotAfter(seq, i))
        BY <1>3, <2>1, <2>3, FS_Subset
    <2>5. Cardinality(NotAfter(seq, i)) \in Nat /\ Cardinality(NotAfter(seq, j)) \in Nat
        BY <1>3
    <2> QED
        BY <2>4, <2>5
<1> QED
    BY <1>1, <1>3, <1>4

\* sort.SliceStable keeps the elements, and orders them by the comparison and
\* then by where they stood.
LEMMA SortIsStable ==
    ASSUME NEW G, \A g \in G : g.policy \in Nat, NEW seq \in Seq(G), InOrder(seq)
    PROVE  LET sorted == SliceStable(seq)
           IN  /\ Range(sorted) = Range(seq)
               /\ \A i, j \in DOMAIN sorted : i < j => Before(sorted[i], sorted[j])
<1> DEFINE n == Len(seq)
           sorted == SliceStable(seq)
           place == [i \in 1 .. n |-> Place(seq, i)]
           at(k) == CHOOSE i \in DOMAIN seq : Place(seq, i) = k
<1>0. n \in Nat /\ DOMAIN seq = 1 .. n /\ \A i \in 1 .. n : seq[i] \in G /\ seq[i].policy \in Nat
    OBVIOUS
<1> HIDE DEF n
<1>1. /\ \A i \in 1 .. n : Place(seq, i) \in 1 .. n
      /\ \A i, j \in 1 .. n : Earlier(seq, i, j) => Place(seq, i) < Place(seq, j)
    BY <1>0, PlacesAreDistinct
<1>2. \A i, j \in 1 .. n : i = j \/ Earlier(seq, i, j) \/ Earlier(seq, j, i)
    <2>1. \A i \in DOMAIN seq : i \in Nat /\ seq[i].policy \in Nat
        BY <1>0
    <2> QED
        BY <1>0, <2>1, EarlierIsTotal, Zenon
<1>3. \A i, j \in 1 .. n : Place(seq, i) = Place(seq, j) => i = j
    BY <1>0, <1>1, <1>2
<1>4. ASSUME NEW k \in 1 .. n
      PROVE  \E i \in 1 .. n : Place(seq, i) = k
    <2>1. place \in Injection(1 .. n, 1 .. n)
        BY <1>1, <1>3 DEF Injection, IsInjective
    <2>2. IsFiniteSet(1 .. n)
        BY <1>0, FS_Interval
    <2> HIDE DEF place
    <2>3. place \in Surjection(1 .. n, 1 .. n)
        BY <2>1, <2>2, FS_Injection
    <2>4. \E i \in 1 .. n : place[i] = k
        BY <2>3 DEF Surjection
    <2> QED
        BY <2>4 DEF place
<1>5. \A k \in 1 .. n : at(k) \in 1 .. n /\ Place(seq, at(k)) = k
    BY <1>0, <1>4
<1>6. sorted = [k \in 1 .. n |-> seq[at(k)]]
    BY <1>0 DEF SliceStable
<1> HIDE DEF at, sorted
<1>7. Range(sorted) = Range(seq)
    <2>1. \A i \in 1 .. n : Place(seq, i) \in 1 .. n /\ at(Place(seq, i)) = i
        BY <1>1, <1>3, <1>5
    <2>2. \A k \in 1 .. n : sorted[k] = seq[at(k)]
        BY <1>6
    <2>3. DOMAIN sorted = 1 .. n /\ DOMAIN seq = 1 .. n
        BY <1>0, <1>6
    <2>4. \A g : g \in Range(sorted) <=> \E k \in 1 .. n : g = seq[at(k)]
        BY <2>2, <2>3 DEF Range
    <2>5. \A g : g \in Range(seq) <=> \E i \in 1 .. n : g = seq[i]
        BY <2>3 DEF Range
    <2> QED
        BY <1>5, <2>1, <2>4, <2>5
<1>8. ASSUME NEW i \in 1 .. n, NEW j \in 1 .. n, i < j
      PROVE  Before(seq[at(i)], seq[at(j)])
    <2> DEFINE a == at(i)
               b == at(j)
    <2>1. a \in 1 .. n /\ b \in 1 .. n /\ Place(seq, a) = i /\ Place(seq, b) = j
        BY <1>5
    <2> HIDE DEF a, b
    <2>2. Earlier(seq, a, b)
        BY <1>1, <1>2, <1>8, <2>1
    <2>3. CASE Less(seq[a], seq[b])
        BY <2>3 DEF Before, a, b
    <2>4. CASE ~Less(seq[a], seq[b])
        <3>1. ~Less(seq[b], seq[a]) /\ a < b
            BY <2>2, <2>4 DEF Earlier
        <3>2. seq[a].policy = seq[b].policy
            <4>1. /\ hostSpecificity(seq[a].dst.host) \in 0 .. 3
                  /\ hostSpecificity(seq[b].dst.host) \in 0 .. 3
                BY Ranks
            <4> QED
                BY <1>0, <2>1, <2>4, <3>1, <4>1 DEF Less
        <3>3. seq[a].idx < seq[b].idx
            BY <1>0, <2>1, <3>1, <3>2 DEF InOrder
        <3> QED
            BY <3>1, <3>3 DEF Before, a, b
    <2> QED
        BY <2>3, <2>4
<1> QED
    BY <1>6, <1>7, <1>8 DEF sorted

\* There are only ever finitely many objects.
LEMMA FinitelyMany == Spec => []IsFiniteSet(policies)
<1>1. Init => IsFiniteSet(policies)
    BY FS_EmptySet DEF Init
<1>2. IsFiniteSet(policies) /\ [Next]_policies => IsFiniteSet(policies)'
    BY FS_AddElement, FS_RemoveElement DEF Next, Create, Delete
<1> QED
    BY <1>1, <1>2, PTL DEF Spec

\* Whatever order the cache of a replica lists the policies in, the decision
\* holds the matched grants in one and the same order.
THEOREM ReplicasAgree == Spec => []StableAcrossReplicas
<1>1. policies \subseteq Pool /\ IsFiniteSet(policies) => StableAcrossReplicas
    <2> SUFFICES ASSUME policies \subseteq Pool, IsFiniteSet(policies),
                        NEW id \in Identities, NEW req \in Requests,
                        NEW list \in SetToSeqs({pol \in policies : Selects(pol, id)})
                 PROVE  LET sorted == SliceStable(Listed(list, id, req))
                        IN  /\ Range(sorted) = Matched(policies, id, req.host, req.port)
                            /\ \A i, j \in DOMAIN sorted : i < j => Before(sorted[i], sorted[j])
        BY Zenon DEF StableAcrossReplicas
    <2> DEFINE P == {pol \in policies : Selects(pol, id)}
               n == Cardinality(P)
               M(Q) == Matched(Q, id, req.host, req.port)
               l == Listed(list, id, req)
               sorted == SliceStable(l)
    <2>1. IsFiniteSet(P)
        <3>1. P \in SUBSET policies
            OBVIOUS
        <3> HIDE DEF P
        <3> QED
            BY <3>1, FS_Subset
    <2>2. Listable(P)
        BY PoolAssumption DEF Listable, UniqueNames
    <2>3. /\ list \in [1 .. n -> P]
          /\ \A i \in 1 .. n : \A j \in 1 .. n : i # j => list[i] # list[j]
        BY DEF SetToSeqs
    <2>4. \A g : g \in M(policies) <=> \E pol \in P : g \in M({pol})
        <3>1. \A g : g \in M(policies) <=> \E pol \in policies : g \in M({pol})
            BY MatchedIsUnion
        <3>2. \A pol : \A g \in M({pol}) : Selects(pol, id)
            BY MatchedOne
        <3> HIDE DEF M
        <3> QED
            BY <3>1, <3>2
    <2>5. \A g : g \in M(P) <=> \E pol \in P : g \in M({pol})
        <3> HIDE DEF P
        <3> QED
            BY MatchedIsUnion
    <2> HIDE DEF P
    <2>6. n \in Nat
        BY <2>1, FS_CardinalityType
    <2> HIDE DEF n, M
    <2>7. \A pol \in P : \E k \in 1 .. n : list[k] = pol
        <3>1. list \in Injection(1 .. n, P)
            BY <2>3 DEF Injection, IsInjective
        <3>2. Cardinality(1 .. n) = Cardinality(P)
            BY <2>6, FS_Interval DEF n
        <3>3. list \in Surjection(1 .. n, P)
            BY <2>1, <3>1, <3>2, FS_Injection
        <3> QED
            BY <3>3 DEF Surjection
    <2>8. Lists(l, M(P))
        <3>1. ListsAll(l, P, n, list, id, req)
            BY <2>2, <2>3, <2>6, ListedAre
        <3>2. /\ l \in Seq(M(P)) /\ InOrder(l)
              /\ \A k \in 1 .. n : \A g \in M({list[k]}) : \E a \in DOMAIN l : l[a] = g
            BY <3>1, Zenon DEF ListsAll, M
        <3>3. ASSUME NEW g \in M(P) PROVE \E a \in DOMAIN l : l[a] = g
            <4>1. PICK pol \in P : g \in M({pol})
                BY <2>5
            <4>2. PICK k \in 1 .. n : list[k] = pol
                BY <2>7
            <4> QED
                BY <3>2, <4>1, <4>2
        <3> QED
            BY <3>2, <3>3 DEF Lists
    <2> HIDE DEF l
    <2>9. \A g \in M(P) : g.policy \in Nat
        <3>1. \A pol \in P : \A g \in M({pol}) : g.policy = pol.name
            BY MatchedOne DEF M
        <3> QED
            BY <2>2, <2>5, <3>1 DEF Listable
    <2>10. /\ Range(sorted) = Range(l)
           /\ \A i, j \in DOMAIN sorted : i < j => Before(sorted[i], sorted[j])
        BY <2>8, <2>9, SortIsStable DEF Lists
    <2>11. Range(l) = M(policies)
        <3>1. \A g : g \in Range(l) <=> \E a \in DOMAIN l : l[a] = g
            BY DEF Range
        <3>2. \A a \in DOMAIN l : l[a] \in M(P)
            BY <2>8 DEF Lists
        <3>3. \A g \in M(P) : \E a \in DOMAIN l : l[a] = g
            BY <2>8 DEF Lists
        <3> QED
            BY <2>4, <2>5, <3>1, <3>2, <3>3
    <2> QED
        BY <2>10, <2>11 DEF M, l
<1> QED
    BY <1>1, WithinPool, FinitelyMany, PTL

-----------------------------------------------------------------------------
(* Path normalization, for every request target.  SegmentsAssumption only says
   that segments are made of characters. *)

\* A segment, as the loop sees it and as it was written.
SegText == Seq(STRING)
WrittenSeg == Seq(Written)

\* The recursion of the loop has a solution.
LEMMA NormalizedIs ==
    ASSUME NEW t \in Seq(SegText)
    PROVE  LET N == Normalized(t)
           IN  /\ N[0] = Start
               /\ \A i \in 1 .. Len(t) : N[i] = NormalizeStep(N[i - 1], t[i])
<1> DEFINE Body(f, n) == [i \in 0 .. n |-> IF i = 0 THEN Start
                                             ELSE NormalizeStep(f[i - 1], t[i])]
           S == {n \in 0 .. Len(t) : \E f : f = Body(f, n)}
<1>0. Len(t) \in Nat
    OBVIOUS
<1>1. 0 \in S
    <2> DEFINE g == [i \in 0 .. 0 |-> Start]
    <2>1. g = Body(g, 0)
        OBVIOUS
    <2> HIDE DEF g, Body
    <2>2. \E f : f = Body(f, 0)
        BY <2>1
    <2> QED
        BY <1>0, <2>2
<1>2. ASSUME NEW n \in 0 .. Len(t) - 1, n \in S
      PROVE  n + 1 \in S
    <2>1. PICK f : f = Body(f, n)
        BY <1>2
    <2> DEFINE g == [i \in 0 .. n + 1 |-> IF i = n + 1 THEN NormalizeStep(f[n], t[n + 1]) ELSE f[i]]
    <2>2. \A i \in 0 .. n : f[i] = IF i = 0 THEN Start ELSE NormalizeStep(f[i - 1], t[i])
        BY <2>1
    <2>3. \A i \in 0 .. n + 1 : g[i] = IF i = 0 THEN Start ELSE NormalizeStep(g[i - 1], t[i])
        BY <2>2
    <2>4. g = Body(g, n + 1)
        <3> HIDE DEF g
        <3>1. g = [i \in 0 .. n + 1 |-> g[i]]
            BY DEF g
        <3> QED
            BY <2>3, <3>1
    <2> HIDE DEF g
    <2> QED
        BY <2>4
<1>3. \E f : f = Body(f, Len(t))
    <2>1. Len(t) \in S
        <3>1. \A n \in 0 .. Len(t) - 1 : n \in S => n + 1 \in S
            BY <1>2
        <3> HIDE DEF S
        <3>2. \A n \in 0 .. Len(t) : n \in S
            BY <1>0, <1>1, <3>1, UpTo
        <3> QED
            BY <1>0, <3>2
    <2> QED
        BY <2>1
<1>4. Normalized(t) = CHOOSE f : f = Body(f, Len(t))
    BY DEF Normalized
<1> HIDE DEF Body
<1>5. Normalized(t) = Body(Normalized(t), Len(t))
    BY <1>3, <1>4
<1> QED
    BY <1>5 DEF Body

-----------------------------------------------------------------------------
\* What the loop holds between two segments.
Outs == [ok : BOOLEAN, segs : Seq(Seq(STRING)), slash : {FALSE}]

\* The four cases of a step on a path that is not refused yet.
LEMMA StepIs ==
    ASSUME NEW out \in Outs, NEW raw \in SegText
    PROVE  LET next == NormalizeStep(out, raw)
           IN  /\ next \in Outs
               /\ ~out.ok => next = out
               /\ out.ok /\ raw \in {<<>>, Dot} => next = out
               /\ out.ok /\ raw = DotDot =>
                      /\ next.ok <=> out.segs # <<>>
                      /\ next.ok => next.segs = SubSeq(out.segs, 1, Len(out.segs) - 1)
               /\ out.ok /\ IsName(raw) => next.ok /\ next.segs = Append(out.segs, raw)
<1> DEFINE next == NormalizeStep(out, raw)
<1>1. DotDot # Dot /\ DotDot # <<>>
    BY DEF DotDot, Dot
<1>2. CASE ~out.ok \/ raw \in {<<>>, Dot}
    <2>1. next = out
        BY <1>2 DEF NormalizeStep
    <2> QED
        BY <1>1, <1>2, <2>1 DEF IsName
<1>3. CASE out.ok /\ raw = DotDot /\ out.segs = <<>>
    <2>1. next = Refused
        BY <1>1, <1>3 DEF NormalizeStep
    <2> QED
        BY <1>1, <1>3, <2>1 DEF IsName, Refused, Outs
<1>4. CASE out.ok /\ raw = DotDot /\ out.segs # <<>>
    <2>1. next = [out EXCEPT !.segs = SubSeq(out.segs, 1, Len(out.segs) - 1)]
        BY <1>1, <1>4 DEF NormalizeStep, Front
    <2>2. SubSeq(out.segs, 1, Len(out.segs) - 1) \in Seq(Seq(STRING))
        BY DEF Outs
    <2> QED
        BY <1>1, <1>4, <2>1, <2>2 DEF IsName, Outs
<1>5. CASE out.ok /\ IsName(raw)
    <2>1. next = [out EXCEPT !.segs = Append(out.segs, raw)]
        BY <1>5 DEF NormalizeStep, IsName
    <2>2. raw \in Seq(STRING) /\ out.segs \in Seq(Seq(STRING))
        BY DEF SegText, Outs
    <2>3. Append(out.segs, raw) \in Seq(Seq(STRING))
        BY <2>2
    <2>4. next \in Outs /\ next.ok /\ next.segs = Append(out.segs, raw)
        BY <1>5, <2>1, <2>3 DEF Outs
    <2> QED
        BY <1>5, <2>4, Zenon DEF IsName
<1>6. \/ ~out.ok \/ raw \in {<<>>, Dot}
      \/ out.ok /\ raw = DotDot /\ out.segs = <<>>
      \/ out.ok /\ raw = DotDot /\ out.segs # <<>>
      \/ out.ok /\ IsName(raw)
    BY Zenon DEF IsName
<1> QED
    BY <1>2, <1>3, <1>4, <1>5, <1>6, Zenon

\* Only names: no empty, "." or ".." segment.
Names(segs) == \A k \in DOMAIN segs : segs[k] \notin {<<>>, Dot, DotDot}

\* Whatever the loop keeps is a name.
LEMMA LoopKeepsNames ==
    ASSUME NEW t \in Seq(SegText)
    PROVE  \A i \in 0 .. Len(t) : /\ Normalized(t)[i] \in Outs
                                  /\ Normalized(t)[i].ok => Names(Normalized(t)[i].segs)
<1> DEFINE N == Normalized(t)
           Good(out) == out \in Outs /\ (out.ok => Names(out.segs))
           S == {i \in 0 .. Len(t) : Good(N[i])}
<1>0. Len(t) \in Nat
    OBVIOUS
<1>1. 0 \in S
    <2>1. Good(Start)
        BY DEF Start, Outs, Names
    <2> HIDE DEF Good
    <2> QED
        BY <1>0, <2>1, NormalizedIs
<1>2. ASSUME NEW i \in 0 .. Len(t) - 1, i \in S
      PROVE  i + 1 \in S
    <2> DEFINE out == N[i]
               raw == t[i + 1]
               next == N[i + 1]
    <2>0. i + 1 \in 1 .. Len(t) /\ (i + 1) - 1 = i
        BY <1>0
    <2>1. next = NormalizeStep(out, raw)
        BY <2>0, NormalizedIs
    <2>2. out \in Outs /\ (out.ok => Names(out.segs)) /\ raw \in SegText
        BY <1>0, <1>2
    <2> HIDE DEF N
    <2> HIDE DEF out, raw, next
    <2>3. /\ next \in Outs
          /\ \/ next = out
             \/ next.ok = FALSE
             \/ out.ok /\ next.segs = SubSeq(out.segs, 1, Len(out.segs) - 1)
             \/ out.ok /\ IsName(raw) /\ next.segs = Append(out.segs, raw)
        BY <2>1, <2>2, StepIs DEF IsName, Outs
    <2>4. out.segs \in Seq(Seq(STRING))
        BY <2>2 DEF Outs
    <2>5. ASSUME out.ok, next.segs = SubSeq(out.segs, 1, Len(out.segs) - 1)
          PROVE  Names(next.segs)
        <3> DEFINE segs == out.segs
        <3>1. segs \in Seq(Seq(STRING)) /\ next.segs = SubSeq(segs, 1, Len(segs) - 1)
            BY <2>4, <2>5
        <3> HIDE DEF segs
        <3>2. \A k \in DOMAIN next.segs : k \in DOMAIN segs /\ next.segs[k] = segs[k]
            BY <3>1
        <3>3. Names(segs)
            BY <2>2, <2>5 DEF segs
        <3> QED
            BY <3>2, <3>3 DEF Names
    <2>6. ASSUME out.ok, IsName(raw), next.segs = Append(out.segs, raw)
          PROVE  Names(next.segs)
        <3> DEFINE segs == out.segs
                   name == raw
        <3>1. segs \in Seq(Seq(STRING)) /\ next.segs = Append(segs, name)
            BY <2>4, <2>6
        <3>2. Names(segs) /\ name \notin {<<>>, Dot, DotDot}
            BY <2>2, <2>6 DEF IsName
        <3> HIDE DEF segs, name
        <3>3. \A k \in DOMAIN next.segs :
                  \/ k \in DOMAIN segs /\ next.segs[k] = segs[k]
                  \/ next.segs[k] = name
            BY <3>1
        <3> QED
            BY <3>2, <3>3 DEF Names
    <2>7. Good(next)
        BY <2>2, <2>3, <2>5, <2>6
    <2> QED
        BY <1>0, <2>0, <2>7 DEF next
<1>3. \A i \in 0 .. Len(t) - 1 : i \in S => i + 1 \in S
    BY <1>2
<1>4. \A i \in 0 .. Len(t) : i \in S
    <2> HIDE DEF S
    <2> QED
        BY <1>0, <1>1, <1>3, UpTo
<1> QED
    BY <1>4

\* Counting on: the next segment adds itself to a count.
LEMMA CountStep ==
    ASSUME NEW m \in Nat \ {0}, NEW n \in Nat, m <= n + 1, NEW S
    PROVE  /\ Cardinality((m .. n) \cap S) \in Nat
           /\ Cardinality((m .. n + 1) \cap S) =
                  Cardinality((m .. n) \cap S) + IF n + 1 \in S THEN 1 ELSE 0
<1> DEFINE C(j) == (m .. j) \cap S
<1>1. IsFiniteSet(C(n))
    <2>1. IsFiniteSet(m .. n)
        BY FS_Interval
    <2>2. C(n) \in SUBSET (m .. n)
        OBVIOUS
    <2> HIDE DEF C
    <2> QED
        BY <2>1, <2>2, FS_Subset
<1>2. Cardinality(C(n)) \in Nat
    <2> HIDE DEF C
    <2> QED
        BY <1>1, FS_CardinalityType
<1>3. CASE n + 1 \in S
    <2>1. C(n + 1) = C(n) \cup {n + 1} /\ n + 1 \notin C(n)
        BY <1>3
    <2>2. Cardinality(C(n + 1)) = Cardinality(C(n)) + 1
        <3> HIDE DEF C
        <3> QED
            BY <1>1, <1>2, <2>1, FS_AddElement
    <2> QED
        BY <1>2, <1>3, <2>2
<1>4. CASE n + 1 \notin S
    <2>1. C(n + 1) = C(n)
        BY <1>4
    <2> QED
        BY <1>1, <1>2, <1>4, <2>1
<1> QED
    BY <1>3, <1>4

\* What one more segment does to the depth of a stretch.
LEMMA DepthStep ==
    ASSUME NEW t \in Seq(SegText), NEW n \in 0 .. Len(t) - 1, NEW m \in 1 .. n + 1
    PROVE  LET raw == t[n + 1]
           IN  /\ Depth(t, m, n) \in Int
               /\ Depth(t, m, n + 1) = Depth(t, m, n) +
                      (IF IsName(raw) THEN 1 ELSE IF raw = DotDot THEN -1 ELSE 0)
<1> DEFINE NameAt == {k \in 1 .. Len(t) : IsName(t[k])}
           UpAt == {k \in 1 .. Len(t) : t[k] = DotDot}
           NameIn(j) == (m .. j) \cap NameAt
           UpIn(j) == (m .. j) \cap UpAt
<1>0. Len(t) \in Nat /\ n \in Nat /\ m \in Nat \ {0} /\ m <= n + 1 /\ n + 1 \in 1 .. Len(t)
    OBVIOUS
<1>1. ASSUME NEW j \in {n, n + 1}
      PROVE  Depth(t, m, j) = Cardinality(NameIn(j)) - Cardinality(UpIn(j))
    <2>1. m .. j \subseteq 1 .. Len(t)
        BY <1>0
    <2>2. /\ {k \in m .. j : IsName(t[k])} = NameIn(j)
          /\ {k \in m .. j : t[k] = DotDot} = UpIn(j)
        BY <2>1
    <2> HIDE DEF NameIn, UpIn
    <2> QED
        BY <2>2 DEF Depth
<1>2. /\ n + 1 \in NameAt <=> IsName(t[n + 1])
      /\ n + 1 \in UpAt <=> t[n + 1] = DotDot
      /\ ~(n + 1 \in NameAt /\ n + 1 \in UpAt)
    BY <1>0 DEF IsName
<1> HIDE DEF NameAt, UpAt
<1>3. /\ Cardinality(NameIn(n)) \in Nat
      /\ Cardinality(NameIn(n + 1)) = Cardinality(NameIn(n)) + IF n + 1 \in NameAt THEN 1 ELSE 0
    BY <1>0, CountStep, Zenon
<1>4. /\ Cardinality(UpIn(n)) \in Nat
      /\ Cardinality(UpIn(n + 1)) = Cardinality(UpIn(n)) + IF n + 1 \in UpAt THEN 1 ELSE 0
    BY <1>0, CountStep, Zenon
<1> HIDE DEF NameIn, UpIn
<1> QED
    BY <1>1, <1>2, <1>3, <1>4

\* Nothing is left of an empty stretch.
LEMMA DepthNone == ASSUME NEW t, NEW m \in Nat PROVE Depth(t, m + 1, m) = 0
<1>1. m + 1 .. m = {}
    OBVIOUS
<1>2. /\ {k \in m + 1 .. m : IsName(t[k])} = {}
      /\ {k \in m + 1 .. m : t[k] = DotDot} = {}
    BY <1>1
<1>3. Depth(t, m + 1, m) = Cardinality({}) - Cardinality({})
    BY <1>2, Zenon DEF Depth
<1>4. Cardinality({}) = 0
    BY FS_EmptySet
<1> QED
    BY <1>3, <1>4

\* How deep the first i segments lead.
Deep(t, i) == Depth(t, 1, i)

\* What the next segment does to the depth.
LEMMA DeepStep ==
    ASSUME NEW t \in Seq(SegText), NEW i \in 0 .. Len(t) - 1
    PROVE  /\ Deep(t, 0) = 0 /\ Deep(t, i) \in Int /\ Deep(t, i + 1) \in Int
           /\ IsName(t[i + 1]) => Deep(t, i + 1) = Deep(t, i) + 1
           /\ t[i + 1] = DotDot => Deep(t, i + 1) = Deep(t, i) - 1
           /\ t[i + 1] \in {<<>>, Dot} => Deep(t, i + 1) = Deep(t, i)
<1>1. 1 \in 1 .. i + 1 /\ DotDot # Dot /\ DotDot # <<>>
    BY DEF DotDot, Dot
<1>2. Deep(t, 0) = 0
    BY DepthNone, 0 \in Nat, 0 + 1 = 1 DEF Deep
<1>3. /\ Deep(t, i) \in Int
      /\ Deep(t, i + 1) = Deep(t, i) +
             (IF IsName(t[i + 1]) THEN 1 ELSE IF t[i + 1] = DotDot THEN -1 ELSE 0)
    BY <1>1, DepthStep DEF Deep
<1>4. /\ t[i + 1] = DotDot => ~IsName(t[i + 1])
      /\ t[i + 1] \in {<<>>, Dot} => ~IsName(t[i + 1]) /\ t[i + 1] # DotDot
    BY <1>1 DEF IsName
<1> QED
    BY <1>2, <1>3, <1>4

\* A stretch is what its end adds to its beginning.
LEMMA DepthSplit ==
    ASSUME NEW t \in Seq(SegText), NEW p \in 1 .. Len(t), NEW j \in p .. Len(t)
    PROVE  Depth(t, p, j) = Deep(t, j) - Deep(t, p - 1)
<1> DEFINE n == Len(t) - p + 1
           S == {i \in 0 .. n : /\ Depth(t, p, p - 1 + i) = Deep(t, p - 1 + i) - Deep(t, p - 1)
                                /\ Deep(t, p - 1 + i) \in Int}
<1>0. Len(t) \in Nat /\ p \in Nat /\ n \in Nat /\ p - 1 \in Nat /\ p - 1 \in 0 .. Len(t) - 1
    OBVIOUS
<1>1. Deep(t, p - 1) \in Int
    BY <1>0, DeepStep
<1>2. 0 \in S
    <2>1. Depth(t, (p - 1) + 1, p - 1) = 0
        BY <1>0, DepthNone
    <2>2. (p - 1) + 1 = p /\ p - 1 + 0 = p - 1 /\ 0 \in 0 .. n
        BY <1>0
    <2>3. Depth(t, p, p - 1) = 0
        BY <2>1, <2>2
    <2> QED
        BY <1>1, <2>2, <2>3
<1>3. ASSUME NEW i \in 0 .. n - 1, i \in S
      PROVE  i + 1 \in S
    <2> DEFINE k == p - 1 + i
    <2>1. k \in 0 .. Len(t) - 1 /\ p \in 1 .. k + 1 /\ 1 \in 1 .. k + 1 /\ p - 1 + (i + 1) = k + 1
        BY <1>0
    <2>2. Depth(t, p, k) = Deep(t, k) - Deep(t, p - 1) /\ Deep(t, k) \in Int
        BY <1>3
    <2> HIDE DEF k
    <2> DEFINE d == IF IsName(t[k + 1]) THEN 1 ELSE IF t[k + 1] = DotDot THEN -1 ELSE 0
    <2>3. Depth(t, p, k + 1) = Depth(t, p, k) + d
        BY <2>1, DepthStep
    <2>4. Deep(t, k + 1) = Deep(t, k) + d
        BY <2>1, DepthStep DEF Deep
    <2>5. d \in Int
        OBVIOUS
    <2> HIDE DEF d
    <2>6. Depth(t, p, k + 1) = Deep(t, k + 1) - Deep(t, p - 1) /\ Deep(t, k + 1) \in Int
        BY <1>1, <2>2, <2>3, <2>4, <2>5
    <2> QED
        BY <1>0, <2>1, <2>6
<1>4. \A i \in 0 .. n : i \in S
    <2>1. \A i \in 0 .. n - 1 : i \in S => i + 1 \in S
        BY <1>3
    <2> HIDE DEF S, n
    <2> QED
        BY <1>0, <1>2, <2>1, UpTo
<1>5. j - p + 1 \in 0 .. n /\ p - 1 + (j - p + 1) = j
    BY <1>0
<1> QED
    BY <1>4, <1>5

\* The names among the first i segments that none of these climbs past.
Kept(t, i) == {p \in 1 .. i : IsName(t[p]) /\ \A j \in p .. i : Deep(t, j) >= Deep(t, p)}

\* At the end of the target these are the reference's survivors.
LEMMA SurvivorsAreKept ==
    ASSUME NEW t \in Seq(SegText)
    PROVE  Survivors(t) = Kept(t, Len(t))
<1>0. Len(t) \in Nat /\ DOMAIN t = 1 .. Len(t)
    OBVIOUS
<1>1. ASSUME NEW p \in 1 .. Len(t), IsName(t[p])
      PROVE  (\A j \in p + 1 .. Len(t) : Depth(t, p, j) > 0)
                 <=> (\A j \in p .. Len(t) : Deep(t, j) >= Deep(t, p))
    <2>1. p - 1 \in 0 .. Len(t) - 1 /\ (p - 1) + 1 = p
        BY <1>0
    <2>2. Deep(t, p) = Deep(t, p - 1) + 1 /\ Deep(t, p - 1) \in Int
        BY <1>1, <2>1, DeepStep
    <2>3. ASSUME NEW j \in p .. Len(t)
          PROVE  Deep(t, j) \in Int /\ Depth(t, p, j) = Deep(t, j) - Deep(t, p - 1)
        <3>1. j - 1 \in 0 .. Len(t) - 1 /\ (j - 1) + 1 = j
            BY <1>0
        <3> QED
            BY <3>1, DeepStep, DepthSplit
    <2>4. p .. Len(t) = {p} \cup (p + 1 .. Len(t))
        BY <1>0
    <2> QED
        BY <1>0, <2>2, <2>3, <2>4
<1> QED
    BY <1>0, <1>1 DEF Survivors, Kept

\* What the loop has made of the first i segments: it refuses a climb above the
\* root, and otherwise the stack is as deep as the segments lead and holds at
\* each level the kept name that reached it.
Agreed(t, i) ==
    LET out == Normalized(t)[i]
    IN  /\ out.ok <=> \A j \in 1 .. i : Deep(t, j) >= 0
        /\ out.ok => /\ Len(out.segs) = Deep(t, i)
                     /\ \A p \in Kept(t, i) : /\ Deep(t, p) \in 1 .. Deep(t, i)
                                              /\ out.segs[Deep(t, p)] = t[p]
                     /\ \A d \in 1 .. Deep(t, i) : \E p \in Kept(t, i) : Deep(t, p) = d

\* A segment that does not lead above what it finds changes what is kept so.
LEMMA KeptStep ==
    ASSUME NEW t \in Seq(SegText), NEW i \in 0 .. Len(t) - 1
    PROVE  Kept(t, i + 1) = {p \in Kept(t, i) : Deep(t, i + 1) >= Deep(t, p)}
                                \cup {p \in {i + 1} : IsName(t[p])}
<1>0. Len(t) \in Nat /\ i \in Nat
    OBVIOUS
<1>1. Deep(t, i + 1) >= Deep(t, i + 1)
    <2>1. Deep(t, i + 1) \in Int
        BY DeepStep
    <2> QED
        BY <2>1
<1>2. ASSUME NEW p \in 1 .. i PROVE p .. i + 1 = (p .. i) \cup {i + 1}
    BY <1>0
<1>3. 1 .. i + 1 = (1 .. i) \cup {i + 1} /\ i + 1 .. i + 1 = {i + 1} /\ i + 1 \notin 1 .. i
    BY <1>0
<1> QED
    BY <1>1, <1>2, <1>3, Zenon DEF Kept

\* The loop preserves the agreement, segment by segment ...
LEMMA AgreedStep ==
    ASSUME NEW t \in Seq(SegText), NEW i \in 0 .. Len(t) - 1, Agreed(t, i)
    PROVE  Agreed(t, i + 1)
<1> DEFINE out == Normalized(t)[i]
           raw == t[i + 1]
           next == Normalized(t)[i + 1]
           d == Deep(t, i)
           e == Deep(t, i + 1)
<1>0. Len(t) \in Nat /\ i \in Nat /\ i + 1 \in 1 .. Len(t) /\ (i + 1) - 1 = i /\ i \in 0 .. Len(t)
      /\ 1 .. i + 1 = (1 .. i) \cup {i + 1}
    OBVIOUS
<1>1. raw \in SegText /\ out \in Outs /\ next = NormalizeStep(out, raw)
    BY <1>0, LoopKeepsNames, NormalizedIs
<1>2. /\ d \in Int /\ e \in Int
      /\ IsName(raw) => e = d + 1
      /\ raw = DotDot => e = d - 1
      /\ raw \in {<<>>, Dot} => e = d
    BY DeepStep
<1>3. /\ out.ok <=> \A j \in 1 .. i : Deep(t, j) >= 0
      /\ out.ok => /\ Len(out.segs) = d
                   /\ \A p \in Kept(t, i) : Deep(t, p) \in 1 .. d /\ out.segs[Deep(t, p)] = t[p]
                   /\ \A k \in 1 .. d : \E p \in Kept(t, i) : Deep(t, p) = k
    BY DEF Agreed
<1>4. Kept(t, i + 1) = {p \in Kept(t, i) : e >= Deep(t, p)} \cup {p \in {i + 1} : IsName(raw)}
    BY KeptStep
<1>5. (\A j \in 1 .. i + 1 : Deep(t, j) >= 0) <=> (\A j \in 1 .. i : Deep(t, j) >= 0) /\ e >= 0
    BY <1>0
<1>6. out.segs \in Seq(Seq(STRING)) /\ Len(out.segs) \in Nat
    <2> HIDE DEF out
    <2>1. out.segs \in Seq(Seq(STRING))
        BY <1>1 DEF Outs
    <2> QED
        BY <2>1
<1>7. DotDot # Dot /\ DotDot # <<>>
    BY DEF DotDot, Dot
<1> DEFINE After == /\ next.ok <=> \A j \in 1 .. i + 1 : Deep(t, j) >= 0
                    /\ next.ok => /\ Len(next.segs) = e
                                  /\ \A p \in Kept(t, i + 1) : /\ Deep(t, p) \in 1 .. e
                                                               /\ next.segs[Deep(t, p)] = t[p]
                                  /\ \A k \in 1 .. e : \E p \in Kept(t, i + 1) : Deep(t, p) = k
<1> SUFFICES After
    BY DEF Agreed
<1>a. CASE ~out.ok
    <2>1. next = out
        BY <1>a, <1>1, StepIs
    <2> QED
        BY <1>a, <1>3, <1>5, <2>1
<1>b. CASE out.ok /\ raw \in {<<>>, Dot}
    <2>1. next = out /\ e = d
        BY <1>b, <1>1, <1>2, StepIs
    <2>2. ~IsName(raw)
        BY <1>b DEF IsName
    <2>3. Kept(t, i + 1) = Kept(t, i)
        <3>1. \A p \in Kept(t, i) : e >= Deep(t, p)
            BY <1>b, <1>2, <1>3, <2>1
        <3> HIDE DEF e
        <3> QED
            BY <1>4, <2>2, <3>1
    <2>4. e >= 0
        BY <1>b, <1>3, <1>6, <2>1
    <2> QED
        BY <1>b, <1>3, <1>5, <2>1, <2>3, <2>4, Zenon
<1>c. CASE out.ok /\ raw = DotDot
    <2>1. /\ next.ok <=> out.segs # <<>>
          /\ next.ok => next.segs = SubSeq(out.segs, 1, Len(out.segs) - 1)
        <3> HIDE DEF out, raw, next
        <3> QED
            BY <1>c, <1>1, StepIs
    <2>2. e = d - 1 /\ d = Len(out.segs) /\ ~IsName(raw)
        BY <1>c, <1>2, <1>3 DEF IsName
    <2>3. out.segs # <<>> <=> e >= 0
        BY <1>6, <2>2
    <2>4. next.ok <=> \A j \in 1 .. i + 1 : Deep(t, j) >= 0
        BY <1>c, <1>3, <1>5, <2>1, <2>3
    <2>5. Kept(t, i + 1) = {p \in Kept(t, i) : e >= Deep(t, p)}
        BY <1>4, <2>2
    <2>6. ASSUME next.ok
          PROVE  /\ Len(next.segs) = e
                 /\ \A k \in 1 .. e : next.segs[k] = out.segs[k]
        <3> DEFINE segs == out.segs
        <3>1. /\ segs \in Seq(Seq(STRING)) /\ next.segs = SubSeq(segs, 1, Len(segs) - 1)
              /\ e = Len(segs) - 1 /\ segs # <<>>
            BY <1>6, <2>1, <2>2, <2>6
        <3> HIDE DEF segs, e, next
        <3>2. Len(next.segs) = e /\ \A k \in 1 .. e : next.segs[k] = segs[k]
            BY <3>1
        <3> QED
            BY <3>2 DEF segs
    <2>7. ASSUME next.ok, NEW p \in Kept(t, i + 1)
          PROVE  Deep(t, p) \in 1 .. e /\ next.segs[Deep(t, p)] = t[p]
        <3>1. Deep(t, p) \in 1 .. d /\ e >= Deep(t, p) /\ out.segs[Deep(t, p)] = t[p]
            BY <1>c, <1>3, <2>5, <2>7
        <3>2. Deep(t, p) \in 1 .. e
            BY <1>2, <3>1
        <3> QED
            BY <2>6, <2>7, <3>1, <3>2
    <2>8. ASSUME next.ok, NEW k \in 1 .. e PROVE \E p \in Kept(t, i + 1) : Deep(t, p) = k
        <3>1. k \in 1 .. d /\ e >= k
            BY <1>2, <2>2
        <3>2. PICK p \in Kept(t, i) : Deep(t, p) = k
            BY <1>c, <1>3, <3>1
        <3> QED
            BY <2>5, <3>1, <3>2
    <2> QED
        BY <2>4, <2>6, <2>7, <2>8
<1>d. CASE out.ok /\ IsName(raw)
    <2>1. next.ok /\ next.segs = Append(out.segs, raw)
        <3> HIDE DEF out, raw, next
        <3> QED
            BY <1>d, <1>1, StepIs
    <2>2. e = d + 1 /\ d = Len(out.segs) /\ d \in Nat
        BY <1>d, <1>2, <1>3, <1>6
    <2>3. next.ok <=> \A j \in 1 .. i + 1 : Deep(t, j) >= 0
        BY <1>d, <1>3, <1>5, <2>1, <2>2
    <2>4. Kept(t, i + 1) = Kept(t, i) \cup {i + 1}
        <3>1. \A p \in Kept(t, i) : e >= Deep(t, p)
            BY <1>d, <1>3, <2>2
        <3> QED
            BY <1>d, <1>4, <3>1
    <2>5. /\ Len(next.segs) = e
          /\ \A k \in 1 .. d : next.segs[k] = out.segs[k]
          /\ next.segs[e] = raw
        <3>1. raw \in Seq(STRING)
            BY <1>1 DEF SegText
        <3> QED
            BY <1>6, <2>1, <2>2, <3>1
    <2>6. ASSUME NEW p \in Kept(t, i + 1)
          PROVE  Deep(t, p) \in 1 .. e /\ next.segs[Deep(t, p)] = t[p]
        <3>1. CASE p = i + 1
            BY <2>2, <2>5, <3>1
        <3>2. CASE p \in Kept(t, i)
            <4>1. Deep(t, p) \in 1 .. d /\ out.segs[Deep(t, p)] = t[p]
                BY <1>d, <1>3, <3>2
            <4> QED
                BY <2>2, <2>5, <4>1
        <3> QED
            BY <2>4, <3>1, <3>2
    <2>7. ASSUME NEW k \in 1 .. e PROVE \E p \in Kept(t, i + 1) : Deep(t, p) = k
        <3>1. k \in 1 .. d \/ k = e
            BY <2>2
        <3> QED
            BY <1>d, <1>3, <2>4, <3>1
    <2> QED
        BY <2>3, <2>5, <2>6, <2>7
<1>8. ~out.ok \/ raw \in {<<>>, Dot} \/ raw = DotDot \/ IsName(raw)
    BY Zenon DEF IsName
<1> QED
    BY <1>8, <1>a, <1>b, <1>c, <1>d, Zenon

\* ... and so has it at the end.
LEMMA LoopAgrees ==
    ASSUME NEW t \in Seq(SegText)
    PROVE  Agreed(t, Len(t))
<1> DEFINE S == {i \in 0 .. Len(t) : Agreed(t, i)}
<1>0. Len(t) \in Nat
    OBVIOUS
<1>1. 0 \in S
    <2>1. Normalized(t)[0].ok /\ Normalized(t)[0].segs = <<>>
        BY NormalizedIs DEF Start
    <2>2. Deep(t, 0) = 0
        BY DepthNone, 0 \in Nat, 0 + 1 = 1 DEF Deep
    <2>3. 1 .. 0 = {} /\ Kept(t, 0) = {} /\ Len(<<>>) = 0
        BY DEF Kept
    <2>4. Agreed(t, 0)
        BY <2>1, <2>2, <2>3 DEF Agreed
    <2> QED
        BY <1>0, <2>4
<1>2. \A i \in 0 .. Len(t) - 1 : i \in S => i + 1 \in S
    BY <1>0, AgreedStep
<1> HIDE DEF S
<1>3. \A i \in 0 .. Len(t) : i \in S
    BY <1>0, <1>1, <1>2, UpTo
<1> QED
    BY <1>0, <1>3 DEF S

\* The members of K that are not after p.
AtMost(K, p) == {q \in K : q <= p}

\* A set of positions that a strictly increasing height maps onto 1 .. n has n
\* members, and a member's rank in it is its height.
LEMMA RankIsHeight ==
    ASSUME NEW K \in SUBSET Nat, NEW n \in Nat, NEW h \in [K -> 1 .. n],
           \A p \in K : \A q \in K : p < q => h[p] < h[q],
           \A d \in 1 .. n : \E p \in K : h[p] = d
    PROVE  /\ Cardinality(K) = n
           /\ \A p \in K : Cardinality(AtMost(K, p)) = h[p]
<1>1. ASSUME NEW m \in 0 .. n
      PROVE  Cardinality({q \in K : h[q] <= m}) = m
    <2> DEFINE B == {q \in K : h[q] <= m}
               f == [d \in 1 .. m |-> CHOOSE p \in K : h[p] = d]
    <2>1. ASSUME NEW d \in 1 .. m
          PROVE  f[d] \in K /\ h[f[d]] = d
        <3>1. \E p \in K : h[p] = d
            OBVIOUS
        <3> QED
            BY <3>1
    <2>2. ASSUME NEW q \in B
          PROVE  h[q] \in 1 .. m /\ f[h[q]] = q
        <3>1. q \in K /\ q \in Nat /\ h[q] \in 1 .. m
            OBVIOUS
        <3> DEFINE r == f[h[q]]
        <3>2. r \in K /\ r \in Nat /\ h[r] = h[q]
            BY <2>1, <3>1
        <3> HIDE DEF r
        <3>3. ~(r < q) /\ ~(q < r)
            BY <3>1, <3>2
        <3>4. r = q
            BY <3>1, <3>2, <3>3
        <3> QED
            BY <3>1, <3>4 DEF r
    <2>3. f \in [1 .. m -> B]
        BY <2>1
    <2> HIDE DEF f, B
    <2>4. f \in Injection(1 .. m, B)
        BY <2>1, <2>3 DEF Injection, IsInjective
    <2>5. f \in Surjection(1 .. m, B)
        BY <2>2, <2>3 DEF Surjection
    <2>6. ExistsBijection(1 .. m, B)
        BY <2>4, <2>5 DEF ExistsBijection, Bijection
    <2> QED
        BY <2>6, FS_CountingElements DEF B
<1>2. {q \in K : h[q] <= n} = K
    <2>1. \A q \in K : h[q] <= n
        OBVIOUS
    <2> QED
        BY <2>1, Zenon
<1>3. ASSUME NEW p \in K
      PROVE  {q \in K : q <= p} = {q \in K : h[q] <= h[p]} /\ h[p] \in 0 .. n
    <2>1. ASSUME NEW q \in K PROVE q <= p <=> h[q] <= h[p]
        <3>1. p \in Nat /\ q \in Nat /\ h[p] \in Nat /\ h[q] \in Nat
            OBVIOUS
        <3>2. q < p \/ q = p \/ p < q
            BY <3>1
        <3> QED
            BY <3>1, <3>2
    <2>2. h[p] \in 0 .. n
        OBVIOUS
    <2> QED
        BY <2>1, <2>2, Zenon
<1>4. Cardinality(K) = n
    <2>1. Cardinality({q \in K : h[q] <= n}) = n
        BY <1>1, n \in 0 .. n
    <2> QED
        BY <1>2, <2>1, Zenon
<1>5. ASSUME NEW p \in K
      PROVE  Cardinality(AtMost(K, p)) = h[p]
    <2>1. Cardinality({q \in K : h[q] <= h[p]}) = h[p]
        BY <1>1, <1>3, Zenon
    <2> QED
        BY <1>3, <2>1, Zenon DEF AtMost
<1> QED
    BY <1>4, <1>5, Zenon

\* So a kept name's rank among the kept is the level of the stack it is at.
LEMMA KeptRanks ==
    ASSUME NEW t \in Seq(SegText), NEW n \in Nat, n = Deep(t, Len(t)),
           \A p \in Kept(t, Len(t)) : Deep(t, p) \in 1 .. n,
           \A d \in 1 .. n : \E p \in Kept(t, Len(t)) : Deep(t, p) = d
    PROVE  /\ Cardinality(Kept(t, Len(t))) = n
           /\ \A p \in Kept(t, Len(t)) : Cardinality({q \in Kept(t, Len(t)) : q <= p}) = Deep(t, p)
<1> DEFINE K == Kept(t, Len(t))
           h == [p \in K |-> Deep(t, p)]
<1>0. Len(t) \in Nat
    OBVIOUS
<1>1. K \in SUBSET Nat
    BY DEF Kept
<1>2. ASSUME NEW p \in K, NEW q \in K, p < q
      PROVE  Deep(t, p) < Deep(t, q)
    <2>1. /\ p \in 1 .. Len(t) /\ q \in 1 .. Len(t)
          /\ \A j \in p .. Len(t) : Deep(t, j) >= Deep(t, p)
          /\ IsName(t[q])
        BY DEF Kept
    <2>2. q - 1 \in 0 .. Len(t) - 1 /\ (q - 1) + 1 = q /\ q - 1 \in p .. Len(t)
        BY <1>0, <1>2, <2>1
    <2>3. Deep(t, q) = Deep(t, q - 1) + 1 /\ Deep(t, q - 1) \in Int
        BY <2>1, <2>2, DeepStep
    <2>4. Deep(t, q - 1) >= Deep(t, p) /\ Deep(t, p) \in Int
        BY <2>1, <2>2
    <2> QED
        BY <2>3, <2>4
<1> HIDE DEF K
<1>3. /\ h \in [K -> 1 .. n]
      /\ \A p \in K : \A q \in K : p < q => h[p] < h[q]
      /\ \A d \in 1 .. n : \E p \in K : h[p] = d
    BY <1>2 DEF K
<1>4. \A p \in K : h[p] = Deep(t, p)
    OBVIOUS
<1> HIDE DEF h
<1>5. Cardinality(K) = n /\ \A p \in K : Cardinality(AtMost(K, p)) = h[p]
    <2> HIDE DEF K, h
    <2> QED
        BY <1>1, <1>3, RankIsHeight
<1> QED
    BY <1>4, <1>5, Zenon DEF K, AtMost

\* What the loop keeps of a sequence of names, and when it refuses it.
LEMMA LoopMeans ==
    ASSUME NEW t \in Seq(SegText)
    PROVE  LET out  == Normalized(t)[Len(t)]
               kept == Survivors(t)
           IN  /\ out \in Outs
               /\ out.ok <=> \A j \in DOMAIN t : Depth(t, 1, j) >= 0
               /\ out.ok => /\ Len(out.segs) = Cardinality(kept)
                            /\ \A i \in kept :
                                   out.segs[Cardinality({j \in kept : j <= i})] = t[i]
<1> DEFINE kept == Kept(t, Len(t))
           L == Normalized(t)[Len(t)]
<1>0. Len(t) \in Nat /\ DOMAIN t = 1 .. Len(t)
    OBVIOUS
<1>1. L \in Outs
    BY <1>0, LoopKeepsNames
<1>2. Agreed(t, Len(t)) /\ Survivors(t) = kept
    BY LoopAgrees, SurvivorsAreKept
<1>3. L.segs \in Seq(Seq(STRING)) /\ Len(L.segs) \in Nat
    <2> HIDE DEF L
    <2>1. L.segs \in Seq(Seq(STRING))
        BY <1>1 DEF Outs
    <2> QED
        BY <2>1
<1> HIDE DEF L, kept
<1>4. /\ L.ok <=> \A j \in 1 .. Len(t) : Depth(t, 1, j) >= 0
      /\ L.ok => /\ Len(L.segs) = Deep(t, Len(t))
                 /\ \A p \in kept : /\ Deep(t, p) \in 1 .. Deep(t, Len(t))
                                    /\ L.segs[Deep(t, p)] = t[p]
                 /\ \A d \in 1 .. Deep(t, Len(t)) : \E p \in kept : Deep(t, p) = d
    BY <1>2 DEF Agreed, Deep, L, kept
<1>5. ASSUME L.ok
      PROVE  /\ Cardinality(kept) = Len(L.segs)
             /\ \A p \in kept : Cardinality({q \in kept : q <= p}) = Deep(t, p)
    <2>1. Deep(t, Len(t)) \in Nat
        BY <1>3, <1>4, <1>5
    <2> QED
        BY <1>4, <1>5, <2>1, KeptRanks DEF kept
<1>6. ASSUME L.ok
      PROVE  /\ Len(L.segs) = Cardinality(kept)
             /\ \A i \in kept : L.segs[Cardinality({j \in kept : j <= i})] = t[i]
    BY <1>4, <1>5, <1>6
<1> QED
    BY <1>0, <1>1, <1>2, <1>4, <1>6 DEF L

\* The leftmost of some places.
Leftmost(found) == CHOOSE j \in found : \A k \in found : j <= k

\* There is one.
LEMMA LeftmostIs ==
    ASSUME NEW found, found \subseteq Nat, found # {}
    PROVE  Leftmost(found) \in found /\ \A k \in found : Leftmost(found) <= k
<1>1. \E j \in found : \A k \in found : j <= k
    BY LeastNumber
<1> QED
    BY <1>1 DEF Leftmost

\* The positions of a text with none of the stops up to them.
Clear(text, stops) == {j \in DOMAIN text : \A k \in 1 .. j : k \notin stops}

\* Until keeps exactly those.
LEMMA UntilIs ==
    ASSUME NEW S, NEW text \in Seq(S), NEW stops \in SUBSET DOMAIN text
    PROVE  /\ Until(text, stops) \in Seq(S)
           /\ DOMAIN Until(text, stops) = Clear(text, stops)
           /\ \A j \in Clear(text, stops) : Until(text, stops)[j] = text[j]
           /\ stops # {} => /\ Len(Until(text, stops)) + 1 \in stops
                            /\ \A j \in stops : Len(Until(text, stops)) + 1 <= j
<1>0. Len(text) \in Nat /\ DOMAIN text = 1 .. Len(text)
    OBVIOUS
<1>1. CASE stops = {}
    <2>1. Until(text, stops) = text /\ Clear(text, stops) = DOMAIN text
        BY <1>1 DEF Until, Clear
    <2> QED
        BY <1>1, <2>1
<1>2. CASE stops # {}
    <2> DEFINE m == CHOOSE i \in stops : \A j \in stops : i <= j
    <2>1. m \in stops /\ \A j \in stops : m <= j
        <3>1. stops \in SUBSET Nat
            BY <1>0
        <3> QED
            BY <1>2, <3>1, LeftmostIs DEF Leftmost
    <2>2. Until(text, stops) = SubSeq(text, 1, m - 1)
        BY <1>2 DEF Until
    <2> HIDE DEF m
    <2>3. m \in 1 .. Len(text)
        BY <1>0, <2>1
    <2>4. Clear(text, stops) = 1 .. m - 1
        BY <1>0, <2>1, <2>3 DEF Clear
    <2>5. /\ SubSeq(text, 1, m - 1) \in Seq(S) /\ Len(SubSeq(text, 1, m - 1)) = m - 1
          /\ DOMAIN SubSeq(text, 1, m - 1) = 1 .. m - 1
          /\ \A j \in 1 .. m - 1 : SubSeq(text, 1, m - 1)[j] = text[j]
        BY <1>0, <2>3
    <2>6. (m - 1) + 1 = m
        BY <2>3
    <2> QED
        BY <2>1, <2>2, <2>4, <2>5, <2>6
<1> QED
    BY <1>1, <1>2

\* PathOf keeps exactly the characters before a query, in their segments.
LEMMA PathIs ==
    ASSUME NEW t \in Seq(WrittenSeg)
    PROVE  LET path == PathOf(t)
           IN  /\ path \in Seq(WrittenSeg)
               /\ DOMAIN path = {i \in DOMAIN t : InPath(t, i, 0)}
               /\ \A i \in DOMAIN path :
                      /\ DOMAIN path[i] = {j \in DOMAIN t[i] : InPath(t, i, j)}
                      /\ \A j \in DOMAIN path[i] : path[i][j] = t[i][j]
<1> DEFINE cut == {i \in DOMAIN t : QueryMarks(t[i]) # {}}
           whole == Until(t, cut)
           path == PathOf(t)
<1>0. Len(t) \in Nat /\ DOMAIN t = 1 .. Len(t)
    OBVIOUS
<1>1. \A i \in DOMAIN t : /\ t[i] \in WrittenSeg /\ QueryMarks(t[i]) \subseteq DOMAIN t[i]
                            /\ DOMAIN t[i] \subseteq Nat
    BY DEF QueryMarks, WrittenSeg
<1>2. CASE cut = {}
    <2>1. path = t
        BY <1>2 DEF PathOf
    <2>2. \A i \in DOMAIN t : \A h \in 1 .. i : QueryMarks(t[h]) = {}
        BY <1>0, <1>2
    <2>3. \A i \in DOMAIN t : 1 .. i - 1 \subseteq 1 .. i /\ i \in 1 .. i
        BY <1>0
    <2>4. \A i \in DOMAIN t : \A j : InPath(t, i, j)
        BY <2>2, <2>3, Zenon DEF InPath
    <2> QED
        BY <2>1, <2>4
<1>3. CASE cut # {}
    <2> DEFINE m == Len(whole) + 1
               last == t[m]
               rest == Until(last, QueryMarks(last))
    <2>1. path = Append(whole, rest)
        BY <1>3 DEF PathOf
    <2>2. /\ whole \in Seq(WrittenSeg) /\ DOMAIN whole = Clear(t, cut)
          /\ \A i \in DOMAIN whole : whole[i] = t[i]
          /\ m \in cut /\ \A i \in cut : m <= i
        <3>1. cut \in SUBSET DOMAIN t
            OBVIOUS
        <3> HIDE DEF cut
        <3> QED
            BY <1>3, <3>1, UntilIs
    <2>3. Len(whole) \in Nat /\ DOMAIN whole = 1 .. m - 1 /\ m \in 1 .. Len(t)
        BY <1>0, <2>2
    <2>4. /\ rest \in WrittenSeg /\ DOMAIN rest = Clear(last, QueryMarks(last))
          /\ \A j \in DOMAIN rest : rest[j] = last[j]
        <3>1. last \in WrittenSeg /\ QueryMarks(last) \in SUBSET DOMAIN last
            BY <1>0, <1>1, <2>3
        <3> HIDE DEF last
        <3> QED
            BY <3>1, UntilIs DEF WrittenSeg
    <2> HIDE DEF whole, rest, path
    <2>5. /\ path \in Seq(WrittenSeg) /\ DOMAIN path = 1 .. m
          /\ \A i \in 1 .. m - 1 : path[i] = t[i]
          /\ path[m] = rest
        <3> HIDE DEF m
        <3>1. m = Len(whole) + 1
            BY DEF m
        <3>2. path \in Seq(WrittenSeg) /\ Len(path) = m
            BY <2>1, <2>2, <2>4, <3>1
        <3>3. \A i \in 1 .. m - 1 : path[i] = whole[i]
            BY <2>1, <2>2, <2>4, <3>1
        <3>4. path[m] = rest
            BY <2>1, <2>2, <2>4, <3>1
        <3>5. DOMAIN path = 1 .. m
            BY <3>2
        <3>6. \A i \in 1 .. m - 1 : whole[i] = t[i]
            BY <2>2, <2>3, Zenon
        <3> QED
            BY <3>2, <3>3, <3>4, <3>5, <3>6, Zenon
    <2>6. \A i \in 1 .. m - 1 : QueryMarks(t[i]) = {}
        BY <1>0, <2>2, <2>3
    <2>7. QueryMarks(last) # {}
        BY <2>2
    <2> HIDE DEF m, cut
    <2>8. \A i \in DOMAIN t : InPath(t, i, 0) <=> i <= m
        <3> SUFFICES ASSUME NEW i \in DOMAIN t PROVE InPath(t, i, 0) <=> i <= m
            OBVIOUS
        <3>1. InPath(t, i, 0) <=> \A h \in 1 .. i - 1 : QueryMarks(t[h]) = {}
            BY DEF InPath
        <3>2. CASE i <= m
            <4>1. 1 .. i - 1 \subseteq 1 .. m - 1
                BY <1>0, <2>3, <3>2
            <4> QED
                BY <2>6, <3>1, <3>2, <4>1, Zenon
        <3>3. CASE ~(i <= m)
            BY <1>0, <2>3, <2>7, <3>1, <3>3
        <3> QED
            BY <3>2, <3>3
    <2>9. DOMAIN path = {i \in DOMAIN t : InPath(t, i, 0)}
        BY <1>0, <2>3, <2>5, <2>8
    <2>10. ASSUME NEW i \in DOMAIN path
           PROVE  /\ DOMAIN path[i] = {j \in DOMAIN t[i] : InPath(t, i, j)}
                  /\ \A j \in DOMAIN path[i] : path[i][j] = t[i][j]
        <3>1. \A h \in 1 .. i - 1 : QueryMarks(t[h]) = {}
            BY <2>3, <2>5, <2>6
        <3>2. {j \in DOMAIN t[i] : InPath(t, i, j)} = Clear(t[i], QueryMarks(t[i]))
            BY <3>1 DEF InPath, Clear
        <3>3. CASE i = m
            BY <2>4, <2>5, <3>2, <3>3
        <3>4. CASE i \in 1 .. m - 1
            <4>1. path[i] = t[i] /\ QueryMarks(t[i]) = {}
                BY <2>5, <2>6, <3>4
            <4> QED
                BY <3>2, <4>1 DEF Clear
        <3> QED
            BY <2>3, <2>5, <3>3, <3>4
    <2> QED
        BY <2>5, <2>9, <2>10 DEF path
<1> QED
    BY <1>2, <1>3

\* A decoded segment is its characters before a ";".
LEMMA SegmentNameIs ==
    ASSUME NEW seg \in WrittenSeg
    PROVE  /\ SegmentName(seg) \in SegText
           /\ SegmentName(seg) =
                  [j \in {j \in DOMAIN seg : \A k \in 1 .. j : seg[k].char # ";"} |-> seg[j].char]
<1> DEFINE text == [j \in DOMAIN seg |-> seg[j].char]
           stops == {j \in DOMAIN text : text[j] = ";"}
           name == Until(text, stops)
<1>0. Len(seg) \in Nat /\ DOMAIN seg = 1 .. Len(seg) /\ \A j \in DOMAIN seg : seg[j] \in Written
    BY DEF WrittenSeg
<1>1. text \in Seq(STRING) /\ DOMAIN text = DOMAIN seg
    BY <1>0 DEF Written
<1>2. /\ name \in Seq(STRING) /\ DOMAIN name = Clear(text, stops)
      /\ \A j \in DOMAIN name : name[j] = text[j]
    <2>1. stops \in SUBSET DOMAIN text
        OBVIOUS
    <2> HIDE DEF text, stops
    <2> QED
        BY <1>1, <2>1, UntilIs
<1>3. Clear(text, stops) = {j \in DOMAIN seg : \A k \in 1 .. j : seg[k].char # ";"}
    <2>1. \A j \in DOMAIN seg : \A k \in 1 .. j : k \in DOMAIN seg
        BY <1>0
    <2>2. \A k \in DOMAIN seg : k \in stops <=> seg[k].char = ";"
        BY <1>1
    <2> HIDE DEF text, stops
    <2> QED
        BY <1>1, <2>1, <2>2 DEF Clear
<1>4. SegmentName(seg) = name
    BY DEF SegmentName
<1>5. name = [j \in DOMAIN name |-> name[j]]
    <2> HIDE DEF name, text, stops
    <2>1. name \in [1 .. Len(name) -> STRING]
        BY <1>2
    <2> QED
        BY <2>1
<1>6. \A j \in DOMAIN name : name[j] = seg[j].char
    <2> HIDE DEF name
    <2>1. DOMAIN name \subseteq DOMAIN seg
        BY <1>2, <1>3
    <2> QED
        BY <1>2, <2>1
<1> HIDE DEF name, text, stops
<1> QED
    BY <1>2, <1>3, <1>4, <1>5, <1>6 DEF SegText

\* What the loop runs over is what the segments stand for.
LEMMA NamesAre ==
    ASSUME NEW t \in Seq(WrittenSeg)
    PROVE  LET path == PathOf(t)
           IN  /\ [i \in DOMAIN path |-> SegmentName(path[i])] = NamesOf(t)
               /\ NamesOf(t) \in Seq(SegText)
               /\ Decodable(path) <=> \A i \in DOMAIN t : \A j \in DOMAIN t[i] :
                                          InPath(t, i, j) => ~Undecodable(t[i][j])
<1> DEFINE path == PathOf(t)
           D == {i \in DOMAIN t : InPath(t, i, 0)}
           Read(i) == {j \in DOMAIN t[i] : InPath(t, i, j) /\ \A k \in 1 .. j : t[i][k].char # ";"}
<1>1. /\ path \in Seq(WrittenSeg) /\ DOMAIN path = D
      /\ \A i \in D : /\ DOMAIN path[i] = {j \in DOMAIN t[i] : InPath(t, i, j)}
                      /\ \A j \in DOMAIN path[i] : path[i][j] = t[i][j]
    BY PathIs
<1> HIDE DEF path
<1>2. ASSUME NEW i \in D
      PROVE  /\ SegmentName(path[i]) \in SegText
             /\ SegmentName(path[i]) = [j \in Read(i) |-> t[i][j].char]
    <2> DEFINE seg == path[i]
    <2>1. seg \in WrittenSeg
        <3> HIDE DEF D
        <3> QED
            BY <1>1
    <2>2. /\ DOMAIN seg = {j \in DOMAIN t[i] : InPath(t, i, j)}
          /\ \A j \in DOMAIN seg : seg[j] = t[i][j]
        BY <1>1
    <2> HIDE DEF seg
    <2>3. /\ SegmentName(seg) \in SegText
          /\ SegmentName(seg) =
                 [j \in {j \in DOMAIN seg : \A k \in 1 .. j : seg[k].char # ";"} |-> seg[j].char]
        BY <2>1, SegmentNameIs
    <2>4. \A j \in DOMAIN seg : \A k \in 1 .. j : k \in DOMAIN seg
        BY <2>1 DEF WrittenSeg
    <2>5. {j \in DOMAIN seg : \A k \in 1 .. j : seg[k].char # ";"} = Read(i)
        BY <2>2, <2>4
    <2>6. \A j \in Read(i) : seg[j].char = t[i][j].char
        BY <2>2
    <2> HIDE DEF Read
    <2>7. SegmentName(seg) = [j \in Read(i) |-> t[i][j].char]
        BY <2>3, <2>5, <2>6
    <2> QED
        BY <2>3, <2>7 DEF seg
<1>3. NamesOf(t) = [i \in D |-> [j \in Read(i) |-> t[i][j].char]]
    BY DEF NamesOf
<1>4. [i \in DOMAIN path |-> SegmentName(path[i])] = NamesOf(t)
    <2> HIDE DEF D, Read
    <2> QED
        BY <1>1, <1>2, <1>3
<1>5. NamesOf(t) \in Seq(SegText)
    <2> DEFINE n == Len(path)
    <2> HIDE DEF D
    <2>1. n \in Nat /\ D = 1 .. n
        BY <1>1
    <2> HIDE DEF n
    <2>2. \A i \in 1 .. n : SegmentName(path[i]) \in SegText
        BY <1>2, <2>1, Zenon
    <2>3. [i \in 1 .. n |-> SegmentName(path[i])] \in Seq(SegText)
        BY <2>1, <2>2
    <2> QED
        BY <1>1, <1>4, <2>1, <2>3, Zenon
<1>6. Decodable(path) <=> \A i \in DOMAIN t : \A j \in DOMAIN t[i] :
                              InPath(t, i, j) => ~Undecodable(t[i][j])
    <2>1. 1 .. 0 = {}
        OBVIOUS
    <2>2. \A i, j : InPath(t, i, j) => InPath(t, i, 0)
        BY <2>1, Zenon DEF InPath
    <2> QED
        BY <1>1, <2>2, Zenon DEF Decodable
<1> QED
    BY <1>4, <1>5, <1>6 DEF path

\* What NormalizePath keeps of a target, and when it refuses it.
LEMMA NormalizeMeans ==
    ASSUME NEW target_ \in Seq(WrittenSeg)
    PROVE  LET out  == NormalizePath(target_)
               t    == NamesOf(target_)
               kept == Survivors(t)
           IN  /\ out.ok <=> /\ \A i \in DOMAIN target_ : \A j \in DOMAIN target_[i] :
                                    InPath(target_, i, j) => ~Undecodable(target_[i][j])
                             /\ \A j \in DOMAIN t : Depth(t, 1, j) >= 0
               /\ out.ok => /\ Len(out.segs) = Cardinality(kept)
                            /\ \A i \in kept :
                                   out.segs[Cardinality({j \in kept : j <= i})] = t[i]
<1> DEFINE out  == NormalizePath(target_)
           t == NamesOf(target_)
           path == PathOf(target_)
           L == Normalized(t)[Len(t)]
<1>1. /\ [i \in DOMAIN path |-> SegmentName(path[i])] = t
      /\ t \in Seq(SegText)
      /\ Decodable(path) <=> \A i \in DOMAIN target_ : \A j \in DOMAIN target_[i] :
                                 InPath(target_, i, j) => ~Undecodable(target_[i][j])
    BY NamesAre
<1>2. /\ L \in Outs
      /\ L.ok <=> \A j \in DOMAIN t : Depth(t, 1, j) >= 0
      /\ L.ok => /\ Len(L.segs) = Cardinality(Survivors(t))
                 /\ \A i \in Survivors(t) :
                        L.segs[Cardinality({j \in Survivors(t) : j <= i})] = t[i]
    <2> HIDE DEF t
    <2> QED
        BY <1>1, LoopMeans
<1>3. out = IF ~Decodable(path) THEN Refused
            ELSE [L EXCEPT !.slash = L.segs # <<>> /\ Last(path) = <<>>]
    BY <1>1, Zenon DEF NormalizePath
<1> HIDE DEF L, out, t, path
<1>4. CASE ~Decodable(path)
    <2>1. out.ok = FALSE
        BY <1>3, <1>4 DEF Refused
    <2> QED
        BY <1>1, <1>4, <2>1, Zenon DEF out, t
<1>5. CASE Decodable(path)
    <2>1. out.ok = L.ok /\ out.segs = L.segs
        BY <1>2, <1>3, <1>5 DEF Outs
    <2> QED
        BY <1>1, <1>2, <1>5, <2>1, Zenon DEF out, t
<1> QED
    BY <1>4, <1>5

\* A request target only grows by written segments.
LEMMA TargetStep == InputSpec => [](target \in Seq(WrittenSeg))
<1> DEFINE Inv == target \in Seq(WrittenSeg)
<1>1. InputInit => Inv
    BY DEF InputInit
<1>2. Inv /\ [InputNext]_inputs => Inv'
    <2> SUFFICES ASSUME Inv, [InputNext]_inputs PROVE Inv'
        OBVIOUS
    <2>1. target' = target \/ \E s \in WrittenSegs : target' = Append(target, s)
        BY DEF InputNext, inputs, GrowChars, GrowGlob, GrowTarget
    <2>2. \A s \in WrittenSegs : s \in WrittenSeg
        BY SegmentsAssumption DEF WrittenSeg
    <2> QED
        BY <2>1, <2>2
<1> QED
    BY <1>1, <1>2, PTL DEF InputSpec

\* For every request target, NormalizePath refuses exactly what cannot be
\* decoded or climbs above the root, and otherwise keeps exactly the names that
\* no ".." removes, in their order, however their characters were written.
THEOREM NormalizationKeepsWhatSurvives == InputSpec => []NormalizeAgrees
<1>1. target \in Seq(WrittenSeg) => NormalizeAgrees
    BY NormalizeMeans, Zenon DEF NormalizeAgrees
<1> QED
    BY <1>1, TargetStep, PTL

-----------------------------------------------------------------------------
(* Segment patterns, for every pattern and segment. *)

\* Segments and patterns are texts, sequences of characters: the provers do not
\* know that "*" is a string.
Characters == STRING \cup {Star}
Text == Seq(Characters)

\* What the reference says about a pattern p and a segment s.
RestsRun(M, p, s) ==
    /\ M \in [1 .. Len(p) + 1 -> SUBSET (1 .. Len(s) + 1)]
    /\ M[Len(p) + 1] = {Len(s) + 1}
    /\ \A i \in 1 .. Len(p) :
           M[i] = IF p[i] = Star THEN {j \in 1 .. Len(s) + 1 : \E k \in M[i + 1] : j <= k}
                  ELSE {j \in 1 .. Len(s) : s[j] = p[i] /\ j + 1 \in M[i + 1]}

\* The recursion of the reference has a solution.
LEMMA RestsAre ==
    ASSUME NEW p \in Text, NEW s \in Text
    PROVE  RestsRun(Rests(p, s), p, s)
<1> DEFINE n == Len(p)
           Step(next, i) == IF p[i] = Star
                            THEN {j \in 1 .. Len(s) + 1 : \E k \in next : j <= k}
                            ELSE {j \in 1 .. Len(s) : s[j] = p[i] /\ j + 1 \in next}
           Body(f) == [i \in 1 .. n + 1 |-> IF i > n THEN {Len(s) + 1} ELSE Step(f[i + 1], i)]
           V == SUBSET (1 .. Len(s) + 1)
           end == {Len(s) + 1}
           step == [i \in 1 .. n |-> [next \in V |-> Step(next, i)]]
           sol == CHOOSE f : f = Body(f)
<1>0. n \in Nat /\ Len(s) \in Nat
    BY DEF Text
<1>1. Rests(p, s) = sol
    BY DEF Rests
<1>2. end \in V /\ \A i \in 1 .. n, next \in V : Step(next, i) \in V
    <2>1. 1 .. Len(s) \subseteq 1 .. Len(s) + 1 /\ Len(s) + 1 \in 1 .. Len(s) + 1
        BY <1>0
    <2> QED
        BY <2>1
<1> HIDE DEF Step, V, n, end
<1>3. /\ step \in Loops(V, n)
      /\ \A i \in 1 .. n, next \in V : step[i][next] = Step(next, i)
    BY <1>2 DEF Loops
<1> HIDE DEF step
<1>4. PICK f : IsRunDown(f, V, end, n, step)
    BY <1>0, <1>2, <1>3, IteratesDown
<1>5. f = Body(f)
    <2>1. \A i \in 1 .. n : f[i + 1] \in V
        BY <1>0, <1>4 DEF IsRunDown
    <2>2. \A i \in 1 .. n : f[i] = Step(f[i + 1], i)
        BY <1>3, <1>4, <2>1 DEF IsRunDown
    <2>3. \A i \in 1 .. n + 1 : f[i] = IF i > n THEN {Len(s) + 1} ELSE Step(f[i + 1], i)
        <3>1. f[n + 1] = {Len(s) + 1}
            BY <1>4 DEF IsRunDown, end
        <3>2. \A i \in 1 .. n + 1 : (i \in 1 .. n /\ ~(i > n)) \/ (i = n + 1 /\ i > n)
            BY <1>0
        <3> QED
            BY <2>2, <3>1, <3>2
    <2>4. f = [i \in 1 .. n + 1 |-> f[i]]
        BY <1>4 DEF IsRunDown
    <2> QED
        BY <2>3, <2>4
<1> HIDE DEF Body
<1>6. sol = Body(sol)
    BY <1>5
<1> HIDE DEF sol
<1>7. /\ sol = [i \in 1 .. n + 1 |-> sol[i]]
      /\ sol[n + 1] = end /\ \A i \in 1 .. n : sol[i] = Step(sol[i + 1], i)
    <2>1. \A i \in 1 .. n : i \in 1 .. n + 1 /\ ~(i > n)
        BY <1>0
    <2>2. n + 1 \in 1 .. n + 1 /\ n + 1 > n
        BY <1>0
    <2>3. \A i \in 1 .. n + 1 : sol[i] = IF i > n THEN {Len(s) + 1} ELSE Step(sol[i + 1], i)
        BY <1>6, Zenon DEF Body
    <2>4. sol = [i \in 1 .. n + 1 |-> sol[i]]
        BY <1>6 DEF Body
    <2> QED
        BY <2>1, <2>2, <2>3, <2>4 DEF end
<1>8. \A i \in 1 .. n : \A next : Step(next, i) \in V
    <2>1. 1 .. Len(s) \subseteq 1 .. Len(s) + 1
        BY <1>0
    <2> QED
        BY <2>1 DEF Step, V
<1>9. \A i \in 1 .. n + 1 : sol[i] \in V
    <2>1. \A i \in 1 .. n + 1 : i \in 1 .. n \/ i = n + 1
        BY <1>0
    <2> QED
        BY <1>2, <1>7, <1>8, <2>1
<1>10. sol \in [1 .. n + 1 -> V]
    BY <1>7, <1>9
<1> QED
    BY <1>1, <1>7, <1>10 DEF RestsRun, n, Step, V, end

\* The characters a .. a + d - 1 of p stand at position j of s.
Stands(p, a, d, s, j) == j + d <= Len(s) + 1 /\ \A x \in 0 .. d - 1 : s[j + x] = p[a + x]

\* A stretch without stars has to stand where it is matched.
LEMMA Stretch ==
    ASSUME NEW p \in Text, NEW s \in Text, NEW M, RestsRun(M, p, s),
           NEW a \in 1 .. Len(p) + 1, NEW b \in a .. Len(p) + 1,
           \A i \in a .. b - 1 : p[i] # Star, NEW j \in 1 .. Len(s) + 1
    PROVE  j \in M[a] <=> Stands(p, a, b - a, s, j) /\ j + (b - a) \in M[b]
<1> DEFINE n == Len(p)
           L == Len(s)
           S == {d \in 0 .. b - a : j \in M[a] <=> Stands(p, a, d, s, j) /\ j + d \in M[a + d]}
<1>0. n \in Nat /\ L \in Nat
    BY DEF Text
<1>1. 0 \in S
    <2>1. Stands(p, a, 0, s, j) /\ j + 0 = j /\ a + 0 = a
        BY <1>0 DEF Stands
    <2> QED
        BY <1>0, <2>1
<1>2. ASSUME NEW d \in 0 .. b - a - 1, d \in S
      PROVE  d + 1 \in S
    <2>0. d \in Nat /\ a + d \in 1 .. n /\ a + d \in a .. b - 1 /\ a + (d + 1) = (a + d) + 1
          /\ j + (d + 1) = (j + d) + 1 /\ d + 1 \in 0 .. b - a
        BY <1>0
    <2>1. M[a + d] = {x \in 1 .. L : s[x] = p[a + d] /\ x + 1 \in M[(a + d) + 1]}
        BY <2>0 DEF RestsRun
    <2>2. M[(a + d) + 1] \subseteq 1 .. L + 1
        BY <1>0, <2>0 DEF RestsRun
    <2>3. j + d \in M[a + d] <=> (j + d) + 1 <= L + 1 /\ s[j + d] = p[a + d] /\ (j + d) + 1 \in M[(a + d) + 1]
        BY <1>0, <2>0, <2>1, <2>2
    <2>4. Stands(p, a, d + 1, s, j) <=>
              Stands(p, a, d, s, j) /\ (j + d) + 1 <= L + 1 /\ s[j + d] = p[a + d]
        <3>1. 0 .. (d + 1) - 1 = (0 .. d - 1) \cup {d}
            BY <2>0
        <3>2. (j + d) + 1 <= L + 1 => j + d <= L + 1
            BY <1>0, <2>0
        <3> QED
            BY <2>0, <3>1, <3>2 DEF Stands
    <2>5. j \in M[a] <=> Stands(p, a, d, s, j) /\ j + d \in M[a + d]
        BY <1>2
    <2>6. j \in M[a] <=> Stands(p, a, d + 1, s, j) /\ j + (d + 1) \in M[a + (d + 1)]
        BY <2>0, <2>3, <2>4, <2>5
    <2> QED
        BY <2>0, <2>6
<1>3. b - a \in S
    <2>1. \A d \in 0 .. (b - a) - 1 : d \in S => d + 1 \in S
        BY <1>2
    <2>2. b - a \in Nat
        BY <1>0
    <2> HIDE DEF S
    <2>3. \A d \in 0 .. b - a : d \in S
        BY <1>1, <2>1, <2>2, UpTo
    <2> QED
        BY <2>2, <2>3
<1>4. a + (b - a) = b
    BY <1>0
<1> QED
    BY <1>3, <1>4

\* strings.Index: a stretch of p occurs in s where it stands.
LEMMA OccursMeans ==
    ASSUME NEW p \in Text, NEW s \in Text,
           NEW a \in 1 .. Len(p) + 1, NEW b \in a .. Len(p) + 1, NEW r \in 1 .. Len(s) + 1
    PROVE  LET part == SubSeq(p, a, b - 1)
           IN  /\ part \in Text /\ Len(part) = b - a
               /\ \A x \in 0 .. b - a - 1 : part[x + 1] = p[a + x]
               /\ Occurs(part, s, r) = {j \in r .. Len(s) + 1 : Stands(p, a, b - a, s, j)}
<1> DEFINE n == Len(p)
           L == Len(s)
           part == SubSeq(p, a, b - 1)
           d == b - a
<1>0. n \in Nat /\ L \in Nat /\ d \in Nat
    BY DEF Text
<1>1. part \in Text /\ Len(part) = d /\ DOMAIN part = 1 .. d
    BY <1>0 DEF Text
<1>2. \A x \in 0 .. d - 1 : part[x + 1] = p[a + x]
    BY <1>0 DEF Text
<1> HIDE DEF part, d
<1>3. ASSUME NEW j \in r .. L + 1 - d
      PROVE  SubSeq(s, j, j + d - 1) = part <=> \A x \in 0 .. d - 1 : s[j + x] = p[a + x]
    <2> DEFINE cut == SubSeq(s, j, j + d - 1)
    <2>1. cut \in Seq(Characters) /\ Len(cut) = d /\ \A x \in 0 .. d - 1 : cut[x + 1] = s[j + x]
        BY <1>0 DEF Text
    <2> HIDE DEF cut
    <2>2. ASSUME \A x \in 0 .. d - 1 : cut[x + 1] = part[x + 1]
          PROVE  cut = part
        <3>1. \A y \in 1 .. d : y - 1 \in 0 .. d - 1 /\ (y - 1) + 1 = y
            BY <1>0
        <3>2. \A y \in 1 .. d : cut[y] = part[y]
            BY <2>2, <3>1
        <3> QED
            BY <1>1, <2>1, <3>2 DEF Text
    <2> QED
        BY <1>2, <2>1, <2>2 DEF cut
<1>4. Occurs(part, s, r) = {j \in r .. L + 1 - d : SubSeq(s, j, j + d - 1) = part}
    BY <1>1 DEF Occurs
<1>5. \A j : j \in r .. L + 1 - d <=> j \in r .. L + 1 /\ j + d <= L + 1
    BY <1>0
<1>6. Occurs(part, s, r) = {j \in r .. L + 1 : Stands(p, a, d, s, j)}
    BY <1>3, <1>4, <1>5 DEF Stands
<1> QED
    BY <1>1, <1>2, <1>6 DEF part, d

\* What the scan keeps: the star before the part it is at, and where the rest of
\* the segment starts.
Scans(p, s) == [star : 0 .. Len(p), rest : 0 .. Len(s) + 1]

\* A step of the scan keeps to that.
LEMMA ToStarType ==
    ASSUME NEW p \in Text, NEW s \in Text, NEW at \in Scans(p, s), NEW i \in 1 .. Len(p)
    PROVE  ToStar(p, s, at, i) \in Scans(p, s)
<1> DEFINE part == SubSeq(p, at.star + 1, i - 1)
           d == Len(part)
           L == Len(s)
           found == IF at.star = 0 THEN {1} \cap Occurs(part, s, 1)
                    ELSE Occurs(part, s, at.rest)
<1>0. Len(p) \in Nat /\ L \in Nat /\ at.star \in Nat /\ at.rest \in Nat /\ at.star <= Len(p)
    BY DEF Text, Scans
<1>1. d \in Nat
    BY <1>0 DEF Text
<1> HIDE DEF part
<1>2. found \subseteq 0 .. L + 1 - d
    <2> HIDE DEF d, L
    <2> QED
        BY <1>0, <1>1 DEF Occurs, d, L
<1>3. ToStar(p, s, at, i) =
          [star |-> i, rest |-> IF at.rest = 0 \/ found = {} THEN 0 ELSE d + Leftmost(found)]
    BY DEF ToStar, Leftmost, part
<1> HIDE DEF found, d
<1>4. found # {} => d + Leftmost(found) \in 0 .. L + 1
    <2>1. found \subseteq Nat
        BY <1>0, <1>1, <1>2
    <2>2. found # {} => Leftmost(found) \in 0 .. L + 1 - d
        BY <1>2, <2>1, LeftmostIs
    <2> QED
        BY <1>0, <1>1, <2>2
<1> QED
    BY <1>0, <1>3, <1>4 DEF Scans

\* The scan of a pattern p over a segment s.
ScanRun(A, p, s) ==
    /\ A[0] = [star |-> 0, rest |-> 1]
    /\ \A i \in 1 .. Len(p) :
           A[i] = IF p[i] = Star THEN ToStar(p, s, A[i - 1], i) ELSE A[i - 1]

\* The recursion of the scan has a solution.
LEMMA ScannedIs ==
    ASSUME NEW p \in Text, NEW s \in Text
    PROVE  ScanRun(Scanned(p, s), p, s)
<1> DEFINE n == Len(p)
           V == Scans(p, s)
           start == [star |-> 0, rest |-> 1]
           Step(at, i) == IF p[i] = Star THEN ToStar(p, s, at, i) ELSE at
           Body(f) == [i \in 0 .. n |-> IF i = 0 THEN start ELSE Step(f[i - 1], i)]
           step == [i \in 1 .. n |-> [at \in V |-> Step(at, i)]]
           sol == CHOOSE f : f = Body(f)
<1>0. n \in Nat /\ start \in V
    BY DEF Text, Scans
<1>1. Scanned(p, s) = sol
    BY DEF Scanned
<1>2. \A i \in 1 .. n, at \in V : Step(at, i) \in V
    BY ToStarType
<1> HIDE DEF V, n, start, Step
<1>3. /\ step \in Loops(V, n)
      /\ \A i \in 1 .. n, at \in V : step[i][at] = Step(at, i)
    BY <1>2 DEF Loops
<1> HIDE DEF step
<1>4. PICK f : IsRun(f, V, start, n, step)
    BY <1>0, <1>3, Iterates
<1>5. f = Body(f)
    <2>1. \A i \in 1 .. n : f[i - 1] \in V
        BY <1>0, <1>4 DEF IsRun
    <2>2. \A i \in 0 .. n : f[i] = IF i = 0 THEN start ELSE Step(f[i - 1], i)
        BY <1>0, <1>3, <1>4, <2>1 DEF IsRun
    <2>3. f = [i \in 0 .. n |-> f[i]]
        BY <1>4 DEF IsRun
    <2> QED
        BY <2>2, <2>3
<1> HIDE DEF Body
<1>6. sol = Body(sol)
    BY <1>5
<1> HIDE DEF sol
<1>7. sol[0] = start /\ \A i \in 1 .. n : sol[i] = Step(sol[i - 1], i)
    BY <1>0, <1>6 DEF Body
<1> QED
    BY <1>1, <1>7 DEF ScanRun, Step, n, start

\* What the scan knows after i characters of the pattern: the star it saw last,
\* and that the segment matches exactly if what is left of it matches what is
\* left of the pattern.
ScanOK(at, p, s, M, i) ==
    /\ at.star \in 0 .. i /\ at.rest \in 0 .. Len(s) + 1
    /\ \A k \in at.star + 1 .. i : p[k] # Star
    /\ at.star # 0 => p[at.star] = Star
    /\ at.star = 0 => at.rest = 1
    /\ at.star # 0 => (1 \in M[1] <=> at.rest # 0 /\ at.rest \in M[at.star])

\* The next star: it is enough to look for the part before it leftmost.
LEMMA ToStarOK ==
    ASSUME NEW p \in Text, NEW s \in Text, NEW M, RestsRun(M, p, s),
           NEW i \in 1 .. Len(p), p[i] = Star, NEW at, ScanOK(at, p, s, M, i - 1)
    PROVE  ScanOK(ToStar(p, s, at, i), p, s, M, i)
<1> DEFINE n == Len(p)
           L == Len(s)
           a == at.star + 1
           d == i - a
           part == SubSeq(p, a, i - 1)
           found == IF at.star = 0 THEN {1} \cap Occurs(part, s, 1)
                    ELSE Occurs(part, s, at.rest)
           next == ToStar(p, s, at, i)
<1>0. /\ n \in Nat /\ L \in Nat /\ at.star \in Nat /\ at.rest \in 0 .. L + 1
      /\ a \in 1 .. n + 1 /\ i \in a .. n + 1 /\ i - 1 \in Nat /\ d \in Nat
    BY DEF Text, ScanOK
<1>1. /\ Len(part) = d
      /\ \A r \in 1 .. L + 1 : Occurs(part, s, r) = {j \in r .. L + 1 : Stands(p, a, d, s, j)}
    <2> DEFINE b == i
    <2>1. a \in 1 .. Len(p) + 1 /\ b \in a .. Len(p) + 1 /\ \A r \in 1 .. L + 1 : r \in 1 .. Len(s) + 1
        BY <1>0
    <2>2. 1 \in 1 .. L + 1
        BY <1>0
    <2> HIDE DEF a, b, L
    <2>3. /\ Len(SubSeq(p, a, b - 1)) = b - a
          /\ \A r \in 1 .. L + 1 :
                 Occurs(SubSeq(p, a, b - 1), s, r) = {j \in r .. Len(s) + 1 : Stands(p, a, b - a, s, j)}
        BY <2>1, <2>2, OccursMeans
    <2> QED
        BY <2>3 DEF b, L
<1>2. next = [star |-> i, rest |-> IF at.rest = 0 \/ found = {} THEN 0 ELSE d + Leftmost(found)]
    <2>1. next = [star |-> i, rest |-> IF at.rest = 0 \/ found = {} THEN 0
                                       ELSE Len(part) + Leftmost(found)]
        BY DEF ToStar, Leftmost
    <2> HIDE DEF next, part, found, d
    <2> QED
        BY <1>1, <2>1
<1>3. M[i] = {j \in 1 .. L + 1 : \E k \in M[i + 1] : j <= k} /\ M[i + 1] \subseteq Nat
    <2>1. i + 1 \in 1 .. n + 1
        BY <1>0
    <2>2. M[i] = {j \in 1 .. L + 1 : \E k \in M[i + 1] : j <= k}
        BY Zenon DEF RestsRun
    <2>3. M[i + 1] \in SUBSET (1 .. L + 1)
        BY <2>1 DEF RestsRun
    <2> QED
        BY <1>0, <2>2, <2>3
\* a star can always take less
<1>4. \A j \in 1 .. L + 1, k \in M[i] : j <= k => j \in M[i]
    BY <1>0, <1>3
<1>5. \A j \in 1 .. L + 1 : j \in M[a] <=> Stands(p, a, d, s, j) /\ j + d \in M[i]
    <2>1. \A k \in a .. i - 1 : p[k] # Star
        BY DEF ScanOK
    <2> QED
        BY <1>0, <2>1, Stretch
<1> HIDE DEF part, next, a, d
<1>6. CASE at.rest = 0
    <2>1. next.star = i /\ next.rest = 0
        BY <1>2, <1>6
    <2> QED
        BY <1>0, <1>6, <2>1 DEF ScanOK, next
<1>7. CASE at.rest # 0
    <2> DEFINE places == {j \in 1 .. L + 1 : /\ Stands(p, a, d, s, j)
                                             /\ IF at.star = 0 THEN j = 1 ELSE at.rest <= j}
    <2>1. found = places
        <3>1. at.rest \in 1 .. L + 1 /\ 1 \in 1 .. L + 1
            BY <1>0, <1>7
        <3> QED
            BY <1>0, <1>1, <3>1
    <2>2. 1 \in M[1] <=> \E j \in found : j + d \in M[i]
        <3>1. CASE at.star = 0
            <4>1. a = 1
                BY <3>1 DEF a
            <4> QED
                BY <1>0, <1>5, <2>1, <3>1, <4>1
        <3>2. CASE at.star # 0
            <4>1. 1 \in M[1] <=> at.rest \in M[at.star]
                BY <1>7, <3>2 DEF ScanOK
            <4>2. M[at.star] = {j \in 1 .. L + 1 : \E k \in M[a] : j <= k}
                <5>1. at.star \in 1 .. n /\ p[at.star] = Star
                    BY <1>0, <3>2 DEF ScanOK
                <5> QED
                    BY <5>1 DEF RestsRun, a
            <4>3. M[a] \subseteq 1 .. L + 1
                BY <1>0 DEF RestsRun
            <4> QED
                BY <1>0, <1>5, <1>7, <2>1, <3>2, <4>1, <4>2, <4>3
        <3> QED
            BY <3>1, <3>2
    <2>3. \A j \in found : j \in Nat /\ j + d \in 1 .. L + 1
        BY <1>0, <2>1 DEF Stands
    <2> HIDE DEF found
    <2>4. CASE found = {}
        <3>1. next.star = i /\ next.rest = 0
            BY <1>2, <2>4
        <3> QED
            BY <1>0, <2>2, <2>4, <3>1 DEF ScanOK, next
    <2>5. CASE found # {}
        <3> DEFINE j == Leftmost(found)
        <3>1. j \in found /\ \A k \in found : j <= k
            BY <2>3, <2>5, LeftmostIs
        <3>2. next.star = i /\ next.rest = d + j
            BY <1>2, <1>7, <2>5
        <3> HIDE DEF j
        <3>3. d + j \in 1 .. L + 1 /\ d + j = j + d
            BY <1>0, <2>3, <3>1
        <3>4. (\E k \in found : k + d \in M[i]) <=> d + j \in M[i]
            <4>1. ASSUME NEW k \in found, k + d \in M[i] PROVE d + j \in M[i]
                BY <1>0, <1>4, <2>3, <3>1, <3>3, <4>1
            <4> QED
                BY <3>1, <3>3, <4>1
        <3> QED
            BY <1>0, <2>2, <3>2, <3>3, <3>4 DEF ScanOK, next
    <2> QED
        BY <2>4, <2>5
<1> QED
    BY <1>6, <1>7

\* strings.HasSuffix, character by character.
LEMMA SuffixMeans ==
    ASSUME NEW u \in Text, NEW v \in Text
    PROVE  IsSuffix(u, v) <=> /\ Len(u) <= Len(v)
                                    /\ \A x \in 0 .. Len(u) - 1 : v[Len(v) - Len(u) + 1 + x] = u[1 + x]
<1> DEFINE m == Len(u)
           n == Len(v)
           ru == [i \in 1 .. m |-> u[m - i + 1]]
           rv == [i \in 1 .. n |-> v[n - i + 1]]
<1>0. m \in Nat /\ n \in Nat /\ u \in [1 .. m -> Characters] /\ v \in [1 .. n -> Characters]
    BY DEF Text
<1> HIDE DEF m, n
<1>1. ru \in Seq(Characters) /\ rv \in Seq(Characters) /\ Len(ru) = m /\ Len(rv) = n
    BY <1>0
<1>2. IsSuffix(u, v) <=> m <= n /\ SubSeq(ru, 1, m) = SubSeq(rv, 1, m)
    BY <1>1 DEF IsSuffix, IsPrefix, Reverse, m, n
<1>3. ASSUME m <= n
      PROVE  SubSeq(ru, 1, m) = SubSeq(rv, 1, m) <=> \A i \in 1 .. m : u[m - i + 1] = v[n - i + 1]
    <2>1. \A i \in 1 .. m : ru[i] = u[m - i + 1] /\ rv[i] = v[n - i + 1]
        BY <1>0, <1>3
    <2> HIDE DEF ru, rv
    <2>2. SubSeq(ru, 1, m) = [i \in 1 .. m |-> ru[i]] /\ SubSeq(rv, 1, m) = [i \in 1 .. m |-> rv[i]]
        BY <1>0, <1>1, <1>3
    <2>3. ASSUME SubSeq(ru, 1, m) = SubSeq(rv, 1, m), NEW i \in 1 .. m
          PROVE  ru[i] = rv[i]
        <3>1. [k \in 1 .. m |-> ru[k]][i] = [k \in 1 .. m |-> rv[k]][i]
            BY <2>2, <2>3, Zenon
        <3> QED
            BY <3>1
    <2>4. ASSUME \A i \in 1 .. m : ru[i] = rv[i]
          PROVE  SubSeq(ru, 1, m) = SubSeq(rv, 1, m)
        BY <2>2, <2>4
    <2>5. SubSeq(ru, 1, m) = SubSeq(rv, 1, m) <=> \A i \in 1 .. m : ru[i] = rv[i]
        BY <2>3, <2>4
    <2>6. (\A i \in 1 .. m : ru[i] = rv[i]) <=> \A i \in 1 .. m : u[m - i + 1] = v[n - i + 1]
        <3>1. ASSUME \A i \in 1 .. m : ru[i] = rv[i], NEW i \in 1 .. m PROVE u[m - i + 1] = v[n - i + 1]
            BY <2>1, <3>1
        <3>2. ASSUME \A i \in 1 .. m : u[m - i + 1] = v[n - i + 1], NEW i \in 1 .. m PROVE ru[i] = rv[i]
            BY <2>1, <3>2
        <3> QED
            BY <3>1, <3>2
    <2> HIDE DEF ru, rv
    <2> QED
        BY <2>5, <2>6, Zenon
<1>4. ASSUME m <= n
      PROVE  (\A i \in 1 .. m : u[m - i + 1] = v[n - i + 1])
                 <=> (\A x \in 0 .. m - 1 : v[n - m + 1 + x] = u[1 + x])
    <2>1. ASSUME \A i \in 1 .. m : u[m - i + 1] = v[n - i + 1], NEW x \in 0 .. m - 1
          PROVE  v[n - m + 1 + x] = u[1 + x]
        <3>1. m - x \in 1 .. m /\ m - (m - x) + 1 = 1 + x /\ n - (m - x) + 1 = n - m + 1 + x
            BY <1>0
        <3> QED
            BY <2>1, <3>1
    <2>2. ASSUME \A x \in 0 .. m - 1 : v[n - m + 1 + x] = u[1 + x], NEW i \in 1 .. m
          PROVE  u[m - i + 1] = v[n - i + 1]
        <3>1. m - i \in 0 .. m - 1 /\ 1 + (m - i) = m - i + 1 /\ n - m + 1 + (m - i) = n - i + 1
            BY <1>0
        <3> QED
            BY <2>2, <3>1
    <2> QED
        BY <2>1, <2>2
<1> QED
    BY <1>2, <1>3, <1>4 DEF m, n

\* The whole scan.
LEMMA ScanAgrees ==
    ASSUME NEW p \in Text, NEW s \in Text, NEW M, RestsRun(M, p, s)
    PROVE  ScanOK(Scanned(p, s)[Len(p)], p, s, M, Len(p))
<1> DEFINE A == Scanned(p, s)
           n == Len(p)
           S == {i \in 0 .. n : ScanOK(A[i], p, s, M, i)}
<1>0. n \in Nat /\ Len(s) \in Nat /\ ScanRun(A, p, s)
    BY ScannedIs DEF Text
<1> HIDE DEF A
<1>1. 0 \in S
    <2>1. A[0].star = 0 /\ A[0].rest = 1
        BY <1>0 DEF ScanRun
    <2>2. ScanOK(A[0], p, s, M, 0)
        BY <1>0, <2>1 DEF ScanOK
    <2> QED
        BY <1>0, <2>2
<1>2. ASSUME NEW i \in 0 .. n - 1, i \in S
      PROVE  i + 1 \in S
    <2>0. i + 1 \in 1 .. n /\ (i + 1) - 1 = i /\ i + 1 \in 0 .. n /\ i \in Nat
        BY <1>0
    <2>1. ScanOK(A[i], p, s, M, (i + 1) - 1)
        BY <1>2, <2>0
    <2>2. CASE p[i + 1] = Star
        <3>1. A[i + 1] = ToStar(p, s, A[i], i + 1)
            BY <1>0, <2>0, <2>2 DEF ScanRun
        <3>2. ScanOK(ToStar(p, s, A[i], i + 1), p, s, M, i + 1)
            BY <2>0, <2>1, <2>2, ToStarOK
        <3> QED
            BY <2>0, <3>1, <3>2
    <2>3. CASE p[i + 1] # Star
        <3>1. A[i + 1] = A[i]
            BY <1>0, <2>0, <2>3 DEF ScanRun
        <3> DEFINE at == A[i]
        <3>2. ScanOK(at, p, s, M, i)
            BY <2>0, <2>1
        <3> HIDE DEF at
        <3>3. \A k \in at.star + 1 .. i + 1 : k \in at.star + 1 .. i \/ k = i + 1
            BY <2>0, <3>2 DEF ScanOK
        <3>4. ScanOK(at, p, s, M, i + 1)
            BY <2>0, <2>3, <3>2, <3>3 DEF ScanOK
        <3> QED
            BY <2>0, <3>1, <3>4 DEF at
    <2> QED
        BY <2>2, <2>3
<1>3. \A i \in 0 .. n - 1 : i \in S => i + 1 \in S
    BY <1>2
<1>4. n \in S
    <2> HIDE DEF S, n
    <2>1. \A i \in 0 .. n : i \in S
        BY <1>0, <1>1, <1>3, UpTo
    <2> QED
        BY <1>0, <2>1
<1> QED
    BY <1>4 DEF A

\* The part after the last star has to stand at the end of what is left.
LEMMA LastPart ==
    ASSUME NEW p \in Text, NEW s \in Text, NEW M, RestsRun(M, p, s),
           NEW at, ScanOK(at, p, s, M, Len(p)), at.star # 0, at.rest # 0
    PROVE  at.rest \in M[at.star] <=>
               IsSuffix(SubSeq(p, at.star + 1, Len(p)), SubSeq(s, at.rest, Len(s)))
<1> DEFINE n == Len(p)
           L == Len(s)
           a == at.star + 1
           r == at.rest
           d == n + 1 - a
           u == SubSeq(p, a, n)
           v == SubSeq(s, r, L)
           j == L + 1 - d
<1>0. /\ n \in Nat /\ L \in Nat /\ at.star \in 1 .. n /\ r \in 1 .. L + 1 /\ a \in 1 .. n + 1
      /\ p[at.star] = Star /\ n + 1 \in a .. n + 1 /\ d \in Nat /\ (n + 1) - 1 = n
      /\ \A k \in a .. n : p[k] # Star
    BY DEF Text, ScanOK
<1>1. M[at.star] = {k \in 1 .. L + 1 : \E e \in M[a] : k <= e}
    BY <1>0, Zenon DEF RestsRun
<1>2. M[n + 1] = {L + 1} /\ M[a] \subseteq 1 .. L + 1
    BY <1>0 DEF RestsRun
<1>3. \A k \in 1 .. L + 1 : k \in M[a] <=> Stands(p, a, d, s, k) /\ k + d \in M[n + 1]
    <2>1. \A k \in a .. (n + 1) - 1 : p[k] # Star
        BY <1>0
    <2>0. d = (n + 1) - a
        BY <1>0
    <2> HIDE DEF a
    <2>2. ASSUME NEW k \in 1 .. L + 1
          PROVE  k \in M[a] <=> Stands(p, a, d, s, k) /\ k + d \in M[n + 1]
        <3>1. n + 1 \in a .. Len(p) + 1 /\ a \in 1 .. Len(p) + 1 /\ k \in 1 .. Len(s) + 1
            BY <1>0
        <3> HIDE DEF n, L, d
        <3>3. k \in M[a] <=> Stands(p, a, (n + 1) - a, s, k) /\ k + ((n + 1) - a) \in M[n + 1]
            BY <2>1, <3>1, Stretch
        <3> QED
            BY <2>0, <3>3
    <2> HIDE DEF d, L, n
    <2> QED
        BY <2>2
<1>4. u \in Text /\ Len(u) = d /\ \A x \in 0 .. d - 1 : u[1 + x] = p[a + x]
    <2> HIDE DEF a
    <2>1. u \in Text /\ Len(u) = d
        BY <1>0 DEF Text
    <2>2. ASSUME NEW x \in 0 .. d - 1 PROVE u[1 + x] = p[a + x]
        <3>1. 1 + x \in 1 .. n - a + 1 /\ a + (1 + x) - 1 = a + x
            BY <1>0
        <3>2. \A y \in 1 .. n - a + 1 : u[y] = p[a + y - 1]
            BY <1>0 DEF Text
        <3> QED
            BY <3>1, <3>2
    <2> QED
        BY <2>1, <2>2
<1>5. v \in Text /\ Len(v) = L + 1 - r /\ \A y \in 1 .. L + 1 - r : v[y] = s[r + y - 1]
    <2> HIDE DEF r
    <2>0. v \in Text
        BY <1>0 DEF Text
    <2>1. Len(v) = L + 1 - r
        BY <1>0 DEF Text
    <2>2. \A y \in 1 .. L + 1 - r : v[y] = s[r + y - 1]
        BY <1>0 DEF Text
    <2> QED
        BY <2>0, <2>1, <2>2
<1> HIDE DEF u, v, a, d, r, n
<1>6. \A k \in 1 .. L + 1 : k \in M[a] <=> k = j /\ Stands(p, a, d, s, j)
    <2>1. \A k \in 1 .. L + 1 : k + d = L + 1 <=> k = j
        BY <1>0
    <2> QED
        BY <1>2, <1>3, <2>1
<1>7. r \in M[at.star] <=> r <= j /\ Stands(p, a, d, s, j)
    <2>1. r \in M[at.star] <=> \E e \in M[a] : r <= e
        BY <1>0, <1>1
    <2>2. r <= j => j \in 1 .. L + 1
        BY <1>0
    <2> HIDE DEF j
    <2> QED
        BY <1>2, <1>6, <2>1, <2>2
<1> HIDE DEF L
<1>8. IsSuffix(u, v) <=> d <= L + 1 - r /\ \A x \in 0 .. d - 1 : v[(L + 1 - r) - d + 1 + x] = u[1 + x]
    <2>1. IsSuffix(u, v) <=> /\ Len(u) <= Len(v)
                                   /\ \A x \in 0 .. Len(u) - 1 : v[Len(v) - Len(u) + 1 + x] = u[1 + x]
        BY <1>4, <1>5, SuffixMeans
    <2> QED
        BY <1>4, <1>5, <2>1
<1>9. d <= L + 1 - r <=> r <= j
    BY <1>0
<1>10. ASSUME d <= L + 1 - r, NEW x \in 0 .. d - 1
       PROVE  v[(L + 1 - r) - d + 1 + x] = s[j + x]
    <2> DEFINE y == (L + 1 - r) - d + 1 + x
    <2>1. y \in 1 .. L + 1 - r /\ r + y - 1 = j + x
        BY <1>0, <1>10
    <2> HIDE DEF y
    <2>2. v[y] = s[j + x]
        BY <1>5, <2>1
    <2> QED
        BY <2>2 DEF y
<1>11. Stands(p, a, d, s, j) <=> \A x \in 0 .. d - 1 : s[j + x] = p[a + x]
    <2>1. j + d <= Len(s) + 1
        BY <1>0 DEF L
    <2> QED
        BY <2>1 DEF Stands
<1>12. r \in M[at.star] <=> IsSuffix(u, v)
    BY <1>7, <1>4, <1>8, <1>9, <1>10, <1>11
<1> QED
    BY <1>12 DEF u, v, a, r, n, L

\* matchSegment is what the pattern means, for every pattern and segment.
LEMMA SegmentMeans ==
    ASSUME NEW p \in Text, NEW s \in Text
    PROVE  matchSegment(p, s) = SegmentMeaning(p, s)
<1> DEFINE n == Len(p)
           L == Len(s)
           M == Rests(p, s)
<1>0. /\ n \in Nat /\ L \in Nat /\ DOMAIN p = 1 .. n /\ RestsRun(M, p, s)
      /\ (SegmentMeaning(p, s) <=> 1 \in M[1])
      /\ matchSegment(p, s) \in BOOLEAN /\ SegmentMeaning(p, s) \in BOOLEAN
    <2>1. n \in Nat /\ L \in Nat /\ DOMAIN p = 1 .. n
        BY DEF Text
    <2>2. matchSegment(p, s) \in BOOLEAN
        BY Zenon DEF matchSegment, IsSuffix, IsPrefix
    <2>3. SegmentMeaning(p, s) = (1 \in M[1])
        BY Zenon DEF SegmentMeaning
    <2>4. RestsRun(M, p, s)
        BY RestsAre
    <2> HIDE DEF M
    <2>5. (SegmentMeaning(p, s) <=> 1 \in M[1]) /\ SegmentMeaning(p, s) \in BOOLEAN
        <3>1. SegmentMeaning(p, s) <=> 1 \in M[1]
            BY <2>3
        <3>2. (1 \in M[1]) \in BOOLEAN
            OBVIOUS
        <3>3. SegmentMeaning(p, s) \in BOOLEAN
            BY <2>3, <3>2, Zenon
        <3> QED
            BY <3>1, <3>3, Zenon
    <2> HIDE DEF n, L
    <2> QED
        BY <2>1, <2>2, <2>4, <2>5, Zenon
<1> HIDE DEF M
<1>1. CASE ~HasStar(p)
    <2>1. \A i \in 1 .. (n + 1) - 1 : p[i] # Star
        BY <1>0, <1>1 DEF HasStar
    <2>2. 1 \in M[1] <=> Stands(p, 1, (n + 1) - 1, s, 1) /\ 1 + ((n + 1) - 1) \in M[n + 1]
        <3>1. 1 \in 1 .. Len(p) + 1 /\ n + 1 \in 1 .. Len(p) + 1 /\ 1 \in 1 .. Len(s) + 1
            BY <1>0
        <3> HIDE DEF n, L
        <3> QED
            BY <1>0, <2>1, <3>1, Stretch
    <2>3. (n + 1) - 1 = n /\ 1 + n = n + 1 /\ M[n + 1] = {L + 1}
        BY <1>0 DEF RestsRun
    <2>4. 1 \in M[1] <=> Stands(p, 1, n, s, 1) /\ n + 1 = L + 1
        BY <2>2, <2>3
    <2>5. Stands(p, 1, n, s, 1) /\ n + 1 = L + 1 <=> p = s
        <3>1. ASSUME Stands(p, 1, n, s, 1), n + 1 = L + 1 PROVE p = s
            <4>1. n = L /\ \A i \in 1 .. n : i - 1 \in 0 .. n - 1 /\ 1 + (i - 1) = i
                BY <1>0, <3>1
            <4>2. \A i \in 1 .. n : p[i] = s[i]
                BY <3>1, <4>1 DEF Stands
            <4> QED
                BY <1>0, <4>1, <4>2 DEF Text
        <3>2. ASSUME p = s PROVE Stands(p, 1, n, s, 1) /\ n + 1 = L + 1
            <4>1. n = L /\ 1 + n <= L + 1
                BY <1>0, <3>2
            <4> QED
                BY <3>2, <4>1 DEF Stands
        <3> QED
            BY <3>1, <3>2
    <2>6. matchSegment(p, s) <=> p = s
        BY <1>1 DEF matchSegment
    <2> QED
        BY <1>0, <2>4, <2>5, <2>6
<1>2. CASE HasStar(p)
    <2> DEFINE at == Scanned(p, s)[n]
               u == SubSeq(p, at.star + 1, n)
               v == SubSeq(s, at.rest, L)
    <2>1. ScanOK(at, p, s, M, n)
        BY <1>0, ScanAgrees
    <2>2. matchSegment(p, s) <=> at.rest > 0 /\ IsSuffix(u, v)
        BY <1>2 DEF matchSegment
    <2> HIDE DEF at
    <2>3. at.star # 0 /\ at.rest \in Nat
        <3>1. PICK i \in 1 .. n : p[i] = Star
            BY <1>0, <1>2 DEF HasStar
        <3> QED
            BY <1>0, <2>1, <3>1 DEF ScanOK
    <2>4. 1 \in M[1] <=> at.rest # 0 /\ at.rest \in M[at.star]
        BY <2>1, <2>3 DEF ScanOK
    <2>5. at.rest # 0 => (at.rest \in M[at.star] <=> IsSuffix(u, v))
        BY <1>0, <2>1, <2>3, LastPart
    <2>6. at.rest > 0 <=> at.rest # 0
        BY <2>3
    <2> HIDE DEF u, v
    <2> QED
        BY <1>0, <2>2, <2>4, <2>5, <2>6
<1> QED
    BY <1>1, <1>2

\* For any alphabet, matchSegment's leftmost search accepts exactly the segments
\* that some choice of runs for the stars of the pattern gives.
THEOREM SegmentsMatchTheirMeaning == InputSpec => []SegmentAgrees
<1> DEFINE Inv == chars \in [1 .. 2 -> Text]
<1>1. InputInit => Inv
    <2>1. <<>> \in Text
        BY DEF Text
    <2> QED
        BY <2>1 DEF InputInit
<1>2. Inv /\ [InputNext]_inputs => Inv'
    <2> SUFFICES ASSUME Inv, [InputNext]_inputs PROVE Inv'
        OBVIOUS
    <2>1. ASSUME NEW i \in 1 .. 2, GrowChars(i) PROVE Inv'
        <3>1. PICK c \in Letters \cup (IF i = 1 THEN {Star} ELSE {}) :
                  chars' = [chars EXCEPT ![i] = Append(@, c)]
            BY <2>1, Zenon DEF GrowChars
        <3>2. c \in Characters
            BY SegmentsAssumption DEF Characters
        <3>3. \A t \in Text : Append(t, c) \in Text
            <4>1. \A A : \A x \in A, t \in Seq(A) : Append(t, x) \in Seq(A)
                OBVIOUS
            <4> QED
                BY <3>2, <4>1, Zenon DEF Text
        <3> QED
            BY <3>1, <3>3
    <2>2. ASSUME UNCHANGED chars PROVE Inv'
        BY <2>2
    <2> QED
        BY <2>1, <2>2 DEF InputNext, GrowGlob, GrowTarget, inputs
<1>3. Inv => SegmentAgrees
    BY SegmentMeans DEF SegmentAgrees
<1> QED
    BY <1>1, <1>2, <1>3, PTL DEF InputSpec

-----------------------------------------------------------------------------
(* Path rules, for every rule and path. *)

\* owner deals the segments of the path q from the j-th on out to the segments
\* of the rule p from the i-th on.
Deals(owner, p, q, i, j) ==
    /\ owner \in [j .. Len(q) -> i .. Len(p)]
    /\ \A l, k \in j .. Len(q) : l <= k => owner[l] <= owner[k]
    /\ \A l \in j .. Len(q) :
           p[owner[l]] = Cross \/ SegmentMeaning(p[owner[l]], q[l])
    /\ \A x \in i .. Len(p) :
           p[x] = Cross \/ \E l \in j .. Len(q) : \A k \in j .. Len(q) : owner[k] = x <=> k = l

\* Before what is dealt out, a "**" can have any number of segments more ...
LEMMA CrossTakes ==
    ASSUME NEW p \in Seq(Text), NEW q \in Seq(Text), NEW i \in 1 .. Len(p), NEW j \in 1 .. Len(q) + 1,
           p[i] = Cross, NEW k \in j .. Len(q) + 1, NEW owner, Deals(owner, p, q, i + 1, k)
    PROVE  \E all : Deals(all, p, q, i, j)
<1> DEFINE n == Len(p)
           L == Len(q)
           all == [l \in j .. L |-> IF l < k THEN i ELSE owner[l]]
<1>0. n \in Nat /\ L \in Nat
    OBVIOUS
<1> HIDE DEF n, L
<1>1. \A l \in j .. L : \/ l < k /\ all[l] = i
                        \/ l \in k .. L /\ all[l] = owner[l] /\ owner[l] \in i + 1 .. n /\ ~(l < k)
    <2>1. \A l \in j .. L : l < k \/ (l \in k .. L /\ ~(l < k))
        BY <1>0 DEF L
    <2>2. \A l \in k .. L : owner[l] \in i + 1 .. n
        BY DEF Deals, n, L
    <2> QED
        BY <2>1, <2>2
<1>2. all = [l \in j .. L |-> all[l]]
    OBVIOUS
<1> HIDE DEF all
<1>3. all \in [j .. L -> i .. n]
    <2>1. \A l \in j .. L : all[l] \in i .. n
        BY <1>0, <1>1 DEF n
    <2> QED
        BY <1>2, <2>1
<1>4. \A l, m \in j .. L : l <= m => all[l] <= all[m]
    <2>1. \A l, m \in k .. L : l <= m => owner[l] <= owner[m]
        BY DEF Deals, L
    <2> QED
        BY <1>0, <1>1, <2>1 DEF n
<1>5. \A l \in j .. L : p[all[l]] = Cross \/ SegmentMeaning(p[all[l]], q[l])
    <2>1. \A l \in k .. L : p[owner[l]] = Cross \/ SegmentMeaning(p[owner[l]], q[l])
        BY DEF Deals, L
    <2> QED
        BY <1>1, <2>1
<1>6. ASSUME NEW x \in i .. n, p[x] # Cross
      PROVE  \E l \in j .. L : \A m \in j .. L : all[m] = x <=> m = l
    <2>1. x \in i + 1 .. n /\ x # i
        BY <1>0, <1>6 DEF n
    <2>2. PICK l \in k .. L : \A m \in k .. L : owner[m] = x <=> m = l
        BY <1>6, <2>1 DEF Deals, n, L
    <2>3. l \in j .. L
        BY <1>0 DEF L
    <2>4. \A m \in j .. L : all[m] = x <=> m = l
        BY <1>0, <1>1, <2>1, <2>2
    <2> QED
        BY <2>3, <2>4
<1>7. Deals(all, p, q, i, j)
    BY <1>3, <1>4, <1>5, <1>6 DEF Deals, n, L
<1> QED
    BY <1>7

\* ... and giving up its own leaves the rest dealt out.
LEMMA CrossGives ==
    ASSUME NEW p \in Seq(Text), NEW q \in Seq(Text), NEW i \in 1 .. Len(p), NEW j \in 1 .. Len(q) + 1,
           p[i] = Cross, NEW owner, Deals(owner, p, q, i, j)
    PROVE  \E k \in j .. Len(q) + 1 : \E less : Deals(less, p, q, i + 1, k)
<1> DEFINE n == Len(p)
           L == Len(q)
           Free == {l \in j .. L + 1 : \A m \in l .. L : owner[m] # i}
<1>0. n \in Nat /\ L \in Nat /\ j \in Nat
    OBVIOUS
<1>1. /\ owner \in [j .. L -> i .. n]
      /\ \A l, k \in j .. L : l <= k => owner[l] <= owner[k]
      /\ \A l \in j .. L : p[owner[l]] = Cross \/ SegmentMeaning(p[owner[l]], q[l])
      /\ \A x \in i .. n : p[x] = Cross \/ \E l \in j .. L : \A k \in j .. L : owner[k] = x <=> k = l
    BY DEF Deals
<1> HIDE DEF n, L
<1>2. PICK k \in Free : \A l \in Free : k <= l
    <2>1. L + 1 \in Free /\ Free \subseteq Nat
        BY <1>0 DEF L
    <2> HIDE DEF Free
    <2> QED
        BY <2>1, LeastNumber
<1> DEFINE less == [l \in k .. L |-> owner[l]]
<1>3. k \in j .. L + 1 /\ k \in Nat /\ \A m \in k .. L : m \in j .. L /\ owner[m] \in i + 1 .. n
    <2>1. k \in j .. L + 1 /\ \A m \in k .. L : owner[m] # i
        OBVIOUS
    <2>2. k \in Nat /\ \A m \in k .. L : m \in j .. L
        BY <1>0, <2>1
    <2> QED
        BY <1>0, <1>1, <2>1, <2>2 DEF n
<1>4. ASSUME NEW l \in j .. L, owner[l] # i PROVE l \in k .. L
    <2>1. ASSUME l < k PROVE FALSE
        <3>1. \A m \in l .. L : m \in j .. L /\ owner[l] <= owner[m] /\ owner[l] > i
            BY <1>0, <1>1, <1>4 DEF n
        <3>2. l \in Free
            BY <1>0, <1>1, <3>1 DEF n
        <3> QED
            BY <1>0, <1>2, <2>1, <3>2
    <2> QED
        BY <1>0, <1>3, <2>1
<1> HIDE DEF Free
<1>5. \A l \in k .. L : less[l] = owner[l]
    OBVIOUS
<1>6. less \in [k .. L -> i + 1 .. n]
    BY <1>3
<1> HIDE DEF less
<1>7. ASSUME NEW x \in i + 1 .. n, p[x] # Cross
      PROVE  \E l \in k .. L : \A m \in k .. L : less[m] = x <=> m = l
    <2>1. x \in i .. n /\ x # i
        BY <1>0 DEF n
    <2>2. PICK l \in j .. L : \A m \in j .. L : owner[m] = x <=> m = l
        BY <1>1, <1>7, <2>1
    <2>3. l \in k .. L
        BY <1>4, <2>1, <2>2
    <2> QED
        BY <1>3, <1>5, <2>2, <2>3
<1>8. Deals(less, p, q, i + 1, k)
    <2>1. \A l, m \in k .. L : l <= m => less[l] <= less[m]
        BY <1>1, <1>3, <1>5
    <2>2. \A l \in k .. L : p[less[l]] = Cross \/ SegmentMeaning(p[less[l]], q[l])
        BY <1>1, <1>3, <1>5
    <2> QED
        BY <1>6, <1>7, <2>1, <2>2 DEF Deals, n, L
<1> QED
    BY <1>3, <1>8 DEF L

\* Any other segment of the rule takes exactly the next one.
LEMMA SegmentTakes ==
    ASSUME NEW p \in Seq(Text), NEW q \in Seq(Text), NEW i \in 1 .. Len(p), NEW j \in 1 .. Len(q),
           SegmentMeaning(p[i], q[j]), NEW owner, Deals(owner, p, q, i + 1, j + 1)
    PROVE  \E all : Deals(all, p, q, i, j)
<1> DEFINE n == Len(p)
           L == Len(q)
           all == [l \in j .. L |-> IF l = j THEN i ELSE owner[l]]
<1>0. n \in Nat /\ L \in Nat
    OBVIOUS
<1> HIDE DEF n, L
<1>1. /\ j \in j .. L
      /\ \A l \in j .. L : \/ l = j /\ all[l] = i
                           \/ l \in j + 1 .. L /\ all[l] = owner[l] /\ owner[l] \in i + 1 .. n /\ l # j
    <2>1. j \in j .. L /\ \A l \in j .. L : l = j \/ (l \in j + 1 .. L /\ l # j)
        BY <1>0 DEF L
    <2>2. \A l \in j + 1 .. L : owner[l] \in i + 1 .. n
        BY DEF Deals, n, L
    <2> QED
        BY <2>1, <2>2
<1>2. all = [l \in j .. L |-> all[l]]
    OBVIOUS
<1> HIDE DEF all
<1>3. all \in [j .. L -> i .. n]
    <2>1. \A l \in j .. L : all[l] \in i .. n
        BY <1>0, <1>1 DEF n
    <2> QED
        BY <1>2, <2>1
<1>4. \A l, m \in j .. L : l <= m => all[l] <= all[m]
    <2>1. \A l, m \in j + 1 .. L : l <= m => owner[l] <= owner[m]
        BY DEF Deals, L
    <2> QED
        BY <1>0, <1>1, <2>1 DEF n, L
<1>5. \A l \in j .. L : p[all[l]] = Cross \/ SegmentMeaning(p[all[l]], q[l])
    <2>1. \A l \in j + 1 .. L : p[owner[l]] = Cross \/ SegmentMeaning(p[owner[l]], q[l])
        BY DEF Deals, L
    <2> QED
        BY <1>1, <2>1
<1>6. ASSUME NEW x \in i .. n, p[x] # Cross
      PROVE  \E l \in j .. L : \A m \in j .. L : all[m] = x <=> m = l
    <2>1. CASE x = i
        <3>1. \A m \in j .. L : all[m] = x <=> m = j
            BY <1>0, <1>1, <2>1 DEF n
        <3> QED
            BY <1>1, <3>1
    <2>2. CASE x # i
        <3>1. x \in i + 1 .. n
            BY <1>0, <2>2 DEF n
        <3>2. PICK l \in j + 1 .. L : \A m \in j + 1 .. L : owner[m] = x <=> m = l
            BY <1>6, <3>1 DEF Deals, n, L
        <3>3. l \in j .. L /\ l # j
            BY <1>0 DEF L
        <3>4. \A m \in j .. L : all[m] = x <=> m = l
            BY <1>1, <2>2, <3>2, <3>3
        <3> QED
            BY <3>3, <3>4
    <2> QED
        BY <2>1, <2>2
<1>7. Deals(all, p, q, i, j)
    BY <1>3, <1>4, <1>5, <1>6 DEF Deals, n, L
<1> QED
    BY <1>7

LEMMA SegmentGives ==
    ASSUME NEW p \in Seq(Text), NEW q \in Seq(Text), NEW i \in 1 .. Len(p), NEW j \in 1 .. Len(q) + 1,
           p[i] # Cross, NEW owner, Deals(owner, p, q, i, j)
    PROVE  /\ j \in 1 .. Len(q) /\ SegmentMeaning(p[i], q[j])
           /\ \E less : Deals(less, p, q, i + 1, j + 1)
<1> DEFINE n == Len(p)
           L == Len(q)
           less == [l \in j + 1 .. L |-> owner[l]]
<1>0. n \in Nat /\ L \in Nat /\ j \in Nat
    OBVIOUS
<1>1. /\ owner \in [j .. L -> i .. n]
      /\ \A l, k \in j .. L : l <= k => owner[l] <= owner[k]
      /\ \A l \in j .. L : p[owner[l]] = Cross \/ SegmentMeaning(p[owner[l]], q[l])
      /\ \A x \in i .. n : p[x] = Cross \/ \E l \in j .. L : \A k \in j .. L : owner[k] = x <=> k = l
    BY DEF Deals
<1> HIDE DEF n, L
<1>2. j \in 1 .. L /\ j \in j .. L /\ \A k \in j .. L : owner[k] = i <=> k = j
    <2>1. PICK l \in j .. L : \A k \in j .. L : owner[k] = i <=> k = l
        <3>1. i \in i .. n
            BY <1>0 DEF n
        <3> QED
            BY <1>1, <3>1
    <2>2. j \in 1 .. L /\ j \in j .. L /\ j <= l
        BY <1>0, <2>1 DEF L
    <2>3. owner[j] <= owner[l] /\ owner[l] = i /\ owner[j] \in i .. n
        BY <1>1, <2>1, <2>2
    <2>4. owner[j] = i
        BY <1>0, <2>3 DEF n
    <2> QED
        BY <2>1, <2>2, <2>4
<1>3. SegmentMeaning(p[i], q[j])
    BY <1>1, <1>2
<1>4. \A m \in j + 1 .. L : m \in j .. L /\ m # j /\ owner[m] \in i + 1 .. n
    <2>1. \A m \in j + 1 .. L : m \in j .. L /\ m # j
        BY <1>0
    <2>2. \A m \in j + 1 .. L : owner[m] \in i .. n /\ owner[m] # i
        BY <1>1, <1>2, <2>1
    <2> QED
        BY <1>0, <2>1, <2>2 DEF n
<1>5. \A l \in j + 1 .. L : less[l] = owner[l]
    OBVIOUS
<1>6. less \in [j + 1 .. L -> i + 1 .. n]
    BY <1>4
<1> HIDE DEF less
<1>7. ASSUME NEW x \in i + 1 .. n, p[x] # Cross
      PROVE  \E l \in j + 1 .. L : \A m \in j + 1 .. L : less[m] = x <=> m = l
    <2>1. x \in i .. n /\ x # i
        BY <1>0 DEF n
    <2>2. PICK l \in j .. L : \A m \in j .. L : owner[m] = x <=> m = l
        BY <1>1, <1>7, <2>1
    <2>3. l # j
        BY <1>2, <2>1, <2>2
    <2>4. l \in j + 1 .. L
        BY <1>0, <2>3
    <2> QED
        BY <1>4, <1>5, <2>2, <2>4
<1>8. Deals(less, p, q, i + 1, j + 1)
    <2>1. \A l, m \in j + 1 .. L : l <= m => less[l] <= less[m]
        BY <1>1, <1>4, <1>5
    <2>2. \A l \in j + 1 .. L : p[less[l]] = Cross \/ SegmentMeaning(p[less[l]], q[l])
        BY <1>1, <1>4, <1>5
    <2> QED
        BY <1>6, <1>7, <2>1, <2>2 DEF Deals, n, L
<1> QED
    BY <1>2, <1>3, <1>8 DEF L

\* What matchGlob computes for a rule p and a path q, from the last segment of
\* the rule to the first.
GlobRun(F, p, q) ==
    /\ F \in [1 .. Len(p) + 1 -> SUBSET (1 .. Len(q) + 1)]
    /\ F[Len(p) + 1] = {Len(q) + 1}
    /\ \A i \in 1 .. Len(p) :
           F[i] = IF p[i] = Cross
                  THEN {j \in 1 .. Len(q) + 1 :
                            i = Len(p) \/ \E k \in j .. Len(q) + 1 : k \in F[i + 1]}
                  ELSE {j \in 1 .. Len(q) : matchSegment(p[i], q[j]) /\ j + 1 \in F[i + 1]}

\* The recursion of matchGlob has a solution.
LEMMA GlobFromIs ==
    ASSUME NEW p \in Seq(Text), NEW q \in Seq(Text)
    PROVE  GlobRun(GlobFrom(p, q), p, q)
<1> DEFINE n == Len(p)
           Step(next, i) ==
               IF p[i] = Cross
               THEN {j \in 1 .. Len(q) + 1 : i = n \/ \E k \in j .. Len(q) + 1 : k \in next}
               ELSE {j \in 1 .. Len(q) : matchSegment(p[i], q[j]) /\ j + 1 \in next}
           Body(f) == [i \in 1 .. n + 1 |-> IF i > n THEN {Len(q) + 1} ELSE Step(f[i + 1], i)]
           V == SUBSET (1 .. Len(q) + 1)
           end == {Len(q) + 1}
           step == [i \in 1 .. n |-> [next \in V |-> Step(next, i)]]
           sol == CHOOSE f : f = Body(f)
<1>0. n \in Nat /\ Len(q) \in Nat
    OBVIOUS
<1>1. GlobFrom(p, q) = sol
    BY DEF GlobFrom
<1>2. end \in V /\ \A i \in 1 .. n : \A next : Step(next, i) \in V
    <2>1. 1 .. Len(q) \subseteq 1 .. Len(q) + 1 /\ Len(q) + 1 \in 1 .. Len(q) + 1
        BY <1>0
    <2> QED
        BY <2>1
<1> HIDE DEF Step, V, n, end
<1>3. /\ step \in Loops(V, n)
      /\ \A i \in 1 .. n, next \in V : step[i][next] = Step(next, i)
    BY <1>2 DEF Loops
<1> HIDE DEF step
<1>4. PICK f : IsRunDown(f, V, end, n, step)
    BY <1>0, <1>2, <1>3, IteratesDown
<1>5. f = Body(f)
    <2>1. \A i \in 1 .. n : f[i + 1] \in V
        BY <1>0, <1>4 DEF IsRunDown
    <2>2. \A i \in 1 .. n : f[i] = Step(f[i + 1], i)
        BY <1>3, <1>4, <2>1 DEF IsRunDown
    <2>3. \A i \in 1 .. n + 1 : f[i] = IF i > n THEN {Len(q) + 1} ELSE Step(f[i + 1], i)
        <3>1. f[n + 1] = {Len(q) + 1}
            BY <1>4 DEF IsRunDown, end
        <3>2. \A i \in 1 .. n + 1 : (i \in 1 .. n /\ ~(i > n)) \/ (i = n + 1 /\ i > n)
            BY <1>0
        <3> QED
            BY <2>2, <3>1, <3>2
    <2>4. f = [i \in 1 .. n + 1 |-> f[i]]
        BY <1>4 DEF IsRunDown
    <2> QED
        BY <2>3, <2>4
<1> HIDE DEF Body
<1>6. sol = Body(sol)
    BY <1>5
<1> HIDE DEF sol
<1>7. /\ sol = [i \in 1 .. n + 1 |-> sol[i]]
      /\ sol[n + 1] = end /\ \A i \in 1 .. n : sol[i] = Step(sol[i + 1], i)
    <2>1. \A i \in 1 .. n : i \in 1 .. n + 1 /\ ~(i > n)
        BY <1>0
    <2>2. n + 1 \in 1 .. n + 1 /\ n + 1 > n
        BY <1>0
    <2>3. \A i \in 1 .. n + 1 : sol[i] = IF i > n THEN {Len(q) + 1} ELSE Step(sol[i + 1], i)
        BY <1>6, Zenon DEF Body
    <2>4. sol = [i \in 1 .. n + 1 |-> sol[i]]
        BY <1>6 DEF Body
    <2> QED
        BY <2>1, <2>2, <2>3, <2>4 DEF end
<1>9. \A i \in 1 .. n + 1 : sol[i] \in V
    <2>1. \A i \in 1 .. n + 1 : i \in 1 .. n \/ i = n + 1
        BY <1>0
    <2> QED
        BY <1>2, <1>7, <2>1
<1>10. sol \in [1 .. n + 1 -> V]
    BY <1>7, <1>9
<1> QED
    BY <1>1, <1>7, <1>10 DEF GlobRun, n, Step, V, end

\* The rule from its i-th segment on matches the path from its j-th on exactly
\* if the latter can be dealt out to the former.
LEMMA GlobDeals ==
    ASSUME NEW p \in Seq(Text), NEW q \in Seq(Text)
    PROVE  \A j \in 1 .. Len(q) + 1 :
               j \in GlobFrom(p, q)[1] <=> \E owner : Deals(owner, p, q, 1, j)
<1> DEFINE n == Len(p)
           L == Len(q)
           F == GlobFrom(p, q)
           Right(i) == \A j \in 1 .. L + 1 : j \in F[i] <=> \E owner : Deals(owner, p, q, i, j)
           S == {d \in 0 .. n : Right((n + 1) - d)}
<1>0. n \in Nat /\ L \in Nat /\ GlobRun(F, p, q)
    BY GlobFromIs
<1> HIDE DEF F
<1>1. Right(n + 1)
    <2> SUFFICES ASSUME NEW j \in 1 .. L + 1
                 PROVE  j \in F[n + 1] <=> \E owner : Deals(owner, p, q, n + 1, j)
        OBVIOUS
    <2>1. j \in F[n + 1] <=> j = L + 1
        BY <1>0 DEF GlobRun
    <2>2. ASSUME j = L + 1 PROVE \E owner : Deals(owner, p, q, n + 1, j)
        <3> DEFINE none == [l \in j .. L |-> n + 1]
        <3>1. (\A l \in j .. L : FALSE) /\ (\A x \in n + 1 .. n : FALSE)
            BY <1>0, <2>2
        <3>2. none \in [j .. L -> n + 1 .. n]
            BY <3>1
        <3>3. Deals(none, p, q, n + 1, j)
            BY <3>1, <3>2 DEF Deals
        <3> QED
            BY <3>3
    <2>3. ASSUME NEW owner, Deals(owner, p, q, n + 1, j) PROVE j = L + 1
        <3>1. owner \in [j .. L -> n + 1 .. n] /\ \A x \in n + 1 .. n : FALSE
            BY <1>0, <2>3 DEF Deals
        <3>2. j \notin j .. L
            BY <3>1
        <3> QED
            BY <1>0, <3>2
    <2> QED
        BY <2>1, <2>2, <2>3
<1>2. ASSUME NEW i \in 1 .. n, Right(i + 1)
      PROVE  Right(i)
    <2> SUFFICES ASSUME NEW j \in 1 .. L + 1
                 PROVE  j \in F[i] <=> \E owner : Deals(owner, p, q, i, j)
        OBVIOUS
    <2>1. CASE p[i] = Cross
        <3>1. j \in F[i] <=> i = n \/ \E k \in j .. L + 1 : k \in F[i + 1]
            BY <1>0, <2>1 DEF GlobRun
        <3>2. i = n => L + 1 \in j .. L + 1 /\ L + 1 \in F[i + 1]
            BY <1>0 DEF GlobRun
        <3>3. \A k \in j .. L + 1 : k \in 1 .. L + 1
            BY <1>0
        <3>4. \A k \in j .. L + 1 : k \in F[i + 1] <=> \E owner : Deals(owner, p, q, i + 1, k)
            BY <1>2, <3>3
        <3>5. ASSUME NEW k \in j .. L + 1, NEW owner, Deals(owner, p, q, i + 1, k)
              PROVE  \E all : Deals(all, p, q, i, j)
            BY <2>1, <3>5, CrossTakes
        <3>6. ASSUME NEW owner, Deals(owner, p, q, i, j)
              PROVE  \E k \in j .. L + 1 : \E less : Deals(less, p, q, i + 1, k)
            BY <2>1, <3>6, CrossGives
        <3>7. j \in F[i] <=> \E k \in j .. L + 1 : k \in F[i + 1]
            BY <3>1, <3>2
        <3> HIDE DEF n, L
        <3> QED
            BY <3>4, <3>5, <3>6, <3>7
    <2>2. CASE p[i] # Cross
        <3>1. F[i] = {k \in 1 .. L : matchSegment(p[i], q[k]) /\ k + 1 \in F[i + 1]}
            BY <1>0, <2>2 DEF GlobRun
        <3>2. \A k \in 1 .. L :
                  /\ k + 1 \in 1 .. L + 1
                  /\ matchSegment(p[i], q[k]) = SegmentMeaning(p[i], q[k])
            BY <1>0, SegmentMeans
        <3>3. j \in F[i] <=> /\ j \in 1 .. L /\ SegmentMeaning(p[i], q[j])
                             /\ \E owner : Deals(owner, p, q, i + 1, j + 1)
            BY <1>2, <3>1, <3>2
        <3>4. ASSUME j \in 1 .. L, SegmentMeaning(p[i], q[j]),
                     NEW owner, Deals(owner, p, q, i + 1, j + 1)
              PROVE  \E all : Deals(all, p, q, i, j)
            BY <3>4, SegmentTakes
        <3>5. ASSUME NEW owner, Deals(owner, p, q, i, j)
              PROVE  /\ j \in 1 .. L /\ SegmentMeaning(p[i], q[j])
                     /\ \E less : Deals(less, p, q, i + 1, j + 1)
            BY <2>2, <3>5, SegmentGives
        <3> HIDE DEF n, L
        <3> QED
            BY <3>3, <3>4, <3>5
    <2> QED
        BY <2>1, <2>2
<1> HIDE DEF Right
<1>3. 0 \in S /\ \A d \in 0 .. n - 1 : d \in S => d + 1 \in S
    <2>1. 0 \in 0 .. n /\ (n + 1) - 0 = n + 1
        BY <1>0
    <2>2. ASSUME NEW d \in 0 .. n - 1, d \in S PROVE d + 1 \in S
        <3> DEFINE i == n - d
        <3>1. i \in 1 .. n /\ (n + 1) - d = i + 1 /\ (n + 1) - (d + 1) = i /\ d + 1 \in 0 .. n
            BY <1>0
        <3>2. Right(i + 1)
            BY <2>2, <3>1
        <3> HIDE DEF i
        <3> QED
            BY <1>2, <3>1, <3>2
    <2> QED
        BY <1>1, <2>1, <2>2
<1>4. Right(1)
    <2> HIDE DEF S, n
    <2>1. n \in S
        <3>1. \A d \in 0 .. n : d \in S
            BY <1>0, <1>3, UpTo
        <3> QED
            BY <1>0, <3>1
    <2>2. (n + 1) - n = 1
        BY <1>0
    <2> QED
        BY <2>1, <2>2 DEF S
<1> QED
    BY <1>4 DEF Right, F

\* matchGlob is what the rule means, for every rule and path.
LEMMA GlobMeans ==
    ASSUME NEW p \in Seq(Text), NEW q \in Seq(Text)
    PROVE  matchGlob(p, q) = GlobMeaning(p, q)
<1>1. DOMAIN p = 1 .. Len(p) /\ DOMAIN q = 1 .. Len(q) /\ 1 \in 1 .. Len(q) + 1
    OBVIOUS
<1>2. matchGlob(p, q) <=> \E owner : Deals(owner, p, q, 1, 1)
    BY <1>1, GlobDeals DEF matchGlob
<1>3. GlobMeaning(p, q) <=> \E owner : Deals(owner, p, q, 1, 1)
    <2>1. GlobMeaning(p, q) <=>
              \E owner \in [1 .. Len(q) -> 1 .. Len(p)] : Deals(owner, p, q, 1, 1)
        <3> DEFINE Fair(owner) ==
                       /\ \A j, k \in DOMAIN q : j <= k => owner[j] <= owner[k]
                       /\ \A j \in DOMAIN q :
                              p[owner[j]] = Cross \/ SegmentMeaning(p[owner[j]], q[j])
                       /\ \A i \in DOMAIN p :
                              p[i] = Cross \/ \E j \in DOMAIN q :
                                                       \A k \in DOMAIN q : owner[k] = i <=> k = j
        <3>1. GlobMeaning(p, q) <=> \E owner \in [DOMAIN q -> DOMAIN p] : Fair(owner)
            BY Zenon DEF GlobMeaning
        <3>2. ASSUME NEW owner \in [1 .. Len(q) -> 1 .. Len(p)]
              PROVE  Fair(owner) <=> Deals(owner, p, q, 1, 1)
            <4>1. (\A j, k \in DOMAIN q : j <= k => owner[j] <= owner[k])
                      <=> \A l, k \in 1 .. Len(q) : l <= k => owner[l] <= owner[k]
                BY <1>1, Zenon
            <4>2. (\A j \in DOMAIN q :
                       p[owner[j]] = Cross \/ SegmentMeaning(p[owner[j]], q[j]))
                      <=> \A l \in 1 .. Len(q) :
                              p[owner[l]] = Cross \/ SegmentMeaning(p[owner[l]], q[l])
                BY <1>1, Zenon
            <4>3. (\A i \in DOMAIN p :
                       p[i] = Cross \/ \E j \in DOMAIN q : \A k \in DOMAIN q : owner[k] = i <=> k = j)
                      <=> \A x \in 1 .. Len(p) :
                              \/ p[x] = Cross
                              \/ \E l \in 1 .. Len(q) : \A k \in 1 .. Len(q) : owner[k] = x <=> k = l
                <5> DEFINE Only(D, x) == \E l \in D : \A k \in D : owner[k] = x <=> k = l
                <5>1. \A x : Only(DOMAIN q, x) <=> Only(1 .. Len(q), x)
                    BY <1>1
                <5> HIDE DEF Only
                <5>2. (\A i \in DOMAIN p : p[i] = Cross \/ Only(DOMAIN q, i))
                          <=> \A x \in 1 .. Len(p) : p[x] = Cross \/ Only(1 .. Len(q), x)
                    BY <1>1, <5>1, Zenon
                <5> QED
                    BY <5>2, Zenon DEF Only
            <4> QED
                BY <4>1, <4>2, <4>3, Zenon DEF Deals
        <3> HIDE DEF Fair
        <3> QED
            BY <1>1, <3>1, <3>2, Zenon
    <2>2. \A owner : Deals(owner, p, q, 1, 1) => owner \in [1 .. Len(q) -> 1 .. Len(p)]
        BY DEF Deals
    <2> QED
        BY <2>1, <2>2, Zenon
<1>4. matchGlob(p, q) \in BOOLEAN
    BY DEF matchGlob
<1>5. GlobMeaning(p, q) \in BOOLEAN
    BY Zenon DEF GlobMeaning
<1> QED
    BY <1>2, <1>3, <1>4, <1>5

\* For any segments, matchGlob accepts exactly the paths whose segments can be
\* dealt out in order to the rule's: any number to "**", one to every other.
THEOREM RulesMatchTheirMeaning == InputSpec => []GlobAgrees
<1> DEFINE Inv == glob \in [1 .. 2 -> Seq(Text)]
<1>0. PatternSegs \subseteq Text /\ PathSegs \subseteq Text
    <2>1. \A t \in Seq(STRING) : t \in Text
        <3>1. STRING \subseteq Characters
            BY DEF Characters
        <3>2. \A A, B : A \subseteq B => \A t \in Seq(A) : t \in Seq(B)
            OBVIOUS
        <3> QED
            BY <3>1, <3>2, Zenon DEF Text
    <2> QED
        BY <2>1, SegmentsAssumption, Zenon
<1>1. InputInit => Inv
    <2>1. <<>> \in Seq(Text)
        OBVIOUS
    <2>2. ASSUME NEW A, NEW none \in A PROVE <<none, none>> \in [1 .. 2 -> A]
        OBVIOUS
    <2> QED
        BY <2>1, <2>2, Zenon DEF InputInit
<1>2. Inv /\ [InputNext]_inputs => Inv'
    <2> SUFFICES ASSUME Inv, [InputNext]_inputs PROVE Inv'
        OBVIOUS
    <2>1. ASSUME NEW i \in 1 .. 2, GrowGlob(i) PROVE Inv'
        <3>1. PICK c \in IF i = 1 THEN PatternSegs ELSE PathSegs :
                  glob' = [glob EXCEPT ![i] = Append(@, c)]
            BY <2>1, Zenon DEF GrowGlob
        <3>2. c \in Text
            BY <1>0
        <3>3. \A t \in Seq(Text) : Append(t, c) \in Seq(Text)
            BY <3>2
        <3> QED
            BY <3>1, <3>3
    <2>2. ASSUME UNCHANGED glob PROVE Inv'
        BY <2>2
    <2> QED
        BY <2>1, <2>2 DEF InputNext, GrowChars, GrowTarget, inputs
<1>3. Inv => GlobAgrees
    BY GlobMeans DEF GlobAgrees
<1> QED
    BY <1>1, <1>2, <1>3, PTL DEF InputSpec
=============================================================================
