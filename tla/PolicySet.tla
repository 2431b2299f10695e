------------------------------ MODULE PolicySet ------------------------------
(****************************************************************************)
(* The set of EgressPolicy objects as its authors change it, and what the   *)
(* engine answers about it.  Policies come and go one object at a time; the *)
(* properties are about every set reached on the way.                       *)
(****************************************************************************)
EXTENDS Engine

CONSTANTS
    Pool,         \* the policies authors may create
    Identities,   \* workloads: [nsLabels, podLabels]
    Requests      \* requests: [host, port, target, method, upgrade]

\* Object names are unique, destinations are a list, and the API admits two
\* modes; selectors may be malformed.
ASSUME PoolAssumption ==
    /\ UniqueNames(Pool)
    /\ \A pol \in Pool : pol.dests \in Seq(Range(pol.dests))
    /\ \A pol \in Pool : \A i \in DOMAIN pol.dests : pol.dests[i].mode \in {"tunnel", "inspect"}

ASSUME RequestsAssumption ==
    Requests \subseteq [host : Seq(STRING), port : Nat, target : Targets, method : STRING, upgrade : BOOLEAN]

VARIABLE policies

Init == policies = {}

Create(pol) ==
    /\ pol \notin policies
    /\ policies' = policies \cup {pol}

Delete(pol) ==
    /\ pol \in policies
    /\ policies' = policies \ {pol}

Next == \E pol \in Pool : Create(pol) \/ Delete(pol)

Spec == Init /\ [][Next]_policies

-----------------------------------------------------------------------------
\* Both stages for one request on a connection of its own.
Connect(P, id, req) == AuthorizeConnect(P, id, req.host, req.port)

Decision(P, id, req) ==
    AuthorizeRequest(Connect(P, id, req), req.target, req.method, req.upgrade)

Permitted(P, id, req) == Decision(P, id, req).allowed

\* docs/policy.md: "Grants are additive ... a request is allowed if any rule
\* allows it."  The two stages of AuthorizeConnect and AuthorizeRequest
\* together allow a request exactly when some single policy would and no
\* selector that is looked at for the workload is malformed: one such object
\* denies whatever the others grant, but only to the workloads it is looked at
\* for, and it never grants anything.
AllowedIffSomePolicyAllows ==
    \A id \in Identities, req \in Requests :
        Permitted(policies, id, req) <=>
            /\ \A pol \in policies : ~SelectorError(pol, id)
            /\ \E pol \in policies : Permitted({pol}, id, req)

\* docs/policy.md: "The upstream profile used is the one belonging to the
\* policy whose rule matched."  The policy and profile of a request decision
\* are those of a policy that by itself allows the request.
AttributedToGranter ==
    \A id \in Identities, req \in Requests :
        LET rdec == Decision(policies, id, req)
        IN  rdec.allowed => \E pol \in policies :
                                /\ pol.name = rdec.policy /\ pol.upstream = rdec.upstream
                                /\ Permitted({pol}, id, req)

\* A connection is inspected exactly when some policy alone would have it
\* inspected, whatever grants rank above that policy's, and the evaluation does
\* not fail (AuthorizeConnect).
InspectionWins ==
    \A id \in Identities, req \in Requests :
        Connect(policies, id, req).mode = "inspect" <=>
            /\ \A pol \in policies : ~SelectorError(pol, id)
            /\ \E pol \in policies : Connect({pol}, id, req).mode = "inspect"

\* The destination covers the request and asks for its upgrade to pass: it is a
\* whole host that is only tunnelled, or its rule for the path and method says
\* allowUpgrade.
MeansUpgrade(dest, req) ==
    /\ MatchHost(dest.host, req.host) /\ MatchPort(dest.ports, req.port)
    /\ \/ dest.mode = "tunnel" /\ dest.paths = <<>>
       \/ \E k \in DOMAIN dest.paths :
              /\ MatchPath(dest.paths[k].path, dest.paths[k].exact, NormalizePath(req.target).segs)
              /\ MatchMethod(dest.paths[k].methods, req.method)
              /\ dest.paths[k].upgrade

\* An upgrade is never a by-product of rules written for plain requests: it is
\* allowed only if the same request without it is, and then the policy the
\* decision names selects the workload and has a destination that covers this
\* very request and means its upgrade to pass (AuthorizeRequest, allowUpgrade).
UpgradeIsDeliberate ==
    \A id \in Identities, req \in Requests :
        (req.upgrade /\ Permitted(policies, id, req)) =>
            /\ Permitted(policies, id, [req EXCEPT !.upgrade = FALSE])
            /\ \E pol \in policies :
                   /\ pol.name = Decision(policies, id, req).policy /\ Selects(pol, id)
                   /\ \E i \in DOMAIN pol.dests : MeansUpgrade(pol.dests[i], req)

\* A workload whose connections are inspected lives in a namespace the CA
\* bundle controller publishes the relay CA to: the engine and the controller
\* read the same selectors the same way.
InspectedGetsCA ==
    \A id \in Identities, req \in Requests :
        Connect(policies, id, req).mode = "inspect" => MatchesAny(policies, id.nsLabels)

-----------------------------------------------------------------------------
\* The loop of AuthorizeConnect over the destinations of one policy.
Hits(pol, id, req) ==
    LET grants == Matched({pol}, id, req.host, req.port)
        seq[i \in 0 .. Len(pol.dests)] ==
            IF i = 0 THEN <<>>
            ELSE IF Grant(pol, i) \in grants THEN Append(seq[i - 1], Grant(pol, i))
            ELSE seq[i - 1]
    IN  seq[Len(pol.dests)]

\* The loop over the policies in the order the cache lists them.
Listed(list, id, req) ==
    LET seq[i \in 0 .. Len(list)] ==
            IF i = 0 THEN <<>> ELSE seq[i - 1] \o Hits(list[i], id, req)
    IN  seq[Len(list)]

\* Where element i of seq comes to stand in a stable sort: elements that compare
\* equal keep their order.
Place(seq, i) ==
    Cardinality({j \in DOMAIN seq : \/ j = i \/ Less(seq[j], seq[i])
                                    \/ ~Less(seq[i], seq[j]) /\ j < i})

\* sort.SliceStable
SliceStable(seq) ==
    [k \in DOMAIN seq |-> seq[CHOOSE i \in DOMAIN seq : Place(seq, i) = k]]

\* engine.go: the chosen upstream "is stable across relay replicas and
\* restarts".  Whatever order a cache lists the policies in, the sorted grants
\* are the matched ones in the order First uses, so they are the same sequence.
StableAcrossReplicas ==
    \A id \in Identities, req \in Requests :
        \A list \in SetToSeqs({pol \in policies : Selects(pol, id)}) :
        LET sorted == SliceStable(Listed(list, id, req))
        IN  /\ Range(sorted) = Matched(policies, id, req.host, req.port)
            /\ \A i, j \in DOMAIN sorted : i < j => Before(sorted[i], sorted[j])
=============================================================================
