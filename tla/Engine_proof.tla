----------------------------- MODULE Engine_proof -----------------------------
(****************************************************************************)
(* What the proofs about policy sets and about the relay need to know of    *)
(* the engine: what a set of policies grants is the union of what its       *)
(* members grant, the grant that is met first is one of them, and so each   *)
(* decision is that of one policy, which by itself decides alike.           *)
(****************************************************************************)
EXTENDS Engine, WellFoundedInduction, TLAPS

\* A set of policies matches what its members match.
LEMMA MatchedIsUnion ==
    ASSUME NEW P, NEW id, NEW host, NEW port, NEW g
    PROVE  g \in Matched(P, id, host, port) <=>
               \E pol \in P : g \in Matched({pol}, id, host, port)
<1> DEFINE Of(pol) == {Grant(pol, i) : i \in {j \in DOMAIN pol.dests :
                                               /\ MatchHost(pol.dests[j].host, host)
                                               /\ MatchPort(pol.dests[j].ports, port)}}
<1>1. ASSUME NEW Q
      PROVE g \in Matched(Q, id, host, port) <=> \E pol \in Q : Selects(pol, id) /\ g \in Of(pol)
    BY DEF Matched
<1> HIDE DEF Of
<1>2. \A pol : g \in Matched({pol}, id, host, port) <=> Selects(pol, id) /\ g \in Of(pol)
    BY <1>1
<1> QED
    BY <1>1, <1>2

-----------------------------------------------------------------------------
(* First. *)

\* A set of numbers has a least one.
LEMMA LeastNumber ==
    ASSUME NEW T, T \subseteq Nat, T # {}
    PROVE  \E n \in T : \A m \in T : n <= m
<1> DEFINE R == OpToRel(<, Nat)
<1>1. IsWellFoundedOn(R, Nat)
    BY NatLessThanWellFounded
<1>2. \A m, n \in Nat : <<m, n>> \in R <=> m < n
    BY DEF OpToRel
<1> HIDE DEF R
<1>3. PICK n \in T : \A m \in T : ~(<<m, n>> \in R)
    BY <1>1, WFMin
<1>4. \A m \in T : ~(m < n)
    BY <1>2, <1>3, Zenon
<1> QED
    BY <1>4

\* Hosts have one of four ranks.
LEMMA Ranks == ASSUME NEW p PROVE hostSpecificity(p) \in 0 .. 3
<1>1. hostSpecificity(p) \in {0, 1, 2, 3}
    BY Zenon DEF hostSpecificity
<1> QED
    BY <1>1

\* Grants that the order of AuthorizeConnect tells apart.
Ranked(grants) ==
    /\ \A g \in grants : g.policy \in Nat /\ g.idx \in Nat
    /\ \A g, h \in grants : g.policy = h.policy /\ g.idx = h.idx => g = h

\* Of the highest rank, of the least name, the least index.
LEMMA FirstIsMember ==
    ASSUME NEW grants, grants # {}, Ranked(grants)
    PROVE  First(grants) \in grants
<1> DEFINE Rank(g) == hostSpecificity(g.dst.host)
           Below3 == {3 - Rank(g) : g \in grants}
<1>1. \A g \in grants : Rank(g) \in 0 .. 3 /\ g.policy \in Nat /\ g.idx \in Nat
    BY Ranks DEF Ranked
<1>2. \A g, h : Before(g, h) <=>
          LET less(a, b) == Rank(a) > Rank(b) \/ (Rank(a) = Rank(b) /\ a.policy < b.policy)
          IN  less(g, h) \/ (~less(h, g) /\ g.idx < h.idx)
    BY DEF Before, Less
<1> HIDE DEF Rank
<1>3. PICK a \in grants : \A h \in grants : Rank(h) <= Rank(a)
    <2>1. Below3 \subseteq Nat /\ Below3 # {}
        BY <1>1
    <2>2. PICK n \in Below3 : \A m \in Below3 : n <= m
        BY <2>1, LeastNumber
    <2> QED
        BY <1>1, <2>2
<1> DEFINE top == {g \in grants : Rank(g) = Rank(a)}
           names == {g.policy : g \in top}
<1>4. PICK b \in top : \A h \in top : b.policy <= h.policy
    <2>1. names \subseteq Nat /\ names # {}
        BY <1>1
    <2>2. PICK n \in names : \A m \in names : n <= m
        BY <2>1, LeastNumber
    <2> QED
        BY <2>2
<1> DEFINE own == {g \in top : g.policy = b.policy}
           places == {g.idx : g \in own}
<1>5. PICK c \in own : \A h \in own : c.idx <= h.idx
    <2>1. places \subseteq Nat /\ places # {}
        BY <1>1
    <2>2. PICK n \in places : \A m \in places : n <= m
        BY <2>1, LeastNumber
    <2> QED
        BY <2>2
<1>6. ASSUME NEW h \in grants \ {c}
      PROVE  Before(c, h)
    <2>1. c \in grants /\ Rank(c) = Rank(a) /\ c.policy = b.policy
        OBVIOUS
    <2>2. CASE Rank(h) < Rank(c)
        BY <1>1, <1>2, <2>1, <2>2
    <2>3. CASE Rank(h) = Rank(c) /\ h.policy # c.policy
        <3>1. c.policy <= h.policy
            BY <1>4, <2>1, <2>3
        <3> QED
            BY <1>1, <1>2, <2>1, <2>3, <3>1
    <2>4. CASE Rank(h) = Rank(c) /\ h.policy = c.policy
        <3>1. c.idx <= h.idx /\ c.idx # h.idx
            BY <1>5, <2>1, <2>4 DEF Ranked
        <3> QED
            BY <1>1, <1>2, <2>1, <2>4, <3>1
    <2> QED
        BY <1>1, <1>3, <2>1, <2>2, <2>3, <2>4
<1>7. c \in grants /\ \A h \in grants \ {c} : Before(c, h)
    BY <1>6
<1> HIDE DEF top, own
<1> QED
    BY <1>7, Zenon DEF First

-----------------------------------------------------------------------------
(* Decisions. *)

\* A matched grant is one of a policy that matches it alone, and the grants of
\* named policies can be told apart.
LEMMA MatchedRanked ==
    ASSUME NEW P, UniqueNames(P), NEW id, NEW host, NEW port, NEW S, S \subseteq Matched(P, id, host, port)
    PROVE  Ranked(S)
<1>1. \A g \in S : \E pol \in P : \E i \in DOMAIN pol.dests : g = Grant(pol, i)
    BY DEF Matched
<1>2. \A pol, i : Grant(pol, i).policy = pol.name /\ Grant(pol, i).idx = i
    BY DEF Grant
<1> QED
    BY <1>1, <1>2 DEF Ranked, UniqueNames

\* A decision that allows comes from an evaluation without errors, and so would
\* the decision of any of the policies.
LEMMA AllowedMeaning ==
    ASSUME NEW P, NEW id, NEW host, NEW port, AuthorizeConnect(P, id, host, port).allowed,
           NEW Q, Q \subseteq P
    PROVE  /\ AuthorizeConnect(Q, id, host, port).matched = Matched(Q, id, host, port)
           /\ AuthorizeConnect(Q, id, host, port).allowed <=> Matched(Q, id, host, port) # {}
<1>1. ~\E pol \in P : SelectorError(pol, id)
    BY DEF AuthorizeConnect
<1>2. ~\E pol \in Q : SelectorError(pol, id)
    BY <1>1
<1> QED
    BY <1>2 DEF AuthorizeConnect

\* The policy that a connect decision names grants the connection by itself.
LEMMA ConnectGranter ==
    ASSUME NEW P, UniqueNames(P), NEW id, NEW host, NEW port,
           NEW dec, dec = AuthorizeConnect(P, id, host, port), dec.allowed
    PROVE  \E pol \in P : /\ pol.name = firstPolicy(dec) /\ pol.upstream = dec.upstream
                          /\ AuthorizeConnect({pol}, id, host, port).allowed
<1> DEFINE M == Matched(P, id, host, port)
<1>1. dec.matched = M /\ M # {}
    BY AllowedMeaning
<1>2. dec.upstream = First(M).upstream /\ firstPolicy(dec) = First(M).policy
    BY <1>1 DEF AuthorizeConnect, firstPolicy
<1>3. First(M) \in M
    BY <1>1, MatchedRanked, FirstIsMember
<1>4. PICK pol \in P : First(M) \in Matched({pol}, id, host, port)
    BY <1>3, MatchedIsUnion
<1> HIDE DEF M
<1>5. First(M).policy = pol.name /\ First(M).upstream = pol.upstream
    BY <1>4 DEF Matched, Grant
<1>6. AuthorizeConnect({pol}, id, host, port).allowed
    BY <1>4, AllowedMeaning
<1> QED
    BY <1>2, <1>5, <1>6

\* The policy that a request decision names allows the request by itself.
LEMMA RequestGranter ==
    ASSUME NEW P, UniqueNames(P), NEW id, NEW host, NEW port, NEW target, NEW method, NEW upgrade,
           AuthorizeRequest(AuthorizeConnect(P, id, host, port), target, method, upgrade).allowed
    PROVE  LET rdec == AuthorizeRequest(AuthorizeConnect(P, id, host, port), target, method, upgrade)
           IN  \E pol \in P :
                   /\ pol.name = rdec.policy /\ pol.upstream = rdec.upstream
                   /\ AuthorizeRequest(AuthorizeConnect({pol}, id, host, port), target, method, upgrade).allowed
                   /\ Selects(pol, id)
                   /\ \E i \in DOMAIN pol.dests :
                          /\ MatchHost(pol.dests[i].host, host) /\ MatchPort(pol.dests[i].ports, port)
                          /\ GrantAllows(Grant(pol, i), NormalizePath(target).segs, method, upgrade)
<1> DEFINE dec == AuthorizeConnect(P, id, host, port)
           rdec == AuthorizeRequest(dec, target, method, upgrade)
           M == Matched(P, id, host, port)
           path == NormalizePath(target)
           allow == {g \in dec.matched : GrantAllows(g, path.segs, method, upgrade)}
<1>1. /\ dec.allowed /\ path.ok /\ allow # {}
      /\ rdec.policy = First(allow).policy /\ rdec.upstream = First(allow).upstream
    BY DEF AuthorizeRequest, DeniedRequest
<1>2. dec.matched = M
    BY <1>1, AllowedMeaning
<1>3. First(allow) \in allow
    BY <1>1, <1>2, MatchedRanked, FirstIsMember
<1>4. First(allow) \in M /\ GrantAllows(First(allow), path.segs, method, upgrade)
    BY <1>2, <1>3
<1> HIDE DEF allow, path
<1>5. PICK pol \in P : First(allow) \in Matched({pol}, id, host, port)
    BY <1>4, MatchedIsUnion
<1>6. First(allow).policy = pol.name /\ First(allow).upstream = pol.upstream
    BY <1>5 DEF Matched, Grant
<1>7. /\ AuthorizeConnect({pol}, id, host, port).matched = Matched({pol}, id, host, port)
      /\ AuthorizeConnect({pol}, id, host, port).allowed
    BY <1>1, <1>5, AllowedMeaning
<1>8. AuthorizeRequest(AuthorizeConnect({pol}, id, host, port), target, method, upgrade).allowed
    BY <1>1, <1>4, <1>5, <1>7 DEF AuthorizeRequest, path
<1>9. /\ Selects(pol, id)
      /\ \E i \in DOMAIN pol.dests :
             /\ First(allow) = Grant(pol, i)
             /\ MatchHost(pol.dests[i].host, host) /\ MatchPort(pol.dests[i].ports, port)
    BY <1>5 DEF Matched
<1> QED
    BY <1>1, <1>4, <1>6, <1>8, <1>9 DEF path
=============================================================================
