------------------------------ MODULE LeafSource ------------------------------
(****************************************************************************)
(* What a TLS handshake is promised by Issuer.Certificate, cache or no      *)
(* cache: a leaf for the name it asked for, signed by a CA that was current *)
(* at some moment of the call, with at least half its life ahead of it when *)
(* the call began; or an error.                                             *)
(****************************************************************************)
EXTENDS Integers

CONSTANTS
    Callers,     \* concurrent handshakes
    Names,       \* names clients ask for, as they spell them
    Host(_),     \* the host a name stands for, NoHost for a blank one
    NoHost,
    Validity     \* life of a leaf, in ticks

VARIABLES
    bundle,      \* the current CA: how many have been loaded
    now,         \* the clock
    call         \* per caller: [pc, name, since, from, leaf]

vars == <<bundle, now, call>>

NoLeaf == [host |-> NoHost, signer |-> 0, notAfter |-> 0]
Quiet == [pc |-> "idle", name |-> NoHost, since |-> 0, from |-> 0, leaf |-> NoLeaf]
Asked(n) == [pc |-> "asked", name |-> n, since |-> now, from |-> bundle, leaf |-> NoLeaf]
Answered(leaf) == [pc |-> "answered", name |-> NoHost, since |-> 0, from |-> 0, leaf |-> leaf]

Init ==
    /\ bundle = 1 /\ now = 0
    /\ call = [c \in Callers |-> Quiet]

Rotate == bundle' = bundle + 1 /\ UNCHANGED <<now, call>>

Tick == now' = now + 1 /\ UNCHANGED <<bundle, call>>

Ask(c) ==
    /\ call[c].pc # "asked"
    /\ \E n \in Names : call' = [call EXCEPT ![c] = Asked(n)]
    /\ UNCHANGED <<bundle, now>>

Promised(q, leaf) ==
    /\ leaf.host = Host(q.name) /\ leaf.host # NoHost
    /\ leaf.signer \in q.from .. bundle
    /\ leaf.notAfter > q.since + Validity \div 2

Answer(c) ==
    /\ call[c].pc = "asked"
    /\ \E leaf \in [host : {Host(n) : n \in Names}, signer : 1 .. bundle, notAfter : 1 .. now + Validity] :
           /\ Promised(call[c], leaf)
           /\ call' = [call EXCEPT ![c] = Answered(leaf)]
    /\ UNCHANGED <<bundle, now>>

Fail(c) ==
    /\ call[c].pc = "asked"
    /\ call' = [call EXCEPT ![c] = Quiet]
    /\ UNCHANGED <<bundle, now>>

Next ==
    \/ Rotate \/ Tick
    \/ \E c \in Callers : Ask(c) \/ Answer(c) \/ Fail(c)

\* Every call returns.
Spec ==
    /\ Init /\ [][Next]_vars
    /\ \A c \in Callers : WF_vars(Answer(c) \/ Fail(c))
=============================================================================
