------------------------------- MODULE Identity -------------------------------
(****************************************************************************)
(* PodIPProvider of internal/identity/podip.go: whose pod is behind a       *)
(* client address.  Pods come, share addresses one after the other and go;  *)
(* the API server learns of it, and the informer's index later still.  A    *)
(* lookup asks the negative cache, the index and the API server in turn.    *)
(*                                                                          *)
(* Pods stand for all they are identified by: name, account and labels.     *)
(* Every pod has one call under way at most, from one of its addresses.     *)
(****************************************************************************)
EXTENDS Naturals, FiniteSets, Sequences

CONSTANTS
    Pods,
    Networks,   \* per pod: the networks it may get, [ips, ip, host] records: its
                \* addresses, the one in status.podIP, and whether it is its node's
    NegTTL,     \* ticks that a miss is remembered
    SweepAt     \* misses beyond which the expired ones are dropped (1024)

ASSUME PodsAssumption == IsFiniteSet(Pods)

ASSUME NetworksAssumption ==
    \A p \in Pods : \A n \in Networks[p] : n.ip \in n.ips /\ n.host \in BOOLEAN

\* Kubernetes: one address family of a cluster is the primary one, so that what is
\* one pod's status.podIP is never another's second address; and no pod is given
\* an address of a node.
ASSUME FamiliesAssumption ==
    \A p, q \in Pods : \A m \in Networks[p], n \in Networks[q] :
        /\ n.ip \in m.ips => m.ip = n.ip
        /\ m.ips \cap n.ips # {} => m.host = n.host

ASSUME LimitsAssumption == NegTTL \in Nat \ {0} /\ SweepAt \in Nat

NoPod == "none"

VARIABLES
    net,        \* per pod: its network
    life,       \* per pod: "new", "up" or "stopped", as it is on its node
    api,        \* per pod: "absent", "live", "ending" or "deleted", in the API server
    events,     \* changes the watch has yet to deliver, oldest first
    index,      \* per pod: its state in the informer's index
    negative,   \* address -> ticks before the remembered miss expires
    call        \* per pod: the Identify under way for its connection

vars == <<net, life, api, events, index, negative, call>>

\* shown, as: what the view that found a pod said of the caller and of it; a call that is
\* refused is idle again.
Idle == [pc |-> "idle", addr |-> "none", found |-> NoPod, shown |-> "absent", as |-> "absent"]

Init ==
    /\ net \in [Pods -> UNION {Networks[p] : p \in Pods}]
    /\ \A p \in Pods : net[p] \in Networks[p]
    /\ life = [p \in Pods |-> "new"]
    /\ api = [p \in Pods |-> "absent"] /\ index = api
    /\ events = <<>>
    /\ negative = << >>
    /\ call = [p \in Pods |-> Idle]

-----------------------------------------------------------------------------
(* The cluster. *)

\* A pod starts with addresses that nobody has, but for the node's.
Launch(p) ==
    /\ life[p] = "new"
    /\ \A q \in Pods :
           life[q] = "up" /\ net[p].ips \cap net[q].ips # {} => net[p].host /\ net[q].host
    /\ life' = [life EXCEPT ![p] = "up"]
    /\ UNCHANGED <<net, api, events, index, negative, call>>

\* It exits, is killed or is lost with its node, whatever the API server knows.
Stop(p) ==
    /\ life[p] = "up"
    /\ life' = [life EXCEPT ![p] = "stopped"]
    /\ UNCHANGED <<net, api, events, index, negative, call>>

Update(p, status) ==
    /\ api' = [api EXCEPT ![p] = status]
    /\ events' = Append(events, <<p, status>>)
    /\ UNCHANGED <<net, life, index, negative, call>>

\* The address is reported; the pod may be terminating already.
Report(p) ==
    /\ life[p] = "up" /\ api[p] = "absent"
    /\ \E status \in {"live", "ending"} : Update(p, status)

\* Deletion is requested, or the pod's phase becomes Succeeded or Failed.
End(p) == api[p] = "live" /\ Update(p, "ending")

Remove(p) == api[p] = "ending" /\ life[p] = "stopped" /\ Update(p, "deleted")

\* The watch delivers changes in order.
Deliver ==
    /\ events # <<>>
    /\ index' = [index EXCEPT ![Head(events)[1]] = Head(events)[2]]
    /\ events' = Tail(events)
    /\ UNCHANGED <<net, life, api, negative, call>>

Tick ==
    /\ \E a \in DOMAIN negative : negative[a] > 0
    /\ negative' = [a \in DOMAIN negative |-> IF negative[a] = 0 THEN 0 ELSE negative[a] - 1]
    /\ UNCHANGED <<net, life, api, events, index, call>>

-----------------------------------------------------------------------------
(* pickPod: a pod, or why there is none. *)

Exists(view) == {p \in Pods : view[p] \in {"live", "ending"}}

podIPIndexFunc(view, a) == {p \in Exists(view) : a \in net[p].ips}

FieldSelector(view, a) == {p \in Exists(view) : net[p].ip = a}

\* The pod of a set of one.
Only(pods) == CHOOSE p \in pods : TRUE

Named(p) == [err |-> "none", pod |-> p]
Refused(why) == [err |-> why, pod |-> NoPod]

\* Mutant of pickPod: the first pod found is the one.
pickPodFirst(pods, view) ==
    IF pods = {} THEN Refused("unknown") ELSE Named(Only(pods))

\* A pod that is alone is taken whatever its state; of several, only a live one.
pickPod(pods, view) ==
    LET live == {p \in pods : view[p] = "live"}
    IN  IF Cardinality(pods) = 1 THEN Named(Only(pods))
        ELSE IF Cardinality(live) = 1 THEN Named(Only(live))
        ELSE Refused(IF live = {} THEN "unknown" ELSE "ambiguous")

-----------------------------------------------------------------------------
(* Identify. *)

At(p, point) == call[p].pc = point
Go(p, c) == call' = [call EXCEPT ![p] = c]
ClusterUnchanged == UNCHANGED <<net, life, api, events, index>>

\* A connection of p arrives from one of its addresses.
Identify(p) ==
    /\ life[p] = "up"
    /\ call[p].pc \in {"idle", "named"}
    /\ \E a \in net[p].ips : Go(p, [Idle EXCEPT !.pc = "cache", !.addr = a])
    /\ ClusterUnchanged /\ UNCHANGED negative

Forget(keys) == [a \in DOMAIN negative \ keys |-> negative[a]]

\* Mutant of negativeHit: a miss is kept past its time.
negativeHitForever(p) ==
    /\ At(p, "cache")
    /\ Go(p, IF call[p].addr \in DOMAIN negative THEN Idle ELSE [call[p] EXCEPT !.pc = "index"])
    /\ ClusterUnchanged /\ UNCHANGED negative

\* A miss is forgotten by the first call after it expires.
negativeHit(p) ==
    LET a == call[p].addr
    IN  /\ At(p, "cache")
        /\ IF a \in DOMAIN negative /\ negative[a] > 0
           THEN Go(p, Idle) /\ UNCHANGED negative
           ELSE Go(p, [call[p] EXCEPT !.pc = "index"]) /\ negative' = Forget({a})
        /\ ClusterUnchanged

\* A pick from view: a pod, the next place to ask, or a refusal.
Picked(p, pick, view, unknown) ==
    /\ Go(p, IF pick.err = "none" THEN [Idle EXCEPT !.pc = "namespace", !.found = pick.pod,
                                                   !.shown = view[p], !.as = view[pick.pod]]
             ELSE IF pick.err = "unknown" THEN [call[p] EXCEPT !.pc = unknown]
             ELSE Idle)
    /\ ClusterUnchanged /\ UNCHANGED negative

lookupIndex(p) ==
    /\ At(p, "index")
    /\ Picked(p, pickPod(podIPIndexFunc(index, call[p].addr), index), index, "list")

lookupLive(p) ==
    /\ At(p, "list")
    /\ Picked(p, pickPod(FieldSelector(api, call[p].addr), api), api, "miss")

\* The API server does not answer; nothing is remembered.
ListFails(p) ==
    /\ At(p, "list")
    /\ Go(p, Idle)
    /\ ClusterUnchanged /\ UNCHANGED negative

rememberMiss(p) ==
    LET expired == {b \in DOMAIN negative : negative[b] = 0}
        kept == Forget(IF Cardinality(DOMAIN negative) > SweepAt THEN expired ELSE {})
        a == call[p].addr
    IN  /\ At(p, "miss")
        /\ negative' = [b \in DOMAIN kept \cup {a} |-> IF b = a THEN NegTTL ELSE kept[b]]
        /\ Go(p, Idle)
        /\ ClusterUnchanged

\* Host-network pods are refused; the namespace's labels come from the lister or
\* from the API server.
Label(p) ==
    /\ At(p, "namespace") /\ ~net[call[p].found].host
    /\ Go(p, [call[p] EXCEPT !.pc = "named"])
    /\ ClusterUnchanged /\ UNCHANGED negative

\* A host-network pod, or labels that neither source has.
LabelFails(p) ==
    /\ At(p, "namespace")
    /\ Go(p, Idle)
    /\ ClusterUnchanged /\ UNCHANGED negative

-----------------------------------------------------------------------------
Step(p) ==
    \/ negativeHit(p) \/ lookupIndex(p) \/ lookupLive(p) \/ ListFails(p) \/ rememberMiss(p)
    \/ Label(p) \/ LabelFails(p)

Next ==
    \/ \E p \in Pods : Launch(p) \/ Stop(p) \/ Report(p) \/ End(p) \/ Remove(p)
    \/ Deliver \/ Tick
    \/ \E p \in Pods : Identify(p) \/ Step(p)

\* The cluster reports what happens on its nodes, the watch delivers it, time
\* passes, handlers run, clients try again, and labels can be read now and then.
Fairness ==
    /\ WF_vars(Deliver) /\ WF_vars(Tick)
    /\ \A p \in Pods :
           /\ WF_vars(Report(p)) /\ WF_vars(life[p] = "stopped" /\ End(p))
           /\ WF_vars(Identify(p) \/ Step(p)) /\ SF_vars(Label(p))

Spec == Init /\ [][Next]_vars /\ Fairness

-----------------------------------------------------------------------------
(* Properties. *)

\* podip.go, pickPod: when two pods share an address, "the live pod is the one
\* making the request".  A call is put down to the pod that made it whenever the
\* cache or list that decided showed that pod as live, through address reuse,
\* lost nodes and late events.  Calls from a node's address are nobody's.
ShownIsAttributed ==
    \A p \in Pods :
        /\ At(p, "named") /\ call[p].shown = "live" => call[p].found = p
        /\ At(p, "named") => ~net[p].host

\* podip.go: a remembered miss is "deliberately short" lived, since callers
\* "should not be denied for seconds because of it".  A pod that stays up and
\* tries again is identified in the end, however many of its early calls missed.
EventuallyIdentified ==
    \A p \in Pods :
        <>[](life[p] = "up" /\ api[p] = "live" /\ ~net[p].host) => []<>(At(p, "named") /\ call[p].found = p)

\* podip.go, pickPod: "When a terminating pod and its replacement briefly share
\* an address, the live pod is the one making the request".  A call is put down
\* to a pod that is terminating or finished only when that pod made it.
ReplacementIsNamed ==
    \A p \in Pods : At(p, "named") /\ call[p].as = "ending" => call[p].found = p
=============================================================================
