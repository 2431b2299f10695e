---------------------------- MODULE Identity_proof ----------------------------
(****************************************************************************)
(* Attribution, for any number of pods and any networks that a cluster can  *)
(* give them.  What a call found shares an address with the caller, and was *)
(* the caller itself if the view that decided showed the caller as live.    *)
(****************************************************************************)
EXTENDS Identity, FiniteSetTheorems, TLAPS

Status == {"absent", "live", "ending", "deleted"}

Addresses == {"none"} \cup UNION {n.ips : n \in UNION {Networks[p] : p \in Pods}}

Calls == [pc : {"idle", "cache", "index", "list", "miss", "namespace", "named"},
          addr : Addresses, found : Pods \cup {NoPod}, shown : Status, as : Status]

TypeOK ==
    /\ \A p \in Pods : net[p] \in Networks[p]
    /\ api \in [Pods -> Status] /\ index \in [Pods -> Status]
    /\ events \in Seq(Pods \X Status)
    /\ call \in [Pods -> Calls]

\* A call looks for the address it came from, one of its pod's.
LooksForOwn ==
    \A p \in Pods : call[p].pc \in {"cache", "index", "list", "miss"} => call[p].addr \in net[p].ips

\* What it found shares the address with it.
FoundOnAddress ==
    \A p \in Pods : call[p].pc \in {"namespace", "named"} =>
        /\ call[p].found \in Pods
        /\ net[call[p].found].ips \cap net[p].ips # {}
        /\ call[p].shown = "live" => call[p].found = p

\* Host-network pods are refused.
NamedOffNode == \A p \in Pods : At(p, "named") => ~net[call[p].found].host

IInv == TypeOK /\ LooksForOwn /\ FoundOnAddress /\ NamedOffNode
-----------------------------------------------------------------------------
\* pickPod names one of the pods it is given, and no other than a live one's own
\* if there is one.
LEMMA PickedIsShown ==
    ASSUME NEW pods \in SUBSET Pods, NEW view \in [Pods -> Status],
           NEW pick, pick = pickPod(pods, view), pick.err = "none"
    PROVE  /\ pick.pod \in pods
           /\ \A p \in pods : view[p] = "live" => pick.pod = p
<1> DEFINE live == {p \in pods : view[p] = "live"}
<1>1. IsFiniteSet(pods) /\ IsFiniteSet(live)
    BY PodsAssumption, FS_Subset
<1>2. \A p : p \in live <=> p \in pods /\ view[p] = "live"
    OBVIOUS
<1>3. \A x : Only({x}) = x
    BY DEF Only
<1>4. CASE Cardinality(pods) = 1
    <2>1. PICK x : pods = {x}
        BY <1>1, <1>4, FS_Singleton
    <2>2. pick = Named(Only(pods))
        BY <1>4 DEF pickPod
    <2>3. Only(pods) = x
        BY <1>3, <2>1, Zenon
    <2>4. pick.pod = x
        BY <2>2, <2>3 DEF Named
    <2> QED
        BY <2>1, <2>4
<1>5. CASE Cardinality(pods) # 1 /\ Cardinality(live) = 1
    <2>1. PICK x : live = {x}
        BY <1>1, <1>5, FS_Singleton
    <2>2. pick = Named(Only(live))
        BY <1>5 DEF pickPod
    <2> HIDE DEF live
    <2>3. Only(live) = x
        BY <1>3, <2>1, Zenon
    <2>4. pick.pod = x
        BY <2>2, <2>3 DEF Named
    <2> QED
        BY <1>2, <2>1, <2>4
<1>6. CASE Cardinality(pods) # 1 /\ Cardinality(live) # 1
    BY <1>6 DEF pickPod, Refused
<1> QED
    BY <1>4, <1>5, <1>6

\* A pod's network is one of those it may get, so the assumptions speak of it.
LEMMA Neighbours ==
    ASSUME TypeOK, NEW p \in Pods, NEW q \in Pods
    PROVE  /\ net[q].ip \in net[q].ips /\ net[p].ips \subseteq Addresses
           /\ net[q].ip \in net[p].ips => net[p].ip = net[q].ip
           /\ net[p].ips \cap net[q].ips # {} => net[p].host = net[q].host
<1>1. net[p] \in Networks[p] /\ net[q] \in Networks[q]
    BY DEF TypeOK
<1>2. net[p].ips \subseteq Addresses
    BY <1>1 DEF Addresses
<1> QED
    BY <1>1, <1>2, NetworksAssumption, FamiliesAssumption

\* The locals of a call that is not under way.
LEMMA IdleType == Idle \in Calls /\ Idle.pc = "idle"
<1>1. "none" \in Addresses /\ "absent" \in Status
    BY DEF Addresses, Status
<1> QED
    BY <1>1 DEF Idle, Calls, NoPod

LEMMA Initially == Init => IInv
<1> SUFFICES ASSUME Init PROVE IInv
    OBVIOUS
<1>1. TypeOK
    BY IdleType DEF Init, TypeOK, Status
<1> QED
    BY <1>1 DEF Init, IInv, LooksForOwn, FoundOnAddress, NamedOffNode, At, Idle

\* What the calls rely on does not change under them: networks are for life.
LEMMA ClusterStep ==
    ASSUME IInv, UNCHANGED <<net, call>>, TypeOK'
    PROVE  IInv'
BY DEF IInv, LooksForOwn, FoundOnAddress, NamedOffNode, At

\* The next locals of a call.
LEMMA CallStep ==
    ASSUME IInv, NEW p \in Pods, NEW c \in Calls, Go(p, c), ClusterUnchanged,
           c.pc \in {"cache", "index", "list", "miss"} => c.addr \in net[p].ips,
           c.pc \in {"namespace", "named"} =>
               /\ c.found \in Pods /\ net[c.found].ips \cap net[p].ips # {}
               /\ c.shown = "live" => c.found = p,
           c.pc = "named" => ~net[c.found].host
    PROVE  IInv'
<1> USE DEF IInv, Go, ClusterUnchanged
<1>1. TypeOK'
    BY DEF TypeOK
<1>2. LooksForOwn'
    BY DEF LooksForOwn, TypeOK
<1>3. FoundOnAddress'
    BY DEF FoundOnAddress, TypeOK
<1>4. NamedOffNode'
    BY DEF NamedOffNode, At, TypeOK
<1> QED
    BY <1>1, <1>2, <1>3, <1>4

\* A pick among pods that have the address, the caller among them if it is live.
LEMMA PickStep ==
    ASSUME IInv, NEW p \in Pods, NEW view \in [Pods -> Status], NEW pods \in SUBSET Pods,
           NEW unknown \in {"list", "miss"},
           call[p].pc \in {"index", "list"},
           \A q \in pods : call[p].addr \in net[q].ips,
           pods # {} /\ view[p] = "live" => p \in pods,
           Picked(p, pickPod(pods, view), view, unknown)
    PROVE  IInv'
<1> DEFINE pick == pickPod(pods, view)
<1>1. call[p].addr \in net[p].ips /\ call[p] \in Calls
    BY DEF IInv, LooksForOwn, TypeOK
<1>2. CASE pick.err = "none"
    <2> DEFINE c == [Idle EXCEPT !.pc = "namespace", !.found = pick.pod,
                                 !.shown = view[p], !.as = view[pick.pod]]
    <2>1. pick.pod \in pods /\ (\A q \in pods : view[q] = "live" => pick.pod = q)
        BY <1>2, PickedIsShown
    <2>2. /\ c \in Calls /\ c.pc = "namespace" /\ c.found = pick.pod
          /\ c.shown = view[p]
        BY <2>1, IdleType DEF Calls
    <2>3. Go(p, c) /\ ClusterUnchanged
        BY <1>2 DEF Picked
    <2>4. net[pick.pod].ips \cap net[p].ips # {}
        BY <1>1, <2>1
    <2> HIDE DEF c, pick
    <2> QED
        BY <2>1, <2>2, <2>3, <2>4, CallStep
<1>3. CASE pick.err # "none" /\ pick.err = "unknown"
    <2> DEFINE c == [call[p] EXCEPT !.pc = unknown]
    <2>1. c \in Calls /\ c.pc = unknown /\ c.addr = call[p].addr
        BY <1>1 DEF Calls
    <2>2. Go(p, c) /\ ClusterUnchanged
        BY <1>3 DEF Picked
    <2> HIDE DEF c
    <2> QED
        BY <1>1, <2>1, <2>2, CallStep
<1>4. CASE pick.err # "none" /\ pick.err # "unknown"
    <2>1. Go(p, Idle) /\ ClusterUnchanged
        BY <1>4 DEF Picked
    <2> QED
        BY <2>1, IdleType, CallStep
<1> QED
    BY <1>2, <1>3, <1>4

-----------------------------------------------------------------------------
LEMMA Inductive == IInv /\ [Next]_vars => IInv'
<1> SUFFICES ASSUME IInv, [Next]_vars
             PROVE  IInv'
    OBVIOUS
<1>1. ASSUME NEW p \in Pods, Launch(p) \/ Stop(p)
      PROVE  IInv'
    BY <1>1, ClusterStep DEF Launch, Stop, IInv, TypeOK
<1>2. ASSUME NEW p \in Pods, Report(p) \/ End(p) \/ Remove(p)
      PROVE  IInv'
    <2>1. PICK status \in Status : Update(p, status)
        BY <1>2 DEF Report, End, Remove, Status
    <2>2. TypeOK'
        BY <2>1 DEF Update, IInv, TypeOK
    <2> QED
        BY <2>1, <2>2, ClusterStep DEF Update
<1>3. CASE Deliver
    <2>1. Head(events) \in Pods \X Status /\ Tail(events) \in Seq(Pods \X Status)
        BY <1>3 DEF Deliver, IInv, TypeOK
    <2>2. TypeOK'
        BY <1>3, <2>1 DEF Deliver, IInv, TypeOK
    <2> QED
        BY <1>3, <2>2, ClusterStep DEF Deliver
<1>4. CASE Tick
    BY <1>4, ClusterStep DEF Tick, IInv, TypeOK
<1>5. ASSUME NEW p \in Pods, Identify(p)
      PROVE  IInv'
    <2>1. PICK a \in net[p].ips : Go(p, [Idle EXCEPT !.pc = "cache", !.addr = a])
        BY <1>5 DEF Identify
    <2> DEFINE c == [Idle EXCEPT !.pc = "cache", !.addr = a]
    <2>2. a \in Addresses
        BY Neighbours DEF IInv
    <2>3. c \in Calls /\ c.pc = "cache" /\ c.addr = a
        BY <2>2, IdleType DEF Calls
    <2> HIDE DEF c
    <2> QED
        BY <1>5, <2>1, <2>3, CallStep DEF Identify, c
<1>6. ASSUME NEW p \in Pods,
             ListFails(p) \/ rememberMiss(p) \/ LabelFails(p) \/ (negativeHit(p) /\ Go(p, Idle))
      PROVE  IInv'
    <2>1. Go(p, Idle) /\ ClusterUnchanged
        BY <1>6 DEF ListFails, rememberMiss, LabelFails, negativeHit
    <2> QED
        BY <2>1, IdleType, CallStep
<1>7. ASSUME NEW p \in Pods, negativeHit(p), ~Go(p, Idle)
      PROVE  IInv'
    <2> DEFINE c == [call[p] EXCEPT !.pc = "index"]
    <2>1. Go(p, c) /\ ClusterUnchanged /\ call[p].pc = "cache"
        BY <1>7 DEF negativeHit, At
    <2>2. call[p] \in Calls /\ call[p].addr \in net[p].ips
        BY <2>1 DEF IInv, TypeOK, LooksForOwn
    <2>3. c \in Calls /\ c.pc = "index" /\ c.addr \in net[p].ips
        BY <2>2 DEF Calls
    <2> HIDE DEF c
    <2> QED
        BY <2>1, <2>3, CallStep
<1>8. ASSUME NEW p \in Pods, lookupIndex(p)
      PROVE  IInv'
    <2> DEFINE pods == podIPIndexFunc(index, call[p].addr)
    <2>1. call[p].pc = "index" /\ call[p].addr \in net[p].ips /\ index \in [Pods -> Status]
        BY <1>8 DEF lookupIndex, At, IInv, LooksForOwn, TypeOK
    <2>2. /\ pods \in SUBSET Pods
          /\ \A q \in pods : call[p].addr \in net[q].ips
          /\ index[p] = "live" => p \in pods
        BY <2>1 DEF podIPIndexFunc, Exists
    <2> QED
        BY <1>8, <2>1, <2>2, PickStep DEF lookupIndex
<1>9. ASSUME NEW p \in Pods, lookupLive(p)
      PROVE  IInv'
    <2> DEFINE pods == FieldSelector(api, call[p].addr)
    <2>1. call[p].pc = "list" /\ call[p].addr \in net[p].ips /\ api \in [Pods -> Status]
        BY <1>9 DEF lookupLive, At, IInv, LooksForOwn, TypeOK
    <2>2. pods \in SUBSET Pods /\ \A q \in pods : net[q].ip = call[p].addr
        BY DEF FieldSelector, Exists
    <2>3. \A q \in pods : call[p].addr \in net[q].ips
        BY <2>2, Neighbours DEF IInv
    <2>4. pods # {} /\ api[p] = "live" => p \in pods
        <3> SUFFICES ASSUME NEW q \in pods, api[p] = "live"
                     PROVE  p \in pods
            OBVIOUS
        <3>1. net[p].ip = call[p].addr
            BY <2>1, <2>2, Neighbours DEF IInv
        <3> QED
            BY <3>1 DEF FieldSelector, Exists
    <2> QED
        BY <1>9, <2>1, <2>2, <2>3, <2>4, PickStep DEF lookupLive
<1>10. ASSUME NEW p \in Pods, Label(p)
       PROVE  IInv'
    <2> DEFINE c == [call[p] EXCEPT !.pc = "named"]
    <2>1. call[p].pc = "namespace" /\ call[p] \in Calls
        BY <1>10 DEF Label, At, IInv, TypeOK
    <2>2. c \in Calls /\ c.pc = "named" /\ c.found = call[p].found /\ c.shown = call[p].shown
        BY <2>1 DEF Calls
    <2>3. Go(p, c) /\ ClusterUnchanged /\ ~net[c.found].host
        BY <1>10, <2>2 DEF Label
    <2> HIDE DEF c
    <2> QED
        BY <2>1, <2>2, <2>3, CallStep DEF IInv, FoundOnAddress
<1>11. CASE UNCHANGED vars
    BY <1>11, ClusterStep DEF vars, IInv, TypeOK
<1> QED
    BY <1>1, <1>2, <1>3, <1>4, <1>5, <1>6, <1>7, <1>8, <1>9, <1>10, <1>11 DEF Next, Step

-----------------------------------------------------------------------------
\* Through address reuse, lost nodes and late events, a call is put down to the
\* pod that made it whenever the view that decided showed that pod as live, and
\* calls from a node's address are nobody's.
THEOREM AttributedWhenShown == Spec => []ShownIsAttributed
<1>1. Spec => []IInv
    BY Initially, Inductive, PTL DEF Spec
<1>2. IInv => ShownIsAttributed
    <2> SUFFICES ASSUME IInv, NEW p \in Pods, At(p, "named")
                 PROVE  /\ call[p].shown = "live" => call[p].found = p
                        /\ ~net[p].host
        BY DEF ShownIsAttributed
    <2>1. /\ call[p].found \in Pods /\ net[call[p].found].ips \cap net[p].ips # {}
          /\ call[p].shown = "live" => call[p].found = p
          /\ ~net[call[p].found].host
        BY DEF IInv, FoundOnAddress, NamedOffNode, At
    <2>2. net[p].host = net[call[p].found].host
        BY <2>1, Neighbours DEF IInv
    <2> QED
        BY <2>1, <2>2
<1> QED
    BY <1>1, <1>2, PTL
=============================================================================
