--------------------------- MODULE LeafIssuer_proof ---------------------------
(****************************************************************************)
(* The cache for any number of callers, hosts and rotations: its map and    *)
(* its list stay in step, and nobody can tell it is there.                  *)
(****************************************************************************)
EXTENDS LeafIssuer, FiniteSetTheorems, FunctionTheorems, TLAPS

Hosts == {Host(n) : n \in Names} \ {NoHost}
Leaves == [host : Hosts, signer : Nat, notAfter : Int]
Elems == [key : Hosts, leaf : Leaves, expires : Int, signer : Nat]

\* The list holds one element per host of the map, the map's.
InStep(map, list) ==
    /\ list \in Seq(Elems)
    /\ \A m, n \in 1 .. Len(list) : list[m].key = list[n].key => m = n
    /\ \A n \in 1 .. Len(list) : list[n].key \in DOMAIN map /\ map[list[n].key] = list[n]
    /\ \A h \in DOMAIN map : map[h].key = h /\ \E n \in 1 .. Len(list) : list[n] = map[h]

\* Elements are filed under their own host.
LEMMA PositionIs ==
    ASSUME NEW map, NEW list, InStep(map, list), NEW h \in DOMAIN map
    PROVE  /\ Position(list, map[h]) \in 1 .. Len(list)
           /\ list[Position(list, map[h])] = map[h]
<1>1. PICK n \in DOMAIN list : list[n] = map[h]
    BY DEF InStep
<1>2. Position(list, map[h]) \in DOMAIN list /\ list[Position(list, map[h])] = map[h]
    BY <1>1, Zenon DEF Position
<1> QED
    BY <1>2 DEF InStep

\* What is left of a list without its i-th element.
LEMMA RemovedAt ==
    ASSUME NEW S, NEW list \in Seq(S), NEW i \in 1 .. Len(list)
    PROVE  /\ RemoveAt(list, i) \in Seq(S)
           /\ Len(RemoveAt(list, i)) = Len(list) - 1
           /\ \A n \in 1 .. Len(list) - 1 :
                  RemoveAt(list, i)[n] = list[IF n < i THEN n ELSE n + 1]
<1> DEFINE front == SubSeq(list, 1, i - 1)
           back == SubSeq(list, i + 1, Len(list))
<1>1. /\ front \in Seq(S) /\ Len(front) = i - 1
      /\ \A n \in 1 .. i - 1 : front[n] = list[n]
    OBVIOUS
<1>2. /\ back \in Seq(S) /\ Len(back) = Len(list) - i
      /\ \A n \in 1 .. Len(list) - i : back[n] = list[i + n]
    OBVIOUS
<1> HIDE DEF front, back
<1>3. /\ front \o back \in Seq(S) /\ Len(front \o back) = Len(list) - 1
      /\ \A n \in 1 .. i - 1 : (front \o back)[n] = front[n]
      /\ \A n \in i .. Len(list) - 1 : (front \o back)[n] = back[n - (i - 1)]
    <2>1. front \o back \in Seq(S) /\ Len(front \o back) = Len(list) - 1
        BY <1>1, <1>2
    <2>2. ASSUME NEW n \in 1 .. i - 1
          PROVE  (front \o back)[n] = front[n]
        BY <1>1, <1>2
    <2>3. ASSUME NEW n \in i .. Len(list) - 1
          PROVE  (front \o back)[n] = back[n - (i - 1)]
        <3>1. n \in Len(front) + 1 .. Len(front) + Len(back) /\ Len(front) = i - 1
            BY <1>1, <1>2
        <3> QED
            BY <1>1, <1>2, <3>1
    <2> QED
        BY <2>1, <2>2, <2>3
<1>4. \A n \in 1 .. Len(list) - 1 : (front \o back)[n] = list[IF n < i THEN n ELSE n + 1]
    BY <1>1, <1>2, <1>3
<1> QED
    BY <1>3, <1>4 DEF RemoveAt, front, back

LEMMA RemoveInStep ==
    ASSUME NEW map, NEW list, InStep(map, list), NEW h \in DOMAIN map
    PROVE  /\ InStep(Drop(map, h), Without(list, map[h]))
           /\ Len(Without(list, map[h])) = Len(list) - 1
<1> DEFINE i == Position(list, map[h])
           less == Drop(map, h)
           rest == Without(list, map[h])
<1>1. i \in 1 .. Len(list) /\ list[i] = map[h] /\ map[h].key = h
    <2>1. i \in 1 .. Len(list) /\ list[i] = map[h]
        BY PositionIs
    <2>2. map[h].key = h
        BY DEF InStep
    <2> HIDE DEF i
    <2> QED
        BY <2>1, <2>2
<1>2. list \in Seq(Elems)
    BY DEF InStep
<1>3. /\ rest \in Seq(Elems)
      /\ Len(rest) = Len(list) - 1
      /\ \A n \in 1 .. Len(list) - 1 : rest[n] = list[IF n < i THEN n ELSE n + 1]
    BY <1>1, <1>2, RemovedAt DEF Without
<1>4. DOMAIN less = DOMAIN map \ {h} /\ \A g \in DOMAIN map \ {h} : less[g] = map[g]
    BY DEF Drop
<1> HIDE DEF i, less, rest
<1>5. \A m, n \in 1 .. Len(rest) : rest[m].key = rest[n].key => m = n
    <2> SUFFICES ASSUME NEW m \in 1 .. Len(rest), NEW n \in 1 .. Len(rest), rest[m].key = rest[n].key
                 PROVE  m = n
        OBVIOUS
    <2> DEFINE Was(k) == IF k < i THEN k ELSE k + 1
    <2>1. \A k \in 1 .. Len(rest) : rest[k] = list[Was(k)] /\ Was(k) \in 1 .. Len(list)
        BY <1>1, <1>2, <1>3
    <2>2. Was(m) = Was(n)
        <3> HIDE DEF Was
        <3>1. list[Was(m)].key = list[Was(n)].key
            BY <2>1
        <3> QED
            BY <2>1, <3>1 DEF InStep
    <2> QED
        BY <1>1, <1>2, <1>3, <2>2
<1>6. \A n \in 1 .. Len(rest) : rest[n].key \in DOMAIN less /\ less[rest[n].key] = rest[n]
    <2> SUFFICES ASSUME NEW n \in 1 .. Len(rest)
                 PROVE  rest[n].key \in DOMAIN less /\ less[rest[n].key] = rest[n]
        OBVIOUS
    <2>1. PICK k \in 1 .. Len(list) : rest[n] = list[k] /\ k # i
        BY <1>1, <1>2, <1>3
    <2>2. list[k].key \in DOMAIN map /\ map[list[k].key] = list[k] /\ list[k].key # list[i].key
        BY <1>1, <2>1 DEF InStep
    <2> QED
        BY <1>1, <1>4, <2>1, <2>2
<1>7. \A g \in DOMAIN less : less[g].key = g /\ \E n \in 1 .. Len(rest) : rest[n] = less[g]
    <2> SUFFICES ASSUME NEW g \in DOMAIN less
                 PROVE  less[g].key = g /\ \E n \in 1 .. Len(rest) : rest[n] = less[g]
        OBVIOUS
    <2>1. PICK k \in 1 .. Len(list) : list[k] = map[g] /\ map[g].key = g
        BY <1>4 DEF InStep
    <2>2. k # i /\ less[g] = map[g]
        BY <1>1, <1>4, <2>1
    <2>3. CASE k < i
        BY <1>1, <1>2, <1>3, <2>1, <2>2, <2>3
    <2>4. CASE k > i
        <3>1. k - 1 \in 1 .. Len(rest) /\ rest[k - 1] = list[k]
            BY <1>1, <1>2, <1>3, <2>4
        <3> QED
            BY <2>1, <2>2, <3>1
    <2> QED
        BY <1>1, <2>2, <2>3, <2>4
<1> QED
    BY <1>3, <1>5, <1>6, <1>7 DEF InStep, less, rest

LEMMA PushInStep ==
    ASSUME NEW map, NEW list, InStep(map, list), NEW elem \in Elems,
           elem.key \notin DOMAIN map
    PROVE  /\ InStep(Put(map, elem.key, elem), <<elem>> \o list)
           /\ Len(<<elem>> \o list) = Len(list) + 1
<1> DEFINE more == Put(map, elem.key, elem)
           all == <<elem>> \o list
<1>1. list \in Seq(Elems)
    BY DEF InStep
<1>2. /\ DOMAIN more = DOMAIN map \cup {elem.key}
      /\ more[elem.key] = elem /\ \A g \in DOMAIN map : more[g] = map[g]
    BY DEF Put
<1>3. /\ Len(all) = Len(list) + 1 /\ all[1] = elem
      /\ \A n \in 2 .. Len(all) : all[n] = list[n - 1]
      /\ \A n \in 1 .. Len(list) : all[n + 1] = list[n]
    BY <1>1
<1>4. all \in Seq(Elems)
    BY <1>1
<1> HIDE DEF more, all
<1>5. \A m, n \in 1 .. Len(all) : all[m].key = all[n].key => m = n
    <2> SUFFICES ASSUME NEW m \in 1 .. Len(all), NEW n \in 1 .. Len(all), all[m].key = all[n].key
                 PROVE  m = n
        OBVIOUS
    <2>1. \A k \in 1 .. Len(list) : list[k].key # elem.key
        BY DEF InStep
    <2>2. CASE m > 1 /\ n > 1
        <3>1. m - 1 \in 1 .. Len(list) /\ n - 1 \in 1 .. Len(list)
            BY <1>1, <1>3, <2>2
        <3>2. all[m] = list[m - 1] /\ all[n] = list[n - 1]
            BY <1>1, <1>3, <2>2
        <3>3. m - 1 = n - 1
            BY <3>1, <3>2 DEF InStep
        <3> QED
            BY <1>1, <1>3, <3>3
    <2>3. CASE m = 1 /\ n # 1
        <3>1. n - 1 \in 1 .. Len(list) /\ all[n] = list[n - 1]
            BY <1>1, <1>3, <2>3
        <3> QED
            BY <1>3, <2>1, <2>3, <3>1
    <2>4. CASE m # 1 /\ n = 1
        <3>1. m - 1 \in 1 .. Len(list) /\ all[m] = list[m - 1]
            BY <1>1, <1>3, <2>4
        <3> QED
            BY <1>3, <2>1, <2>4, <3>1
    <2> QED
        BY <1>1, <1>3, <2>2, <2>3, <2>4
<1>6. \A n \in 1 .. Len(all) : all[n].key \in DOMAIN more /\ more[all[n].key] = all[n]
    <2> SUFFICES ASSUME NEW n \in 1 .. Len(all)
                 PROVE  all[n].key \in DOMAIN more /\ more[all[n].key] = all[n]
        OBVIOUS
    <2>1. CASE n = 1
        BY <1>2, <1>3, <2>1
    <2>2. CASE n # 1
        <3>1. n - 1 \in 1 .. Len(list) /\ all[n] = list[n - 1]
            BY <1>1, <1>3, <2>2
        <3>2. list[n - 1].key \in DOMAIN map /\ map[list[n - 1].key] = list[n - 1]
            BY <3>1 DEF InStep
        <3> QED
            BY <1>2, <3>1, <3>2
    <2> QED
        BY <2>1, <2>2
<1>7. \A g \in DOMAIN more : more[g].key = g /\ \E n \in 1 .. Len(all) : all[n] = more[g]
    <2> SUFFICES ASSUME NEW g \in DOMAIN more
                 PROVE  more[g].key = g /\ \E n \in 1 .. Len(all) : all[n] = more[g]
        OBVIOUS
    <2>1. CASE g = elem.key
        BY <1>1, <1>2, <1>3, <2>1
    <2>2. CASE g \in DOMAIN map
        <3>1. PICK k \in 1 .. Len(list) : list[k] = map[g] /\ map[g].key = g
            BY <2>2 DEF InStep
        <3>2. k + 1 \in 1 .. Len(all) /\ all[k + 1] = list[k]
            BY <1>1, <1>3, <3>1
        <3> QED
            BY <1>2, <2>2, <3>1, <3>2
    <2> QED
        BY <1>2, <2>1, <2>2
<1> QED
    BY <1>3, <1>4, <1>5, <1>6, <1>7 DEF InStep, more, all

LEMMA EvictInStep ==
    ASSUME NEW map, NEW list, InStep(map, list)
    PROVE  /\ InStep(Evict(map, list).map, Evict(map, list).list)
           /\ Len(Evict(map, list).list) <= MaxSize
           /\ \A h \in DOMAIN Evict(map, list).map :
                  h \in DOMAIN map /\ Evict(map, list).map[h] = map[h]
<1> DEFINE keep == IF Len(list) > MaxSize THEN MaxSize ELSE Len(list)
           gone == {list[n].key : n \in keep + 1 .. Len(list)}
           left == Evict(map, list).map
           short == Evict(map, list).list
<1>1. list \in Seq(Elems)
    BY DEF InStep
<1>2. keep \in Nat /\ keep <= MaxSize /\ keep <= Len(list)
    BY <1>1, SizesAssumption
<1>3. short = SubSeq(list, 1, keep) /\ left = [h \in DOMAIN map \ gone |-> map[h]]
    BY DEF Evict
<1>4. DOMAIN left = DOMAIN map \ gone /\ \A g \in DOMAIN left : left[g] = map[g]
    BY <1>3
<1> HIDE DEF keep, left, short
<1>5. /\ Len(short) = keep /\ short \in Seq(Elems)
      /\ \A n \in 1 .. keep : short[n] = list[n]
    BY <1>1, <1>2, <1>3
<1>6. \A g : g \in gone <=> \E n \in keep + 1 .. Len(list) : list[n].key = g
    OBVIOUS
<1> HIDE DEF gone
<1>7. \A m, n \in 1 .. Len(short) : short[m].key = short[n].key => m = n
    <2> SUFFICES ASSUME NEW m \in 1 .. Len(short), NEW n \in 1 .. Len(short), short[m].key = short[n].key
                 PROVE  m = n
        OBVIOUS
    <2>1. m \in 1 .. Len(list) /\ n \in 1 .. Len(list) /\ list[m].key = list[n].key
        BY <1>1, <1>2, <1>5
    <2> QED
        BY <2>1 DEF InStep
<1>8. \A n \in 1 .. Len(short) : short[n].key \in DOMAIN left /\ left[short[n].key] = short[n]
    <2> SUFFICES ASSUME NEW n \in 1 .. Len(short)
                 PROVE  short[n].key \in DOMAIN left /\ left[short[n].key] = short[n]
        OBVIOUS
    <2>1. n \in 1 .. Len(list) /\ short[n] = list[n] /\ n <= keep
        BY <1>1, <1>2, <1>5
    <2>2. list[n].key \in DOMAIN map /\ map[list[n].key] = list[n]
        BY <2>1 DEF InStep
    <2>3. \A k \in keep + 1 .. Len(list) : k \in 1 .. Len(list) /\ k # n
        BY <1>1, <1>2, <2>1
    <2>4. \A k \in 1 .. Len(list) : list[k].key = list[n].key => k = n
        BY <2>1 DEF InStep
    <2>5. list[n].key \notin gone
        BY <1>6, <2>3, <2>4
    <2> QED
        BY <1>4, <2>1, <2>2, <2>5
<1>9. \A g \in DOMAIN left : left[g].key = g /\ \E n \in 1 .. Len(short) : short[n] = left[g]
    BY <1>1, <1>2, <1>4, <1>5, <1>6 DEF InStep
<1> QED
    BY <1>2, <1>4, <1>5, <1>7, <1>8, <1>9 DEF InStep, left, short

-----------------------------------------------------------------------------
Calls == [pc : {"idle", "lookup", "mint", "store", "answered"}, name : Names \cup {NoHost},
          since : Nat, from : Nat, ca : Nat, leaf : Leaves \cup {NoLeaf}]

TypeOK ==
    /\ bundle \in Nat \ {0} /\ now \in Nat
    /\ call \in [Callers -> Calls]

\* A call under way has begun, has read a CA since, and minted its leaf with it.
UnderWay(q) ==
    /\ q.pc \in {"lookup", "mint", "store"} =>
           q.name \in Names /\ q.since <= now /\ q.from \in 1 .. bundle
    /\ q.pc \in {"mint", "store"} => q.ca \in q.from .. bundle /\ Host(q.name) # NoHost
    /\ q.pc = "store" =>
           /\ q.leaf.host = Host(q.name) /\ q.leaf.signer = q.ca
           /\ q.leaf.notAfter \in q.since + Validity .. now + Validity

CallsOK == \A c \in Callers : UnderWay(call[c])

\* An element tells the truth about its leaf.
Genuine(elem, h) ==
    /\ elem.leaf.host = h /\ elem.leaf.signer = elem.signer
    /\ elem.signer \in 1 .. bundle
    /\ elem.expires = elem.leaf.notAfter - Validity \div 2
    /\ elem.leaf.notAfter <= now + Validity

CacheOK ==
    /\ InStep(entries, order) /\ Len(order) <= MaxSize
    /\ entries \in [DOMAIN entries -> Elems]
    /\ \A h \in DOMAIN entries : Genuine(entries[h], h)

IInv == TypeOK /\ CallsOK /\ CacheOK

LEMMA QuietType == Quiet \in Calls /\ UnderWay(Quiet) /\ Quiet.pc = "idle"
BY DEF Quiet, Calls, UnderWay

LEMMA Initially == Init => IInv
<1> SUFFICES ASSUME Init PROVE IInv
    OBVIOUS
<1>1. TypeOK /\ CallsOK
    BY QuietType DEF Init, TypeOK, CallsOK
<1>2. CacheOK
    BY SizesAssumption DEF Init, CacheOK, InStep
<1> QED
    BY <1>1, <1>2 DEF IInv

\* The next locals of a call.
LEMMA CallStep ==
    ASSUME IInv, NEW c \in Callers, NEW q \in Calls, UnderWay(q),
           call' = [call EXCEPT ![c] = q], UNCHANGED <<bundle, now>>
    PROVE  TypeOK' /\ CallsOK'
BY DEF IInv, TypeOK, CallsOK, UnderWay

\* The clock and the CA move forward under calls and cache.
LEMMA ForwardStep ==
    ASSUME IInv, bundle' \in {bundle, bundle + 1}, now' \in {now, now + 1},
           UNCHANGED <<entries, order, call>>
    PROVE  IInv'
<1>1. TypeOK'
    BY DEF IInv, TypeOK
<1>2. CallsOK'
    <2> SUFFICES ASSUME NEW c \in Callers
                 PROVE  UnderWay(call[c])'
        BY DEF CallsOK
    <2>1. UnderWay(call[c]) /\ call[c] \in Calls /\ bundle \in Nat /\ now \in Nat
        BY DEF IInv, TypeOK, CallsOK
    <2> QED
        BY <2>1, SizesAssumption DEF UnderWay, Calls, Leaves
<1>3. CacheOK'
    <2>1. \A h \in DOMAIN entries : entries[h] \in Elems /\ Genuine(entries[h], h)'
        BY SizesAssumption DEF IInv, CacheOK, TypeOK, Genuine, Elems, Leaves
    <2> QED
        BY <2>1 DEF IInv, CacheOK
<1> QED
    BY <1>1, <1>2, <1>3 DEF IInv

\* Elements that are the cache's own may change places.
LEMMA MoveInStep ==
    ASSUME IInv, NEW h \in DOMAIN entries
    PROVE  InStep(entries, MoveToFront(entries[h])) /\ Len(MoveToFront(entries[h])) = Len(order)
<1> DEFINE less == Drop(entries, h)
           rest == Without(order, entries[h])
<1>1. InStep(entries, order) /\ entries[h] \in Elems /\ entries[h].key = h
    BY DEF IInv, CacheOK, InStep
<1>2. InStep(less, rest) /\ Len(rest) = Len(order) - 1
    BY <1>1, RemoveInStep
<1>3. h \notin DOMAIN less
    BY DEF Drop
<1>4. Len(order) \in Nat
    BY <1>1 DEF InStep
<1> HIDE DEF less, rest
<1>5. InStep(Put(less, h, entries[h]), <<entries[h]>> \o rest) /\ Len(<<entries[h]>> \o rest) = Len(order)
    BY <1>1, <1>2, <1>3, <1>4, PushInStep
<1>6. Put(less, h, entries[h]) = entries
    BY DEF less, Put, Drop, IInv, CacheOK
<1> QED
    BY <1>5, <1>6 DEF MoveToFront, rest

LEMMA HitStep ==
    ASSUME IInv, NEW c \in Callers, Hit(c) \/ Lost(c)
    PROVE  IInv'
<1> DEFINE h == HostOf(c)
           q == [Quiet EXCEPT !.pc = "answered", !.leaf = entries[h].leaf]
<1>1. h \in DOMAIN entries /\ entries[h] \in Elems
    BY DEF Hit, Lost, Cached, IInv, CacheOK
<1>2. q \in Calls /\ UnderWay(q)
    BY <1>1, QuietType DEF Elems, Calls, UnderWay
<1>3. call' = [call EXCEPT ![c] = q] /\ UNCHANGED <<bundle, now, entries>>
    BY DEF Hit, Lost, Answered
<1>4. order' = MoveToFront(entries[h])
    BY DEF Hit, Lost
<1> HIDE DEF q, h
<1>5. TypeOK' /\ CallsOK'
    BY <1>2, <1>3, CallStep
<1>6. CacheOK'
    BY <1>1, <1>3, <1>4, MoveInStep DEF IInv, CacheOK, Genuine
<1> QED
    BY <1>5, <1>6 DEF IInv

LEMMA MissStep ==
    ASSUME IInv, NEW c \in Callers, Miss(c)
    PROVE  IInv'
<1> DEFINE q == [call[c] EXCEPT !.pc = "mint", !.ca = bundle]
           h == HostOf(c)
<1>1. call[c] \in Calls /\ UnderWay(call[c]) /\ call[c].pc = "lookup" /\ h # NoHost
    BY DEF Miss, IInv, TypeOK, CallsOK
<1>2. bundle \in Nat \ {0} /\ now \in Nat
    BY DEF IInv, TypeOK
<1>3. q \in Calls /\ UnderWay(q)
    <2>1. /\ q \in Calls /\ q.pc = "mint" /\ q.ca = bundle /\ q.name = call[c].name
          /\ q.since = call[c].since /\ q.from = call[c].from
        BY <1>1, <1>2 DEF Calls
    <2> HIDE DEF q
    <2> QED
        BY <1>1, <1>2, <2>1 DEF UnderWay, HostOf
<1>4. /\ call' = [call EXCEPT ![c] = q] /\ UNCHANGED <<bundle, now>>
      /\ entries' = Drop(entries, h)
      /\ order' = IF h \in DOMAIN entries THEN Without(order, entries[h]) ELSE order
    BY DEF Miss, Cached, IInv, TypeOK
<1> HIDE DEF q, h
<1>5. TypeOK' /\ CallsOK'
    BY <1>3, <1>4, CallStep
<1>6. InStep(entries', order') /\ Len(order') <= MaxSize
    <2>1. CASE h \in DOMAIN entries
        <3>1. InStep(entries, order) /\ Len(order) \in Nat /\ Len(order) <= MaxSize
            BY DEF IInv, CacheOK, InStep
        <3> QED
            BY <1>4, <2>1, <3>1, RemoveInStep, SizesAssumption
    <2>2. CASE h \notin DOMAIN entries
        <3>1. entries' = entries /\ order' = order
            BY <1>4, <2>2 DEF Drop, IInv, CacheOK
        <3> QED
            BY <3>1 DEF IInv, CacheOK
    <2> QED
        BY <2>1, <2>2
<1>7. /\ entries' \in [DOMAIN entries' -> Elems]
      /\ (\A g \in DOMAIN entries : Genuine(entries[g], g))'
    BY <1>4 DEF Drop, IInv, CacheOK, Genuine
<1> QED
    BY <1>5, <1>6, <1>7 DEF IInv, CacheOK

LEMMA MintStep ==
    ASSUME IInv, NEW c \in Callers, mint(c)
    PROVE  IInv'
<1> DEFINE leaf == [host |-> HostOf(c), signer |-> call[c].ca, notAfter |-> now + Validity]
           q == [call[c] EXCEPT !.pc = "store", !.leaf = leaf]
<1>1. call[c] \in Calls /\ UnderWay(call[c]) /\ call[c].pc = "mint"
    BY DEF mint, IInv, TypeOK, CallsOK
<1>2. bundle \in Nat \ {0} /\ now \in Nat
    BY DEF IInv, TypeOK
<1>3. leaf \in Leaves
    BY <1>1, <1>2, SizesAssumption DEF Leaves, Hosts, Calls, HostOf, UnderWay
<1>4. q \in Calls /\ UnderWay(q)
    <2>1. /\ q \in Calls /\ q.pc = "store" /\ q.ca = call[c].ca /\ q.name = call[c].name
          /\ q.since = call[c].since /\ q.from = call[c].from /\ q.leaf = leaf
        BY <1>1, <1>3 DEF Calls
    <2>2. leaf.host = Host(q.name) /\ leaf.signer = q.ca /\ leaf.notAfter = now + Validity
        BY <2>1 DEF HostOf
    <2>3. call[c].since \in Nat
        BY <1>1 DEF Calls
    <2> HIDE DEF q, leaf
    <2> QED
        BY <1>1, <1>2, <2>1, <2>2, <2>3, SizesAssumption DEF UnderWay
<1>5. call' = [call EXCEPT ![c] = q] /\ UNCHANGED <<bundle, now, entries, order>>
    BY DEF mint, IInv, TypeOK
<1> HIDE DEF q
<1> QED
    BY <1>4, <1>5, CallStep DEF IInv, CacheOK, Genuine

LEMMA StoreStep ==
    ASSUME IInv, NEW c \in Callers, Store(c)
    PROVE  IInv'
<1> DEFINE h == HostOf(c)
           leaf == call[c].leaf
           q == [Quiet EXCEPT !.pc = "answered", !.leaf = leaf]
           elem == Entry(h, leaf, call[c].ca)
           rest == IF h \in DOMAIN entries THEN Without(order, entries[h]) ELSE order
           less == Drop(entries, h)
           cache == Evict(Put(entries, h, elem), <<elem>> \o rest)
<1>1. call[c] \in Calls /\ UnderWay(call[c]) /\ call[c].pc = "store"
    BY DEF Store, IInv, TypeOK, CallsOK
<1>2. bundle \in Nat \ {0} /\ now \in Nat
    BY DEF IInv, TypeOK
<1>3. leaf \in Leaves /\ h \in Hosts /\ leaf.host = h /\ leaf.signer = call[c].ca
    <2>1. call[c].name \in Names /\ Host(call[c].name) # NoHost /\ leaf.host = Host(call[c].name)
        BY <1>1 DEF UnderWay
    <2>2. leaf # NoLeaf
        BY <2>1 DEF NoLeaf
    <2> QED
        BY <1>1, <2>1, <2>2 DEF UnderWay, HostOf, Hosts, Calls
<1>4. q \in Calls /\ UnderWay(q)
    BY <1>3, QuietType DEF Calls, UnderWay
<1>5. /\ call' = [call EXCEPT ![c] = q] /\ UNCHANGED <<bundle, now>>
      /\ entries' = cache.map /\ order' = cache.list
    BY DEF Store, Cached, Answered
<1>6. elem \in Elems /\ elem.key = h /\ Genuine(elem, h)
    BY <1>1, <1>2, <1>3, SizesAssumption
       DEF Elems, Entry, Genuine, UnderWay, Calls, Leaves
<1> HIDE DEF q, h, leaf, elem, rest, less, cache
<1>7. TypeOK' /\ CallsOK'
    BY <1>4, <1>5, CallStep
<1>8. InStep(less, rest) /\ h \notin DOMAIN less
    <2>1. InStep(entries, order)
        BY DEF IInv, CacheOK
    <2>2. CASE h \in DOMAIN entries
        BY <2>1, <2>2, RemoveInStep DEF less, rest, Drop
    <2>3. CASE h \notin DOMAIN entries
        <3>1. less = entries /\ rest = order
            BY <2>3 DEF less, rest, Drop, IInv, CacheOK
        <3> QED
            BY <2>1, <2>3, <3>1
    <2> QED
        BY <2>2, <2>3
<1>9. Put(less, h, elem) = Put(entries, h, elem)
    BY DEF less, Put, Drop
<1>10. InStep(Put(entries, h, elem), <<elem>> \o rest)
    BY <1>6, <1>8, <1>9, PushInStep
<1>11. /\ InStep(entries', order') /\ Len(order') <= MaxSize
       /\ \A g \in DOMAIN entries' : g \in DOMAIN Put(entries, h, elem) /\ entries'[g] = Put(entries, h, elem)[g]
    BY <1>5, <1>10, EvictInStep DEF cache
<1>12. \A g \in DOMAIN entries' : entries'[g] \in Elems /\ Genuine(entries'[g], g)
    BY <1>6, <1>11 DEF Put, IInv, CacheOK
<1>13. (\A g \in DOMAIN entries : Genuine(entries[g], g))'
    BY <1>5, <1>12 DEF Genuine
<1>14. entries' = [g \in DOMAIN entries' |-> entries'[g]]
    BY <1>5 DEF cache, Evict
<1> QED
    BY <1>7, <1>11, <1>12, <1>13, <1>14 DEF IInv, CacheOK

LEMMA Inductive == IInv /\ [Next]_vars => IInv'
<1> SUFFICES ASSUME IInv, [Next]_vars PROVE IInv'
    OBVIOUS
<1>1. CASE SetBundle \/ Tick \/ UNCHANGED vars
    BY <1>1, ForwardStep DEF SetBundle, Tick, vars
<1>2. ASSUME NEW c \in Callers, ServerConfig(c)
      PROVE  IInv'
    <2>1. PICK n \in Names : call' = [call EXCEPT ![c] = [Quiet EXCEPT
              !.pc = "lookup", !.name = n, !.since = now, !.from = bundle]]
        BY <1>2 DEF ServerConfig
    <2> DEFINE q == [Quiet EXCEPT !.pc = "lookup", !.name = n, !.since = now, !.from = bundle]
    <2>2. /\ q \in Calls /\ q.pc = "lookup" /\ q.name = n
          /\ q.since = now /\ q.from = bundle
        BY QuietType DEF IInv, TypeOK, Calls
    <2> HIDE DEF q
    <2>3. UnderWay(q)
        BY <2>2 DEF IInv, TypeOK, UnderWay
    <2>4. TypeOK' /\ CallsOK'
        BY <1>2, <2>1, <2>2, <2>3, CallStep DEF ServerConfig, q
    <2> QED
        BY <1>2, <2>4 DEF ServerConfig, IInv, CacheOK, Genuine
<1>3. ASSUME NEW c \in Callers, NoName(c) \/ mintFails(c)
      PROVE  IInv'
    <2>1. TypeOK' /\ CallsOK'
        BY <1>3, QuietType, CallStep DEF NoName, mintFails, Failed
    <2> QED
        BY <1>3, <2>1 DEF NoName, mintFails, IInv, CacheOK, Genuine
<1> QED
    BY <1>1, <1>2, <1>3, HitStep, MissStep, MintStep, StoreStep DEF Next, Certificate

-----------------------------------------------------------------------------
LEMMA Invariant == Spec => []IInv
BY Initially, Inductive, PTL DEF Spec

\* The map and the list of the cache hold the same hosts, each once, within the
\* bound, whatever hits, misses, racing stores and evictions come in between.
THEOREM CacheStaysInStep == Spec => []CacheInStep
<1>1. IInv => CacheInStep
    <2> SUFFICES ASSUME IInv PROVE CacheInStep
        OBVIOUS
    <2>1. InStep(entries, order) /\ order \in Seq(Elems) /\ Len(order) \in Nat
        BY DEF IInv, CacheOK, InStep
    <2> DEFINE f == [n \in 1 .. Len(order) |-> order[n].key]
    <2>2. f \in Bijection(1 .. Len(order), DOMAIN entries)
        <3>1. f \in [1 .. Len(order) -> DOMAIN entries]
            BY <2>1 DEF InStep
        <3>2. \A m, n \in 1 .. Len(order) : f[m] = f[n] => m = n
            BY <2>1 DEF InStep
        <3>3. \A h \in DOMAIN entries : \E n \in 1 .. Len(order) : f[n] = h
            BY <2>1 DEF InStep
        <3> HIDE DEF f
        <3> QED
            BY <3>1, <3>2, <3>3, Fun_IsBij
    <2>3. IsFiniteSet(1 .. Len(order)) /\ Cardinality(1 .. Len(order)) = Len(order)
        BY <2>1, FS_Interval
    <2>4. Cardinality(DOMAIN entries) = Len(order)
        BY <2>2, <2>3, FS_Bijection DEF ExistsBijection
    <2> QED
        BY <2>1, <2>4 DEF CacheInStep, InStep, IInv, CacheOK
<1> QED
    BY <1>1, Invariant, PTL

-----------------------------------------------------------------------------
(* The refinement: what a handshake sees of its call. *)

Seen(q) ==
    [pc   |-> IF q.pc \in {"lookup", "mint", "store"} THEN "asked" ELSE q.pc,
     name |-> q.name, since |-> q.since, from |-> q.from,
     leaf |-> IF q.pc = "answered" THEN q.leaf ELSE NoLeaf]

SeenCalls == [c \in Callers |-> Seen(call[c])]

\* One call's step is one step of what it sees.
LEMMA SeenStep ==
    ASSUME TypeOK, NEW c \in Callers, NEW q, call' = [call EXCEPT ![c] = q]
    PROVE  SeenCalls' = [SeenCalls EXCEPT ![c] = Seen(q)]
<1>1. call'[c] = q /\ \A d \in Callers : d # c => call'[d] = call[d]
    BY DEF TypeOK
<1>2. SeenCalls' = [d \in Callers |-> Seen(call'[d])]
    BY DEF SeenCalls, Seen
<1>3. [SeenCalls EXCEPT ![c] = Seen(q)] =
          [d \in Callers |-> IF d = c THEN Seen(q) ELSE Seen(call[d])]
    BY DEF SeenCalls
<1>4. \A d \in Callers : Seen(call'[d]) = IF d = c THEN Seen(q) ELSE Seen(call[d])
    BY <1>1
<1> QED
    BY <1>2, <1>3, <1>4

\* Any leaf that fits the call is an answer the abstract source may give.
LEMMA AnswerStep ==
    ASSUME IInv, NEW c \in Callers, NEW leaf \in Leaves,
           call[c].pc \in {"lookup", "store"},
           call' = Answered(c, leaf), UNCHANGED <<bundle, now>>,
           leaf.host = HostOf(c), leaf.signer \in call[c].from .. bundle,
           leaf.notAfter > call[c].since + Validity \div 2, leaf.notAfter <= now + Validity
    PROVE  Source!Answer(c)
<1> DEFINE q == [Quiet EXCEPT !.pc = "answered", !.leaf = leaf]
<1>1. call[c] \in Calls /\ UnderWay(call[c]) /\ bundle \in Nat /\ now \in Nat
    BY DEF IInv, TypeOK, CallsOK
<1>2. /\ call[c].name \in Names /\ call[c].from \in 1 .. bundle
      /\ call[c].since \in Nat /\ call[c].from \in Nat
    BY <1>1 DEF UnderWay, Calls
<1>3. SeenCalls' = [SeenCalls EXCEPT ![c] = Seen(q)]
    BY SeenStep DEF IInv, Answered
<1>4. Seen(q) = Source!Answered(leaf)
    <2>1. q.pc = "answered" /\ q.name = NoHost /\ q.since = 0 /\ q.from = 0 /\ q.leaf = leaf
        BY DEF Quiet
    <2> HIDE DEF q
    <2> QED
        BY <2>1 DEF Seen, Source!Answered
<1>5. /\ SeenCalls[c].pc = "asked" /\ SeenCalls[c].name = call[c].name
      /\ SeenCalls[c].since = call[c].since /\ SeenCalls[c].from = call[c].from
    BY DEF SeenCalls, Seen
<1>6. leaf \in [host : {Host(n) : n \in Names}, signer : 1 .. bundle, notAfter : 1 .. now + Validity]
    <2>1. leaf.host \in Hosts /\ leaf.signer \in Nat /\ leaf.notAfter \in Int
        BY DEF Leaves
    <2>2. leaf.signer \in 1 .. bundle
        BY <1>1, <1>2, <2>1
    <2>3. leaf.notAfter \in 1 .. now + Validity
        BY <1>1, <1>2, <2>1, SizesAssumption
    <2>4. leaf.host \in {Host(n) : n \in Names}
        BY <2>1 DEF Hosts
    <2> QED
        BY <2>2, <2>3, <2>4 DEF Leaves
<1>7. Source!Promised(SeenCalls[c], leaf)
    BY <1>5 DEF Source!Promised, HostOf, Leaves, Hosts
<1>8. SeenCalls' = [SeenCalls EXCEPT ![c] = Source!Answered(leaf)]
    BY <1>3, <1>4
<1> HIDE DEF q
<1> QED
    BY <1>5, <1>6, <1>7, <1>8 DEF Source!Answer, SeenCalls, Seen

LEMMA HitAnswers ==
    ASSUME IInv, NEW c \in Callers, Hit(c) \/ Lost(c)
    PROVE  Source!Answer(c)
<1> DEFINE h == HostOf(c)
           leaf == entries[h].leaf
           ca == IF call[c].pc = "lookup" THEN bundle ELSE call[c].ca
<1>1. call[c] \in Calls /\ UnderWay(call[c]) /\ bundle \in Nat /\ now \in Nat
    BY DEF IInv, TypeOK, CallsOK
<1>2. /\ call[c].pc \in {"lookup", "store"} /\ h \in DOMAIN entries
      /\ now < entries[h].expires /\ entries[h].signer = ca
      /\ call' = Answered(c, leaf) /\ UNCHANGED <<bundle, now>>
    BY DEF Hit, Lost, Cached, Usable
<1>3. /\ entries[h] \in Elems /\ Genuine(entries[h], h)
    BY <1>2 DEF IInv, CacheOK
<1>4. ca \in call[c].from .. bundle /\ call[c].since \in Nat /\ call[c].since <= now
    BY <1>1, <1>2 DEF UnderWay, Calls
<1>5. /\ leaf \in Leaves /\ leaf.host = h /\ leaf.signer = ca /\ leaf.notAfter \in Int
      /\ leaf.notAfter <= now + Validity /\ now < leaf.notAfter - Validity \div 2
    BY <1>2, <1>3 DEF Genuine, Elems, Leaves
<1>6. leaf.notAfter > call[c].since + Validity \div 2
    BY <1>1, <1>4, <1>5, SizesAssumption
<1> HIDE DEF leaf, ca
<1> QED
    BY <1>2, <1>4, <1>5, <1>6, AnswerStep

LEMMA StoreAnswers ==
    ASSUME IInv, NEW c \in Callers, Store(c)
    PROVE  Source!Answer(c)
<1> DEFINE leaf == call[c].leaf
<1>1. call[c] \in Calls /\ UnderWay(call[c]) /\ bundle \in Nat /\ now \in Nat
    BY DEF IInv, TypeOK, CallsOK
<1>2. call[c].pc = "store" /\ call' = Answered(c, leaf) /\ UNCHANGED <<bundle, now>>
    BY DEF Store
<1>3. /\ leaf.host = Host(call[c].name) /\ leaf.host # NoHost /\ leaf.signer = call[c].ca
      /\ call[c].ca \in call[c].from .. bundle
      /\ leaf.notAfter \in call[c].since + Validity .. now + Validity
    BY <1>1, <1>2 DEF UnderWay
<1>4. leaf \in Leaves
    BY <1>1, <1>3 DEF Calls, NoLeaf
<1>5. call[c].since \in Nat /\ leaf.notAfter \in Int
    BY <1>1, <1>4 DEF Calls, Leaves
<1>6. leaf.notAfter > call[c].since + Validity \div 2
    BY <1>3, <1>5, SizesAssumption
<1> HIDE DEF leaf
<1> QED
    BY <1>1, <1>2, <1>3, <1>4, <1>5, <1>6, AnswerStep DEF HostOf

LEMMA StepRefines == IInv /\ [Next]_vars => [Source!Next]_Source!vars
<1> SUFFICES ASSUME IInv, [Next]_vars PROVE [Source!Next]_Source!vars
    OBVIOUS
<1>1. CASE SetBundle \/ Tick \/ UNCHANGED vars
    BY <1>1 DEF SetBundle, Tick, vars, Source!Next, Source!Rotate, Source!Tick, Source!vars
<1>2. ASSUME NEW c \in Callers, ServerConfig(c)
      PROVE  Source!Ask(c)
    <2>1. PICK n \in Names : call' = [call EXCEPT ![c] = [Quiet EXCEPT
              !.pc = "lookup", !.name = n, !.since = now, !.from = bundle]]
        BY <1>2 DEF ServerConfig
    <2> DEFINE q == [Quiet EXCEPT !.pc = "lookup", !.name = n, !.since = now, !.from = bundle]
    <2>2. SeenCalls' = [SeenCalls EXCEPT ![c] = Seen(q)]
        BY <2>1, SeenStep DEF IInv
    <2>3. Seen(q) = Source!Asked(n)
        <3>1. q.pc = "lookup" /\ q.name = n /\ q.since = now /\ q.from = bundle
            BY DEF Quiet
        <3> HIDE DEF q
        <3> QED
            BY <3>1 DEF Seen, Source!Asked, Source!NoLeaf, NoLeaf
    <2>4. SeenCalls[c].pc # "asked"
        BY <1>2 DEF SeenCalls, Seen, ServerConfig
    <2> QED
        BY <1>2, <2>2, <2>3, <2>4 DEF ServerConfig, Source!Ask, SeenCalls, Seen
<1>3. ASSUME NEW c \in Callers, NoName(c) \/ mintFails(c)
      PROVE  Source!Fail(c)
    <2>1. SeenCalls' = [SeenCalls EXCEPT ![c] = Seen(Quiet)]
        BY <1>3, SeenStep DEF IInv, NoName, mintFails, Failed
    <2>2. Seen(Quiet) = Source!Quiet
        BY DEF Seen, Quiet, NoLeaf, Source!Quiet, Source!NoLeaf
    <2>3. SeenCalls[c].pc = "asked"
        BY <1>3 DEF SeenCalls, Seen, NoName, mintFails
    <2> QED
        BY <1>3, <2>1, <2>2, <2>3 DEF NoName, mintFails, Source!Fail, SeenCalls, Seen
<1>4. ASSUME NEW c \in Callers, Miss(c) \/ mint(c)
      PROVE  UNCHANGED Source!vars
    <2>1. call[c] \in Calls /\ call[c].pc \in {"lookup", "mint"}
        BY <1>4 DEF Miss, mint, IInv, TypeOK
    <2>2. PICK q \in {call'[c]} : call' = [call EXCEPT ![c] = q]
        BY <1>4 DEF Miss, mint, IInv, TypeOK
    <2>3. Seen(q) = Seen(call[c])
        BY <1>4, <2>1, <2>2 DEF Miss, mint, Seen, Calls, IInv, TypeOK
    <2>4. SeenCalls' = SeenCalls
        BY <2>2, <2>3, SeenStep DEF IInv, SeenCalls
    <2> QED
        BY <1>4, <2>4 DEF Miss, mint, Source!vars, SeenCalls, Seen
<1> QED
    BY <1>1, <1>2, <1>3, <1>4, HitAnswers, StoreAnswers DEF Next, Certificate, Source!Next

\* The cache is invisible, step by step: every answer of the issuer is one that a
\* source without a cache could give, a leaf for the name asked for, by a CA that
\* was current during the call, with half a life left.  (That every call is
\* answered is checked by the run.)
THEOREM CacheIsInvisible == Spec => Source!Init /\ [][Source!Next]_Source!vars
<1>1. Init => Source!Init
    BY DEF Init, Source!Init, Quiet, NoLeaf, Source!Quiet, Source!NoLeaf
<1> QED
    BY <1>1, Invariant, StepRefines, PTL DEF Spec
=============================================================================
