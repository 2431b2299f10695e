------------------------------ MODULE LeafIssuer ------------------------------
(****************************************************************************)
(* Issuer of internal/tlsbump/issuer.go: leaf certificates, minted per host *)
(* outside the mutex and cached under it, while the CA is rotated.          *)
(*                                                                          *)
(* A CA is the number of its load: signers are compared by pointer, and     *)
(* every load makes new ones.  Keys, serials and extensions are left out.   *)
(****************************************************************************)
EXTENDS Integers, Sequences, SequencesExt, FiniteSets
CONSTANTS
    Callers, Names, Host(_), NoHost, Validity,
    MaxSize,     \* bound of the cache
    MaxLoads,    \* bound: CAs loaded
    MaxNow       \* bound: the clock

ASSUME SizesAssumption == Validity \in Nat \ {0} /\ MaxSize \in Nat \ {0}

VARIABLES
    bundle,      \* i.bundle
    now,
    entries,     \* i.entries: host -> list element
    order,       \* i.order, the front first
    call         \* per caller: its locals, and when it began

vars == <<bundle, now, entries, order, call>>

NoLeaf == [host |-> NoHost, signer |-> 0, notAfter |-> 0]

\* since and from: the time and the CA when the call began.
Quiet == [pc |-> "idle", name |-> NoHost, since |-> 0, from |-> 0, ca |-> 0, leaf |-> NoLeaf]

Init ==
    /\ bundle = 1 /\ now = 0
    /\ entries = << >> /\ order = <<>>
    /\ call = [c \in Callers |-> Quiet]

-----------------------------------------------------------------------------
SetBundle ==
    /\ bundle < MaxLoads
    /\ bundle' = bundle + 1
    /\ UNCHANGED <<now, entries, order, call>>

Tick ==
    /\ now < MaxNow
    /\ now' = now + 1
    /\ UNCHANGED <<bundle, entries, order, call>>

\* A handshake begins: the client's SNI, or the CONNECT's host without one.
ServerConfig(c) ==
    /\ call[c].pc \in {"idle", "answered"}
    /\ \E n \in Names : call' = [call EXCEPT ![c] = [Quiet EXCEPT
           !.pc = "lookup", !.name = n, !.since = now, !.from = bundle]]
    /\ UNCHANGED <<bundle, now, entries, order>>

-----------------------------------------------------------------------------
(* Certificate. *)

HostOf(c) == Host(call[c].name)

Answered(c, leaf) == [call EXCEPT ![c] = [Quiet EXCEPT !.pc = "answered", !.leaf = leaf]]
Failed(c) == [call EXCEPT ![c] = Quiet]

Entry(host, leaf, signer) ==
    [key |-> host, leaf |-> leaf, expires |-> leaf.notAfter - Validity \div 2, signer |-> signer]

Position(list, elem) == CHOOSE n \in DOMAIN list : list[n] = elem
Without(list, elem) == RemoveAt(list, Position(list, elem))
Drop(map, host) == [h \in DOMAIN map \ {host} |-> map[h]]
Put(map, host, elem) == [h \in DOMAIN map \cup {host} |-> IF h = host THEN elem ELSE map[h]]

Cached(c) == HostOf(c) \in DOMAIN entries

\* Mutant of Usable: any unexpired leaf will do.
UsableAnySigner(elem, ca) == now < elem.expires

Usable(elem, ca) == now < elem.expires /\ elem.signer = ca

MoveToFront(elem) == <<elem>> \o Without(order, elem)

\* A blank name has no certificate.
NoName(c) ==
    /\ call[c].pc = "lookup" /\ HostOf(c) = NoHost
    /\ call' = Failed(c)
    /\ UNCHANGED <<bundle, now, entries, order>>

\* The first critical section: a hit, or the way to the mint with the CA of this
\* moment.  An entry that is too old or signed by another CA is dropped.
Hit(c) ==
    /\ call[c].pc = "lookup" /\ Cached(c) /\ Usable(entries[HostOf(c)], bundle)
    /\ order' = MoveToFront(entries[HostOf(c)])
    /\ call' = Answered(c, entries[HostOf(c)].leaf)
    /\ UNCHANGED <<bundle, now, entries>>

Miss(c) ==
    /\ call[c].pc = "lookup" /\ HostOf(c) # NoHost
    /\ Cached(c) => ~Usable(entries[HostOf(c)], bundle)
    /\ order' = IF Cached(c) THEN Without(order, entries[HostOf(c)]) ELSE order
    /\ entries' = Drop(entries, HostOf(c))
    /\ call' = [call EXCEPT ![c].pc = "mint", ![c].ca = bundle]
    /\ UNCHANGED <<bundle, now>>

\* Outside the mutex.
mint(c) ==
    /\ call[c].pc = "mint"
    /\ call' = [call EXCEPT ![c].pc = "store", ![c].leaf =
           [host |-> HostOf(c), signer |-> call[c].ca, notAfter |-> now + Validity]]
    /\ UNCHANGED <<bundle, now, entries, order>>

mintFails(c) ==
    /\ call[c].pc = "mint"
    /\ call' = Failed(c)
    /\ UNCHANGED <<bundle, now, entries, order>>

\* The second critical section: somebody else's leaf of the same CA wins.
Lost(c) ==
    /\ call[c].pc = "store" /\ Cached(c) /\ Usable(entries[HostOf(c)], call[c].ca)
    /\ order' = MoveToFront(entries[HostOf(c)])
    /\ call' = Answered(c, entries[HostOf(c)].leaf)
    /\ UNCHANGED <<bundle, now, entries>>

\* Mutant of Evict: the list is cut and the map is not.
EvictFromList(map, list) ==
    [map |-> map, list |-> SubSeq(list, 1, IF Len(list) > MaxSize THEN MaxSize ELSE Len(list))]

\* The back of the list goes until the bound holds.
Evict(map, list) ==
    LET keep == IF Len(list) > MaxSize THEN MaxSize ELSE Len(list)
        gone == {list[n].key : n \in keep + 1 .. Len(list)}
    IN  [map |-> [h \in DOMAIN map \ gone |-> map[h]], list |-> SubSeq(list, 1, keep)]

\* Otherwise ours replaces what is cached, be it of a newer CA, and the least
\* recently used entries beyond the bound go.
Store(c) ==
    LET h == HostOf(c)
        elem == Entry(h, call[c].leaf, call[c].ca)
        rest == IF Cached(c) THEN Without(order, entries[h]) ELSE order
        cache == Evict(Put(entries, h, elem), <<elem>> \o rest)
    IN  /\ call[c].pc = "store"
        /\ Cached(c) => ~Usable(entries[h], call[c].ca)
        /\ entries' = cache.map /\ order' = cache.list
        /\ call' = Answered(c, call[c].leaf)
        /\ UNCHANGED <<bundle, now>>

-----------------------------------------------------------------------------
Certificate(c) ==
    NoName(c) \/ Hit(c) \/ Miss(c) \/ mint(c) \/ mintFails(c) \/ Lost(c) \/ Store(c)

Next ==
    \/ SetBundle \/ Tick
    \/ \E c \in Callers : ServerConfig(c) \/ Certificate(c)

\* Handshakes run, and the mutex is free again after each critical section.
Spec == Init /\ [][Next]_vars /\ \A c \in Callers : WF_vars(Certificate(c))

-----------------------------------------------------------------------------
(* Properties. *)

\* removeLocked and the eviction keep the map and the list in step: each cached
\* host is in the list exactly once, with the map's element, and the cache stays
\* within its bound, whatever replaces what.
CacheInStep ==
    /\ Len(order) = Cardinality(DOMAIN entries)
    /\ Len(order) <= MaxSize
    /\ \A n \in DOMAIN order :
           order[n].key \in DOMAIN entries /\ entries[order[n].key] = order[n]

\* The cache is invisible: for its callers the issuer is a source of leaves that
\* were each made for the name asked for, by a CA current during the call, with
\* half a life left, through rotations between any two steps of a call.
Source == INSTANCE LeafSource WITH
    call <- [c \in Callers |->
        [pc    |-> IF call[c].pc \in {"lookup", "mint", "store"} THEN "asked" ELSE call[c].pc,
         name  |-> call[c].name, since |-> call[c].since, from |-> call[c].from,
         leaf  |-> IF call[c].pc = "answered" THEN call[c].leaf ELSE NoLeaf]]

ImplementsSource == Source!Spec
=============================================================================
