----------------------------- MODULE Relay_proof -----------------------------
(****************************************************************************)
(* The handlers for any number of connections, policies, resolver answers   *)
(* and requests.  One invariant says, for the handler h of a connection and *)
(* what its request left behind, o, what is known at each point of the      *)
(* handler; another what the shared pool holds.  Handlers meet only in the  *)
(* pool and in the transports, so that each step is one handler's.          *)
(****************************************************************************)
EXTENDS Relay, Engine_proof

\* Both are records.
IsHandler(h) ==
    h = [pc |-> h.pc, id |-> h.id, req |-> h.req, dec |-> h.dec, rdec |-> h.rdec, seen |-> h.seen,
         profile |-> h.profile, addrs |-> h.addrs, unread |-> h.unread, reused |-> h.reused]

IsOut(o) ==
    o = [leg |-> o.leg, refused |-> o.refused, records |-> o.records,
         decision |-> o.decision, policy |-> o.policy, upstream |-> o.upstream, status |-> o.status]

-----------------------------------------------------------------------------
(* What a request may leave by. *)

\* The connect decision grants the connection, the request decision the request.
Authorized(h) ==
    /\ h.seen \in DOMAIN Snapshots
    /\ h.dec = AuthorizeConnect(Snapshots[h.seen].policies, h.id, h.req.host, h.req.port)
    /\ h.dec.allowed

Allowed(h) ==
    /\ h.rdec = AuthorizeRequest(h.dec, h.req.target, h.req.method, h.req.upgrade)
    /\ h.rdec.allowed

Judged(h) == Authorized(h) /\ (h.req.kind # "connect" => Allowed(h))

\* The policy and the profile that the deciding stage named.
DecidingPolicy(h) == IF h.req.kind = "connect" THEN firstPolicy(h.dec) ELSE h.rdec.policy
DecidingUpstream(h) == IF h.req.kind = "connect" THEN h.dec.upstream ELSE h.rdec.upstream

OwnAccount(leg, name) == leg.via = "proxy" => leg.account \in Accounts(name)

\* The addresses are those of an answer without a denied one.
Checked(addrs, host) ==
    \E d \in DOMAIN DnsStates : addrs = DnsStates[d][canonicalHost(host)] /\ addrs \cap Denied = {}

Guarded(leg) ==
    leg.via = "direct" => \E d \in DOMAIN DnsStates :
        LET answer == DnsStates[d][canonicalHost(leg.host)]
        IN  leg.addr \in answer /\ answer \cap Denied = {}

LegOK(h, o) ==
    /\ o.leg.host = h.req.host
    /\ OwnAccount(o.leg, DecidingUpstream(h))
    /\ Guarded(o.leg)

-----------------------------------------------------------------------------
(* What is true of a request wherever its handler is. *)

Denials == {"deny_policy", "deny_guard", "deny_identity", "deny_malformed"}

NamesDecider(h, o) ==
    \/ h.req.kind = "plain" /\ o.decision = "error_internal"
    \/ o.policy = DecidingPolicy(h) /\ o.upstream = DecidingUpstream(h)

OutOK(h, o) ==
    /\ IsOut(o)
    /\ o.records \in {0, 1} /\ o.refused \in BOOLEAN
    /\ o.leg # NoLeg => Judged(h) /\ LegOK(h, o)
    /\ o.decision \in Denials => o.leg = NoLeg
    /\ o.records = 1 /\ o.leg # NoLeg => NamesDecider(h, o)
    /\ o.refused = TRUE /\ h.req.kind = "inner" => o.status = 502 /\ o.decision = "error_upstream"
    /\ o.refused = TRUE /\ h.req.kind # "inner" => o.status = 403 /\ o.decision = "deny_guard"

\* Nothing is recorded yet; nothing has left yet.
Open(o) == o.records = 0 /\ o.refused = FALSE /\ o.decision = None
Clean(o) == Open(o) /\ o.leg = NoLeg

\* Nothing more is to be recorded.
Settled(h, o) ==
    \/ o.records = 1
    \/ /\ h.req.kind # "inner"
       /\ \/ o.leg = NoLeg
          \/ h.req.kind = "plain" /\ o.status = 101
          \/ h.req.kind = "connect" /\ o.status = 0

-----------------------------------------------------------------------------
(* What is known at a point. *)

Dials == {"tunnelGuard", "tunnelDial", "originGuard", "originDial", "plainGuard", "plainDial", "plainWrite"}
Tunnels == {"tunnel", "tunnelGuard", "tunnelDial", "tunnel200", "splice", "inspect", "handshake"}
Upgrading == {"switching", "copying", "upgraded"}
Inners == {"transport", "roundtrip", "originGuard", "originDial", "response"} \cup Upgrading
Plains == {"plainProfile", "plainGuard", "plainDial", "plainWrite", "plainResponse", "plainUpgraded"}
Trying == {"roundtrip", "originGuard", "originDial"}
InFlight == Trying \cup Upgrading \cup {"tunnel200", "splice", "response", "plainResponse", "plainUpgraded"}
Settling == {"closed", "bumpRead", "plainRead"}

USE DEF Dials, Tunnels, Upgrading, Inners, Plains, Trying, InFlight, Settling

\* Of what is on its way out.
PointOK(h, o) ==
    /\ h.pc \in InFlight => Open(o)
    /\ h.pc \notin InFlight \cup Settling => Clean(o)
    /\ h.pc \in Settling => Settled(h, o)
    /\ h.pc \in Tunnels \cup {"connect"} => h.req.kind = "connect"
    /\ h.pc \in Inners \cup {"authorize"} => h.req.kind = "inner"
    /\ h.pc \in Plains \cup {"plain"} => h.req.kind = "plain"
    /\ h.pc \in {"new", "identify", "connect", "tunnel", "tunnelGuard", "tunnelDial", "tunnel200"} => o.status = 0
    /\ h.pc = "new" => h.req.kind = None
    /\ h.pc = "identify" => h.req.kind \in {"connect", "plain"}
    /\ h.pc = "plainUpgraded" => o.status = 101
    /\ h.pc = "response" => o.leg # NoLeg

\* Of what it is on its way under.
RightOK(h) ==
    /\ h.pc \in Tunnels \cup Inners \cup Plains \cup {"bumpRead", "authorize"} => Authorized(h)
    /\ h.pc \in Inners \cup Plains => Allowed(h)
    /\ h.pc \in Dials => \E s \in DOMAIN Snapshots :
           /\ DecidingUpstream(h) \in DOMAIN Snapshots[s].upstreams
           /\ h.profile = Snapshots[s].upstreams[DecidingUpstream(h)]
    /\ h.pc \in {"tunnelDial", "originDial"} => Checked(h.addrs, h.req.host)

\* Of what is left of it to read.
ReadOK(h, o) ==
    /\ h.unread \in BOOLEAN
    /\ h.pc \in Tunnels \cup {"connect", "plainResponse", "plainRead"} => h.unread = FALSE
    /\ h.pc = "identify" /\ h.req.kind = "connect" => h.unread = FALSE
    /\ h.pc = "bumpRead" /\ h.unread = TRUE => o.decision = "allow"

TransportOK(h, T) ==
    h.pc \in Trying \cup Upgrading \cup {"response"} => h.rdec.upstream \in T

ConnOK(h, o, T) ==
    IsHandler(h) /\ OutOK(h, o) /\ PointOK(h, o) /\ RightOK(h) /\ ReadOK(h, o) /\ TransportOK(h, T)

EntryOK(e, T) ==
    /\ e.profile \in T
    /\ e.leg # NoLeg /\ e.leg.host = e.host
    /\ OwnAccount(e.leg, e.profile) /\ Guarded(e.leg)

IInv ==
    /\ snap \in DOMAIN Snapshots /\ dns \in DOMAIN DnsStates
    /\ conn = [c \in Conns |-> conn[c]] /\ out = [c \in Conns |-> out[c]]
    /\ \A c \in Conns : ConnOK(conn[c], out[c], transports)
    /\ \A e \in pool : EntryOK(e, transports)

-----------------------------------------------------------------------------
(* Facts about the parts. *)

\* A connect decision is about the host it was asked for, and has a mode.
LEMMA DecisionIs ==
    ASSUME NEW P, NEW id, NEW host, NEW port
    PROVE  /\ AuthorizeConnect(P, id, host, port).host = host
           /\ AuthorizeConnect(P, id, host, port).port = port
           /\ AuthorizeConnect(P, id, host, port).mode \in {"tunnel", "inspect"}
BY DEF AuthorizeConnect, TLSMode

LEMMA AuthorizedHost ==
    ASSUME NEW h, Authorized(h)
    PROVE  h.dec.host = h.req.host /\ h.dec.port = h.req.port
BY DecisionIs DEF Authorized

\* A profile's account is one of those its name stood for.
LEMMA ProxyLeg ==
    ASSUME NEW name, NEW s \in DOMAIN Snapshots, name \in DOMAIN Snapshots[s].upstreams, NEW host
    PROVE  LET leg == ViaProxy(Snapshots[s].upstreams[name], host)
           IN  /\ leg # NoLeg /\ leg.via = "proxy" /\ leg.host = host
               /\ OwnAccount(leg, name) /\ Guarded(leg)
BY DEF ViaProxy, NoLeg, None, OwnAccount, Accounts, Guarded

LEMMA DirectLeg ==
    ASSUME NEW addrs, NEW host, Checked(addrs, host), NEW a \in addrs, NEW name
    PROVE  LET leg == Direct(host, a)
           IN  /\ leg # NoLeg /\ leg.via = "direct" /\ leg.host = host
               /\ OwnAccount(leg, name) /\ Guarded(leg)
BY DEF Direct, NoLeg, None, OwnAccount, Checked, Guarded

\* What a dial can end in.
Dialable(dial, host, name) ==
    /\ dial.err \in {None, "internal", "auth", "refused", "unreachable"}
    /\ dial.err = None => dial.leg # NoLeg
    /\ dial.leg # NoLeg => dial.leg.host = host /\ OwnAccount(dial.leg, name) /\ Guarded(dial.leg)

LEMMA DialOutcomes ==
    ASSUME NEW name, NEW s \in DOMAIN Snapshots, name \in DOMAIN Snapshots[s].upstreams,
           NEW addrs, NEW host, Checked(addrs, host), NEW profile, profile = Snapshots[s].upstreams[name],
           NEW dial \in Dial(profile, host, addrs)
    PROVE  Dialable(dial, host, name)
<1>1. CASE dial.leg = NoLeg /\ dial.err \in {"internal", "unreachable"}
    BY <1>1 DEF Dialable, None
<1>2. CASE \E a \in addrs : dial = Outcome(None, Direct(host, a))
    <2>1. PICK a \in addrs : dial = Outcome(None, Direct(host, a))
        BY <1>2
    <2>2. dial.err = None /\ dial.leg = Direct(host, a)
        BY <2>1 DEF Outcome
    <2> QED
        BY <2>2, DirectLeg DEF Dialable
<1>3. CASE \E err \in {None, "auth", "refused", "unreachable"} :
               dial = Outcome(err, ViaProxy(profile, host))
    <2>1. PICK err \in {None, "auth", "refused", "unreachable"} : dial = Outcome(err, ViaProxy(profile, host))
        BY <1>3
    <2>2. dial.err = err /\ dial.leg = ViaProxy(profile, host)
        BY <2>1 DEF Outcome
    <2>3. /\ dial.leg # NoLeg /\ dial.leg.via = "proxy" /\ dial.leg.host = host
          /\ OwnAccount(dial.leg, name) /\ Guarded(dial.leg)
        BY <2>2, ProxyLeg
    <2> QED
        BY <2>2, <2>3 DEF Dialable
<1>4. \/ dial = Outcome("internal", NoLeg) \/ dial = Outcome("unreachable", NoLeg)
      \/ \E a \in addrs : dial = Outcome(None, Direct(host, a))
      \/ \E err \in {None, "auth", "refused", "unreachable"} :
               dial = Outcome(err, ViaProxy(profile, host))
    BY DEF Dial, dialDirect, connect, Unreachable
<1>5. \A err : Outcome(err, NoLeg).err = err /\ Outcome(err, NoLeg).leg = NoLeg
    BY DEF Outcome
<1> QED
    BY <1>1, <1>2, <1>3, <1>4, <1>5

-----------------------------------------------------------------------------
(* Steps of one handler. *)

\* k has the request and the decisions of h.
SameRequest(h, k) ==
    k.id = h.id /\ k.req = h.req /\ k.dec = h.dec /\ k.rdec = h.rdec /\ k.seen = h.seen

LEMMA SameOut ==
    ASSUME NEW h, NEW k, NEW o, SameRequest(h, k), OutOK(h, o)
    PROVE  OutOK(k, o)
BY DEF SameRequest, OutOK, Judged, Authorized, Allowed, LegOK, NamesDecider, DecidingPolicy, DecidingUpstream

\* Moving the program counter, with or without the locals of a dial.
LEMMA Moved ==
    ASSUME NEW h, IsHandler(h), NEW p, NEW k, k = GoTo(h, p)
    PROVE  /\ IsHandler(k) /\ SameRequest(h, k) /\ k.pc = p
           /\ k.profile = h.profile /\ k.addrs = h.addrs /\ k.unread = h.unread
BY DEF IsHandler, SameRequest, GoTo

LEMMA MovedDialled ==
    ASSUME NEW h, IsHandler(h), NEW p, NEW k, k = GoTo(Dialled(h), p)
    PROVE  IsHandler(k) /\ SameRequest(h, k) /\ k.pc = p /\ k.unread = h.unread
BY DEF IsHandler, SameRequest, GoTo, Dialled

\* On a connection that was idle.
LEMMA MovedReused ==
    ASSUME NEW h, IsHandler(h), NEW p, NEW k, k = GoTo([Dialled(h) EXCEPT !.reused = TRUE], p)
    PROVE  IsHandler(k) /\ SameRequest(h, k) /\ k.pc = p /\ k.unread = h.unread
BY DEF IsHandler, SameRequest, GoTo, Dialled

\* What a record adds.
LEMMA LoggedIs ==
    ASSUME NEW o, IsOut(o), NEW decision, NEW policy, NEW upstream, NEW status,
           NEW q, q = Logged(o, decision, policy, upstream, status)
    PROVE  /\ IsOut(q) /\ q.leg = o.leg /\ q.refused = o.refused
           /\ q.records = o.records + 1 /\ q.decision = decision /\ q.policy = policy
           /\ q.upstream = upstream /\ q.status = status
BY DEF IsOut, Logged

\* The one record of a request, and what it must say of one that left.
LEMMA LogStep ==
    ASSUME NEW h, NEW o, OutOK(h, o), Open(o),
           NEW decision, NEW policy, NEW upstream, NEW status,
           decision \in Denials => o.leg = NoLeg,
           \/ o.leg = NoLeg
           \/ policy = DecidingPolicy(h) /\ upstream = DecidingUpstream(h)
           \/ h.req.kind = "plain" /\ decision = "error_internal",
           NEW q, q = Logged(o, decision, policy, upstream, status)
    PROVE  OutOK(h, q) /\ q.records = 1 /\ q.decision = decision
<1>1. /\ IsOut(q) /\ q.leg = o.leg /\ q.refused = FALSE
      /\ q.records = 1 /\ q.decision = decision /\ q.policy = policy
      /\ q.upstream = upstream /\ q.status = status
    BY LoggedIs DEF OutOK, Open
<1>2. q.leg # NoLeg => Judged(h) /\ LegOK(h, q)
    BY <1>1 DEF OutOK, LegOK
<1>3. q.leg # NoLeg => NamesDecider(h, q)
    BY <1>1 DEF NamesDecider
<1> QED
    BY <1>1, <1>2, <1>3 DEF OutOK

\* A handler that returns after its record.
LEMMA LogAndReturn ==
    ASSUME NEW h, IsHandler(h), h.unread \in BOOLEAN, NEW o, OutOK(h, o), Open(o),
           NEW decision, NEW policy, NEW upstream, NEW status,
           decision \in Denials => o.leg = NoLeg,
           \/ o.leg = NoLeg
           \/ policy = DecidingPolicy(h) /\ upstream = DecidingUpstream(h)
           \/ h.req.kind = "plain" /\ decision = "error_internal",
           NEW q, q = Logged(o, decision, policy, upstream, status),
           NEW k, k = GoTo(Dialled(h), "closed"), NEW T
    PROVE  ConnOK(k, q, T)
<1>1. OutOK(h, q) /\ q.records = 1
    BY LogStep
<1>2. IsHandler(k) /\ SameRequest(h, k) /\ k.pc = "closed" /\ k.unread = h.unread
    BY MovedDialled
<1>3. OutOK(k, q)
    BY <1>1, <1>2, SameOut
<1> QED
    BY <1>1, <1>2, <1>3
       DEF ConnOK, PointOK, RightOK, ReadOK, TransportOK, Settled,
           Dials, Tunnels, Inners, Plains, InFlight, Settling

\* A handler that returns with nothing to record.
LEMMA JustReturn ==
    ASSUME NEW h, IsHandler(h), h.unread \in BOOLEAN, NEW o, OutOK(h, o), Settled(h, o),
           NEW k, k = GoTo(Dialled(h), "closed"), NEW T
    PROVE  ConnOK(k, o, T)
<1>1. IsHandler(k) /\ SameRequest(h, k) /\ k.pc = "closed" /\ k.unread = h.unread
    BY MovedDialled
<1>2. OutOK(k, o)
    BY <1>1, SameOut
<1> QED
    BY <1>1, <1>2
       DEF ConnOK, PointOK, RightOK, ReadOK, TransportOK, Settled, SameRequest,
           Dials, Tunnels, Inners, Plains, InFlight, Settling

-----------------------------------------------------------------------------
(* Steps of the relay. *)

\* A handler's step leaves the other handlers as they are: transports only grow.
LEMMA HandlerStep ==
    ASSUME IInv, NEW c \in Conns, NEW k, NEW q,
           conn' = [conn EXCEPT ![c] = k], out' = [out EXCEPT ![c] = q],
           ConnOK(k, q, transports'), transports \subseteq transports',
           \A e \in pool' : e \in pool \/ EntryOK(e, transports'),
           EnvironmentUnchanged
    PROVE  IInv'
<1>1. /\ conn' = [d \in Conns |-> conn'[d]] /\ out' = [d \in Conns |-> out'[d]]
      /\ conn'[c] = k /\ out'[c] = q
      /\ \A d \in Conns : d # c => conn'[d] = conn[d] /\ out'[d] = out[d]
    BY DEF IInv
<1>2. \A h, o : ConnOK(h, o, transports) => ConnOK(h, o, transports')
    BY DEF ConnOK, TransportOK
<1>3. \A d \in Conns : ConnOK(conn'[d], out'[d], transports')
    BY <1>1, <1>2 DEF IInv
<1>4. \A e \in pool' : EntryOK(e, transports')
    BY DEF IInv, EntryOK
<1>5. snap' \in DOMAIN Snapshots /\ dns' \in DOMAIN DnsStates
    BY DEF IInv, EnvironmentUnchanged
<1> QED
    BY <1>1, <1>3, <1>4, <1>5 DEF IInv

\* What a handler knows, and its request's part when that does not change.
LEMMA Known ==
    ASSUME IInv, NEW c \in Conns
    PROVE  /\ ConnOK(conn[c], out[c], transports)
           /\ UNCHANGED out => out' = [out EXCEPT ![c] = out[c]]
BY DEF IInv

\* Between two waits, nothing seen outside.
LEMMA MoveStep ==
    ASSUME IInv, NEW c \in Conns, NEW h, NEW p, Continue(c, h, p),
           ConnOK(GoTo(h, p), out[c], transports),
           UNCHANGED out, SharedUnchanged, EnvironmentUnchanged
    PROVE  IInv'
BY Known, HandlerStep DEF Continue, SharedUnchanged

LEMMA FailStep ==
    ASSUME IInv, NEW c \in Conns, NEW o, OutOK(conn[c], o), Open(o),
           NEW decision, NEW policy, NEW upstream, NEW status,
           decision \in Denials => o.leg = NoLeg,
           \/ o.leg = NoLeg
           \/ policy = DecidingPolicy(conn[c]) /\ upstream = DecidingUpstream(conn[c])
           \/ conn[c].req.kind = "plain" /\ decision = "error_internal",
           Leave(c, Logged(o, decision, policy, upstream, status)), Return(c),
           SharedUnchanged, EnvironmentUnchanged
    PROVE  IInv'
<1> DEFINE k == GoTo(Dialled(conn[c]), "closed")
           q == Logged(o, decision, policy, upstream, status)
<1>1. IsHandler(conn[c]) /\ conn[c].unread \in BOOLEAN
    BY Known DEF ConnOK, ReadOK
<1>2. ConnOK(k, q, transports)
    BY <1>1, LogAndReturn
<1>3. conn' = [conn EXCEPT ![c] = k] /\ out' = [out EXCEPT ![c] = q]
    BY DEF Return, Continue, Leave
<1> HIDE DEF k, q
<1> QED
    BY <1>2, <1>3, HandlerStep DEF SharedUnchanged

LEMMA ReturnStep ==
    ASSUME IInv, NEW c \in Conns, Settled(conn[c], out[c]), Return(c), UNCHANGED out,
           SharedUnchanged, EnvironmentUnchanged
    PROVE  IInv'
<1> DEFINE k == GoTo(Dialled(conn[c]), "closed")
<1>1. IsHandler(conn[c]) /\ conn[c].unread \in BOOLEAN /\ OutOK(conn[c], out[c])
    BY Known DEF ConnOK, ReadOK
<1>2. ConnOK(k, out[c], transports)
    BY <1>1, JustReturn
<1>3. conn' = [conn EXCEPT ![c] = k] /\ out' = [out EXCEPT ![c] = out[c]]
    BY Known DEF Return, Continue
<1> HIDE DEF k
<1> QED
    BY <1>2, <1>3, HandlerStep DEF SharedUnchanged

\* dialFailure, except on the guard's refusal.
LEMMA DialFailureStep ==
    ASSUME IInv, NEW c \in Conns, NEW o, OutOK(conn[c], o), Open(o), NEW err, err # "guard",
           \/ o.leg = NoLeg
           \/ conn[c].req.kind = "connect"
           \/ conn[c].req.kind = "plain" /\ err = "internal",
           dialFailure(c, o, err), SharedUnchanged, EnvironmentUnchanged
    PROVE  IInv'
<1> DEFINE dec == conn[c].dec
<1>1. conn[c].req.kind = "connect" =>
          firstPolicy(dec) = DecidingPolicy(conn[c]) /\ dec.upstream = DecidingUpstream(conn[c])
    BY DEF DecidingPolicy, DecidingUpstream
<1>2. CASE err \in {"auth", "refused", "unreachable"}
    <2>1. Leave(c, Logged(o, "error_upstream", firstPolicy(dec), dec.upstream, 502)) /\ Return(c)
        BY <1>2 DEF dialFailure
    <2> QED
        BY <1>1, <1>2, <2>1, FailStep DEF Denials
<1>3. CASE err \notin {"auth", "refused", "unreachable"}
    <2>1. Leave(c, Logged(o, "error_internal", firstPolicy(dec), dec.upstream, 502)) /\ Return(c)
        BY <1>3 DEF dialFailure
    <2> QED
        BY <1>1, <2>1, FailStep DEF Denials
<1> QED
    BY <1>2, <1>3

LEMMA RefusedIs ==
    ASSUME NEW o, IsOut(o), NEW q, q = GuardRefused(o)
    PROVE  /\ IsOut(q) /\ q.leg = o.leg /\ q.refused = TRUE
           /\ q.records = o.records /\ q.decision = o.decision /\ q.policy = o.policy
           /\ q.upstream = o.upstream /\ q.status = o.status
BY DEF IsOut, GuardRefused

\* A refusal of the guard, before anything left: told and recorded as a denial.
LEMMA RefusalStep ==
    ASSUME IInv, NEW c \in Conns, Clean(out[c]), conn[c].req.kind # "inner",
           dialFailure(c, out[c], "guard"), SharedUnchanged, EnvironmentUnchanged
    PROVE  IInv'
<1> DEFINE h == conn[c]
           k == GoTo(Dialled(h), "closed")
           b == Logged(out[c], "deny_guard", firstPolicy(h.dec), h.dec.upstream, 403)
           q == GuardRefused(b)
<1>1. IsHandler(h) /\ h.unread \in BOOLEAN /\ OutOK(h, out[c])
    BY Known DEF ConnOK, ReadOK
<1>2. conn' = [conn EXCEPT ![c] = k] /\ out' = [out EXCEPT ![c] = q]
    BY DEF dialFailure, Return, Continue, Leave
<1>3. /\ IsOut(b) /\ b.leg = NoLeg /\ b.records = 1 /\ b.decision = "deny_guard" /\ b.status = 403
    BY <1>1, LoggedIs DEF OutOK, Clean, Open
<1>4. IsHandler(k) /\ SameRequest(h, k) /\ k.pc = "closed" /\ k.unread = h.unread
    BY <1>1, MovedDialled
<1> HIDE DEF b, k
<1>5. /\ IsOut(q) /\ q.leg = NoLeg /\ q.records = 1 /\ q.decision = "deny_guard" /\ q.status = 403
      /\ q.refused = TRUE
    <2>1. IsOut(b)
        BY <1>3
    <2>2. /\ IsOut(q) /\ q.leg = b.leg /\ q.refused = TRUE /\ q.records = b.records
          /\ q.decision = b.decision /\ q.status = b.status
        BY <2>1, RefusedIs
    <2> HIDE DEF q
    <2> QED
        BY <1>3, <2>2
<1> HIDE DEF q
<1>6. OutOK(k, q)
    BY <1>4, <1>5 DEF OutOK, SameRequest
<1>7. ConnOK(k, q, transports)
    BY <1>1, <1>4, <1>5, <1>6 DEF ConnOK, PointOK, RightOK, ReadOK, TransportOK, Settled
<1> QED
    BY <1>2, <1>7, HandlerStep DEF SharedUnchanged

\* A leg that the handler's request may take.
Leavable(h, leg) ==
    leg # NoLeg => leg.host = h.req.host /\ OwnAccount(leg, DecidingUpstream(h)) /\ Guarded(leg)

\* What the outside saw.
LEMMA SentIs ==
    ASSUME NEW h, NEW o, OutOK(h, o), Open(o), Judged(h), NEW leg, Leavable(h, leg),
           NEW q, q = Sent(o, leg)
    PROVE  OutOK(h, q) /\ Open(q) /\ (leg # NoLeg => q.leg = leg) /\ q.status = o.status
<1>1. CASE leg = NoLeg
    BY <1>1 DEF Sent
<1>2. CASE leg # NoLeg
    <2>1. /\ IsOut(q) /\ q.leg = leg /\ q.refused = o.refused /\ q.records = o.records
          /\ q.decision = o.decision /\ q.status = o.status
        BY <1>2 DEF OutOK, IsOut, Sent
    <2>2. LegOK(h, q)
        BY <1>2, <2>1 DEF LegOK, Leavable
    <2> QED
        BY <1>2, <2>1, <2>2 DEF OutOK, Open, Denials, None
<1> QED
    BY <1>1, <1>2

\* The leg of a dial may be taken.
LEMMA DialledLeg ==
    ASSUME NEW h, RightOK(h), h.pc \in {"tunnelDial", "originDial"},
           NEW dial \in Dial(h.profile, h.dec.host, h.addrs)
    PROVE  /\ Leavable(h, dial.leg)
           /\ dial.err \in {None, "internal", "auth", "refused", "unreachable"}
           /\ dial.err = None => dial.leg # NoLeg
<1>1. h.dec.host = h.req.host
    BY AuthorizedHost DEF RightOK
<1>2. PICK s \in DOMAIN Snapshots :
          /\ DecidingUpstream(h) \in DOMAIN Snapshots[s].upstreams
          /\ h.profile = Snapshots[s].upstreams[DecidingUpstream(h)]
    BY DEF RightOK
<1>3. Checked(h.addrs, h.req.host)
    BY DEF RightOK
<1>4. Dialable(dial, h.req.host, DecidingUpstream(h))
    BY <1>1, <1>2, <1>3, DialOutcomes
<1> QED
    BY <1>4 DEF Dialable, Leavable

-----------------------------------------------------------------------------
(* The dials, common to the three kinds of request. *)

LEMMA ProfileSet ==
    ASSUME NEW h, IsHandler(h), NEW v, NEW p, NEW k, k = GoTo([h EXCEPT !.profile = v], p)
    PROVE  IsHandler(k) /\ SameRequest(h, k) /\ k.pc = p /\ k.profile = v /\ k.unread = h.unread
BY DEF IsHandler, SameRequest, GoTo

LEMMA AddrsSet ==
    ASSUME NEW h, IsHandler(h), NEW v, NEW p, NEW k, k = GoTo([h EXCEPT !.addrs = v], p)
    PROVE  /\ IsHandler(k) /\ SameRequest(h, k) /\ k.pc = p /\ k.addrs = v
           /\ k.profile = h.profile /\ k.unread = h.unread
BY DEF IsHandler, SameRequest, GoTo

\* The profile is found in the current snapshot, whatever snapshot decided.
LEMMA ProfileStep ==
    ASSUME IInv, NEW c \in Conns, NEW next,
           \/ conn[c].pc = "tunnel" /\ next = "tunnelGuard"
           \/ conn[c].pc = "roundtrip" /\ next = "originGuard"
           \/ conn[c].pc = "plainProfile" /\ next = "plainGuard",
           NEW name, name = DecidingUpstream(conn[c]), HasUpstream(name),
           Continue(c, [conn[c] EXCEPT !.profile = GetUpstreamProxy(name)], next),
           UNCHANGED out, SharedUnchanged, EnvironmentUnchanged
    PROVE  IInv'
<1> DEFINE h == conn[c]
           k == GoTo([h EXCEPT !.profile = GetUpstreamProxy(name)], next)
<1>1. ConnOK(h, out[c], transports) /\ snap \in DOMAIN Snapshots
    BY Known DEF IInv
<1>2. /\ IsHandler(k) /\ SameRequest(h, k) /\ k.pc = next /\ k.profile = GetUpstreamProxy(name)
      /\ k.unread = h.unread
    BY <1>1, ProfileSet DEF ConnOK
<1>3. conn' = [conn EXCEPT ![c] = k] /\ out' = [out EXCEPT ![c] = out[c]]
    BY Known DEF Continue
<1> HIDE DEF k
<1>4. OutOK(k, out[c])
    BY <1>1, <1>2, SameOut DEF ConnOK
<1>5. PointOK(k, out[c]) /\ ReadOK(k, out[c]) /\ TransportOK(k, transports)
    BY <1>1, <1>2 DEF ConnOK, PointOK, ReadOK, TransportOK, SameRequest
<1>6. RightOK(k)
    <2>1. DecidingUpstream(k) = name
        BY <1>2 DEF SameRequest, DecidingUpstream
    <2>2. name \in DOMAIN Snapshots[snap].upstreams /\ k.profile = Snapshots[snap].upstreams[name]
        BY <1>2 DEF HasUpstream, GetUpstreamProxy
    <2>3. Authorized(k) /\ (next # "tunnelGuard" => Allowed(k))
        BY <1>1, <1>2 DEF ConnOK, RightOK, SameRequest, Authorized, Allowed
    <2> QED
        BY <1>1, <1>2, <2>1, <2>2, <2>3 DEF RightOK
<1> QED
    BY <1>2, <1>3, <1>4, <1>5, <1>6, HandlerStep DEF ConnOK, SharedUnchanged

\* The addresses the guard hands on are those of an answer it checked.
LEMMA GuardStep ==
    ASSUME IInv, NEW c \in Conns, NEW next,
           \/ conn[c].pc = "tunnelGuard" /\ next = "tunnelDial"
           \/ conn[c].pc = "originGuard" /\ next = "originDial"
           \/ conn[c].pc = "plainGuard" /\ next = "plainDial",
           NEW res, res = Resolve(Lookup(conn[c].dec.host)), res.err = None,
           Continue(c, [conn[c] EXCEPT !.addrs = res.addrs], next),
           UNCHANGED out, SharedUnchanged, EnvironmentUnchanged
    PROVE  IInv'
<1> DEFINE h == conn[c]
           k == GoTo([h EXCEPT !.addrs = res.addrs], next)
<1>1. ConnOK(h, out[c], transports) /\ dns \in DOMAIN DnsStates
    BY Known DEF IInv
<1>2. conn' = [conn EXCEPT ![c] = k] /\ out' = [out EXCEPT ![c] = out[c]]
    BY Known DEF Continue
<1>3. Authorized(h) /\ h.dec.host = h.req.host
    BY <1>1, AuthorizedHost DEF ConnOK, RightOK
<1>4. Checked(res.addrs, h.req.host)
    BY <1>1, <1>3 DEF Resolve, Lookup, None, Checked
<1>5. /\ IsHandler(k) /\ SameRequest(h, k) /\ k.pc = next /\ k.addrs = res.addrs
      /\ k.profile = h.profile /\ k.unread = h.unread
    BY <1>1, AddrsSet DEF ConnOK
<1> HIDE DEF k
<1>6. OutOK(k, out[c])
    BY <1>1, <1>5, SameOut DEF ConnOK
<1>7. PointOK(k, out[c]) /\ ReadOK(k, out[c]) /\ TransportOK(k, transports)
    BY <1>1, <1>5 DEF ConnOK, PointOK, ReadOK, TransportOK, SameRequest
<1>8. RightOK(k)
    <2>1. DecidingUpstream(k) = DecidingUpstream(h) /\ k.req = h.req
        BY <1>5 DEF SameRequest, DecidingUpstream
    <2>2. Authorized(k) /\ (next # "tunnelDial" => Allowed(k))
        BY <1>1, <1>5 DEF ConnOK, RightOK, SameRequest, Authorized, Allowed
    <2>3. RightOK(h) /\ h.pc \in Dials
        BY <1>1 DEF ConnOK
    <2> QED
        BY <1>4, <1>5, <2>1, <2>2, <2>3 DEF RightOK
<1> QED
    BY <1>2, <1>5, <1>6, <1>7, <1>8, HandlerStep DEF ConnOK, SharedUnchanged

\* Where dialFailure is used, nothing has been recorded.
LEMMA MissingStep ==
    ASSUME IInv, NEW c \in Conns, Clean(out[c]), NEW err \in {"missing", "internal", "unreachable"},
           dialFailure(c, out[c], err), SharedUnchanged, EnvironmentUnchanged
    PROVE  IInv'
<1>1. OutOK(conn[c], out[c]) /\ Open(out[c]) /\ out[c].leg = NoLeg
    BY Known DEF ConnOK, Clean
<1> QED
    BY <1>1, DialFailureStep

-----------------------------------------------------------------------------
(* tunnel. *)

LEMMA tunnelProfileStep ==
    ASSUME IInv, NEW c \in Conns, tunnelProfile(c), EnvironmentUnchanged
    PROVE  IInv'
<1>1. conn[c].pc = "tunnel" /\ SharedUnchanged
    BY DEF tunnelProfile, At
<1>2. Clean(out[c]) /\ DecidingUpstream(conn[c]) = conn[c].dec.upstream
    BY <1>1, Known DEF ConnOK, PointOK, DecidingUpstream
<1>3. CASE HasUpstream(conn[c].dec.upstream)
    BY <1>1, <1>2, <1>3, ProfileStep DEF tunnelProfile, Upstream
<1>4. CASE ~HasUpstream(conn[c].dec.upstream)
    BY <1>1, <1>2, <1>4, MissingStep DEF tunnelProfile, Upstream
<1> QED
    BY <1>3, <1>4

LEMMA tunnelGuardStep ==
    ASSUME IInv, NEW c \in Conns, tunnelGuard(c), EnvironmentUnchanged
    PROVE  IInv'
<1> DEFINE res == Resolve(Lookup(conn[c].dec.host))
<1>1. conn[c].pc = "tunnelGuard" /\ SharedUnchanged
    BY DEF tunnelGuard, At
<1>2. Clean(out[c]) /\ conn[c].req.kind = "connect"
    BY <1>1, Known DEF ConnOK, PointOK
<1>3. CASE res.err = None
    BY <1>1, <1>2, <1>3, GuardStep DEF tunnelGuard, Guard
<1>4. CASE res.err # None
    BY <1>1, <1>2, <1>4, RefusalStep DEF tunnelGuard, Guard
<1> QED
    BY <1>3, <1>4

LEMMA tunnelDialStep ==
    ASSUME IInv, NEW c \in Conns, tunnelDial(c), EnvironmentUnchanged
    PROVE  IInv'
<1> DEFINE h == conn[c]
<1>1. h.pc = "tunnelDial" /\ SharedUnchanged
    BY DEF tunnelDial, At
<1>2. ConnOK(h, out[c], transports)
    BY Known
<1>3. /\ Clean(out[c]) /\ h.req.kind = "connect" /\ OutOK(h, out[c]) /\ RightOK(h) /\ Judged(h)
      /\ out[c].status = 0 /\ h.unread = FALSE /\ IsHandler(h)
    BY <1>1, <1>2 DEF ConnOK, PointOK, RightOK, Judged, ReadOK
<1>4. PICK dial \in Dial(h.profile, h.dec.host, h.addrs) :
          LET o == Sent(out[c], dial.leg)
          IN  IF dial.err = None THEN Continue(c, Dialled(h), "tunnel200") /\ Leave(c, o)
              ELSE dialFailure(c, o, dial.err)
    BY DEF tunnelDial
<1> DEFINE o == Sent(out[c], dial.leg)
<1>5. /\ Leavable(h, dial.leg)
      /\ dial.err \in {None, "internal", "auth", "refused", "unreachable"}
    BY <1>1, <1>3, DialledLeg
<1>6. OutOK(h, o) /\ Open(o) /\ o.status = 0
    BY <1>3, <1>5, SentIs DEF Clean
<1>7. CASE dial.err = None
    <2> DEFINE k == GoTo(Dialled(h), "tunnel200")
    <2>1. conn' = [conn EXCEPT ![c] = k] /\ out' = [out EXCEPT ![c] = o]
        BY <1>4, <1>7 DEF Continue, Leave
    <2> HIDE DEF o
    <2>2. IsHandler(k) /\ SameRequest(h, k) /\ k.pc = "tunnel200" /\ k.unread = FALSE
        BY <1>3, MovedDialled
    <2> HIDE DEF k
    <2>3. OutOK(k, o) /\ Authorized(k) /\ k.req.kind = "connect"
        BY <1>3, <1>6, <2>2, SameOut DEF SameRequest, Judged, Authorized
    <2>4. ConnOK(k, o, transports)
        BY <1>6, <2>2, <2>3 DEF ConnOK, PointOK, RightOK, ReadOK, TransportOK
    <2> QED
        BY <1>1, <2>1, <2>4, HandlerStep DEF SharedUnchanged
<1>8. CASE dial.err # None
    <2>1. dialFailure(c, o, dial.err)
        BY <1>4, <1>8
    <2> HIDE DEF o
    <2> QED
        BY <1>1, <1>3, <1>5, <1>6, <1>8, <2>1, DialFailureStep DEF None
<1> QED
    BY <1>7, <1>8

LEMMA AnsweredIs ==
    ASSUME NEW h, NEW o, OutOK(h, o), Open(o), NEW status, NEW q, q = Answered(o, status)
    PROVE  /\ OutOK(h, q) /\ Open(q) /\ (Clean(o) => Clean(q))
           /\ q.leg = o.leg /\ q.status = status
<1>1. /\ IsOut(q) /\ q.leg = o.leg /\ q.refused = o.refused
      /\ q.records = o.records /\ q.decision = o.decision /\ q.status = status
    BY DEF OutOK, IsOut, Answered
<1>2. q.leg # NoLeg => LegOK(h, q)
    BY <1>1 DEF OutOK, LegOK
<1>3. Open(q) /\ (Clean(o) => Clean(q))
    BY <1>1 DEF Open, Clean
<1> QED
    BY <1>1, <1>2, <1>3 DEF OutOK, Open

\* The handler goes on, with its locals, after an answer.
AnswersAt(point, next, status) ==
    \/ point = "tunnel200" /\ next = "splice"
    \/ point = "inspect" /\ next = "handshake"
    \/ point = "switching" /\ next \in {"copying", "upgraded"}
    \/ point = "plainResponse" /\ next = "plainUpgraded" /\ status = 101

LEMMA AnsweredHandler ==
    ASSUME NEW h, NEW o, NEW T, ConnOK(h, o, T), NEW next, NEW status, AnswersAt(h.pc, next, status),
           NEW k, k = GoTo(h, next), NEW q, q = Answered(o, status)
    PROVE  ConnOK(k, q, T)
<1>1. OutOK(h, o) /\ Open(o)
    BY DEF ConnOK, PointOK, Clean, AnswersAt
<1>2. OutOK(h, q) /\ Open(q) /\ (Clean(o) => Clean(q)) /\ q.leg = o.leg /\ q.status = status
    BY <1>1, AnsweredIs
<1>3. IsHandler(k) /\ SameRequest(h, k) /\ k.pc = next /\ k.unread = h.unread
    BY Moved DEF ConnOK
<1>4. OutOK(k, q)
    BY <1>2, <1>3, SameOut
<1>5. PointOK(k, q) /\ ReadOK(k, q) /\ TransportOK(k, T)
    BY <1>2, <1>3 DEF ConnOK, PointOK, ReadOK, TransportOK, SameRequest, AnswersAt
<1>6. RightOK(k)
    BY <1>3 DEF ConnOK, RightOK, SameRequest, Authorized, Allowed, AnswersAt
<1> QED
    BY <1>3, <1>4, <1>5, <1>6 DEF ConnOK

LEMMA AnswerStep ==
    ASSUME IInv, NEW c \in Conns, NEW next, NEW status, AnswersAt(conn[c].pc, next, status),
           Continue(c, conn[c], next), Leave(c, Answered(out[c], status)),
           SharedUnchanged, EnvironmentUnchanged
    PROVE  IInv'
<1> DEFINE k == GoTo(conn[c], next)
           q == Answered(out[c], status)
<1>1. ConnOK(k, q, transports)
    BY Known, AnsweredHandler
<1>2. conn' = [conn EXCEPT ![c] = k] /\ out' = [out EXCEPT ![c] = q]
    BY DEF Continue, Leave
<1> HIDE DEF k, q
<1> QED
    BY <1>1, <1>2, HandlerStep DEF SharedUnchanged

LEMMA tunnel200Step ==
    ASSUME IInv, NEW c \in Conns, tunnel200(c), EnvironmentUnchanged
    PROVE  IInv'
<1>1. conn[c].pc = "tunnel200" /\ SharedUnchanged
    BY DEF tunnel200, At
<1>2. Settled(conn[c], out[c])
    BY <1>1, Known DEF ConnOK, PointOK, Settled
<1>3. CASE Continue(c, conn[c], "splice") /\ Leave(c, Answered(out[c], 200))
    BY <1>1, <1>3, AnswerStep DEF AnswersAt
<1>4. CASE Return(c) /\ UNCHANGED out
    BY <1>1, <1>2, <1>4, ReturnStep
<1> QED
    BY <1>3, <1>4 DEF tunnel200

LEMMA tunnelEndStep ==
    ASSUME IInv, NEW c \in Conns, tunnelEnd(c), EnvironmentUnchanged
    PROVE  IInv'
<1>1. conn[c].pc = "splice" /\ SharedUnchanged
    BY DEF tunnelEnd, At
<1>2. /\ OutOK(conn[c], out[c]) /\ Open(out[c])
      /\ firstPolicy(conn[c].dec) = DecidingPolicy(conn[c])
      /\ conn[c].dec.upstream = DecidingUpstream(conn[c])
    BY <1>1, Known DEF ConnOK, PointOK, DecidingPolicy, DecidingUpstream
<1> QED
    BY <1>1, <1>2, FailStep DEF tunnelEnd, Denials

-----------------------------------------------------------------------------
(* handleInspect and serveBumped. *)

LEMMA inspect200Step ==
    ASSUME IInv, NEW c \in Conns, inspect200(c), EnvironmentUnchanged
    PROVE  IInv'
<1>1. conn[c].pc = "inspect" /\ SharedUnchanged
    BY DEF inspect200, At
<1>2. Settled(conn[c], out[c])
    BY <1>1, Known DEF ConnOK, PointOK, Settled, Clean
<1>3. CASE Continue(c, conn[c], "handshake") /\ Leave(c, Answered(out[c], 200))
    BY <1>1, <1>3, AnswerStep DEF AnswersAt
<1>4. CASE Return(c) /\ UNCHANGED out
    BY <1>1, <1>2, <1>4, ReturnStep
<1> QED
    BY <1>3, <1>4 DEF inspect200

LEMMA handshakeStep ==
    ASSUME IInv, NEW c \in Conns, handshake(c), EnvironmentUnchanged
    PROVE  IInv'
<1> DEFINE h == conn[c]
           k == GoTo(h, "bumpRead")
<1>1. h.pc = "handshake" /\ SharedUnchanged
    BY DEF handshake, At
<1>2. ConnOK(h, out[c], transports)
    BY Known
<1>3. OutOK(h, out[c]) /\ Open(out[c]) /\ out[c].leg = NoLeg
    BY <1>1, <1>2 DEF ConnOK, PointOK, Clean
<1>4. CASE Continue(c, h, "bumpRead") /\ UNCHANGED out
    <2>1. /\ IsHandler(k) /\ SameRequest(h, k) /\ k.pc = "bumpRead" /\ k.unread = h.unread
        BY <1>2, Moved DEF ConnOK
    <2> HIDE DEF k
    <2>2. OutOK(k, out[c])
        BY <1>3, <2>1, SameOut
    <2>3. PointOK(k, out[c]) /\ ReadOK(k, out[c]) /\ TransportOK(k, transports) /\ RightOK(k)
        BY <1>1, <1>2, <1>3, <2>1
           DEF ConnOK, PointOK, ReadOK, TransportOK, RightOK, SameRequest, Authorized, Settled
    <2>4. ConnOK(k, out[c], transports)
        BY <2>1, <2>2, <2>3 DEF ConnOK
    <2> QED
        BY <1>1, <1>4, <2>4, MoveStep DEF k
<1>5. CASE /\ Leave(c, Logged(out[c], "error_internal", firstPolicy(h.dec), None, 200))
           /\ Return(c)
    BY <1>1, <1>3, <1>5, FailStep DEF Denials
<1> QED
    BY <1>4, <1>5 DEF handshake

\* A new request: nothing of it is recorded, nothing has left.
LEMMA FreshOut ==
    ASSUME NEW h
    PROVE  OutOK(h, Fresh) /\ Clean(Fresh) /\ Fresh.status = 0
BY DEF OutOK, IsOut, Clean, Open, Fresh, Denials, None

IsRequest(r) ==
    r = [kind |-> r.kind, abs |-> r.abs, host |-> r.host, port |-> r.port, target |-> r.target,
         method |-> r.method, upgrade |-> r.upgrade, body |-> r.body, close |-> r.close]

LEMMA RequestsAre ==
    /\ \A r \in ConnectRequests : IsRequest(r) /\ r.kind = "connect" /\ r.body = "none"
    /\ \A r \in PlainRequests : IsRequest(r) /\ r.kind = "plain"
    /\ \A r \in InnerRequests : IsRequest(r) /\ r.kind = "inner"
<1>1. \A kind, bodies : \A r \in Requests(kind, bodies) : IsRequest(r) /\ r.kind = kind /\ r.body \in bodies
    BY DEF Requests, IsRequest
<1> QED
    BY <1>1, RequestsAssumption

\* A request in the place of h's.
LEMMA BumpedRequest ==
    ASSUME NEW h, IsHandler(h), NEW r, IsRequest(r), NEW p,
           NEW k, k = GoTo(Bumped(h, r), p)
    PROVE  /\ IsHandler(k) /\ k.pc = p /\ k.id = h.id /\ k.dec = h.dec /\ k.seen = h.seen
           /\ k.unread \in BOOLEAN
           /\ k.req.kind = r.kind /\ k.req.host = h.dec.host /\ k.req.port = h.dec.port
BY DEF IsHandler, IsRequest, GoTo, Bumped

LEMMA readBumpedRequestStep ==
    ASSUME IInv, NEW c \in Conns, readBumpedRequest(c), EnvironmentUnchanged
    PROVE  IInv'
<1> DEFINE h == conn[c]
<1>1. h.pc = "bumpRead" /\ SharedUnchanged
    BY DEF readBumpedRequest, At
<1>2. IsHandler(h) /\ Authorized(h)
    BY <1>1, Known DEF ConnOK, RightOK
<1>3. PICK r \in InnerRequests : conn' = [conn EXCEPT ![c] = GoTo(Bumped(h, r), "authorize")]
    BY DEF readBumpedRequest, Continue
<1> DEFINE k == GoTo(Bumped(h, r), "authorize")
<1>4. /\ IsHandler(k) /\ k.pc = "authorize" /\ k.id = h.id /\ k.dec = h.dec /\ k.seen = h.seen
      /\ k.unread \in BOOLEAN
      /\ k.req.kind = "inner" /\ k.req.host = h.dec.host /\ k.req.port = h.dec.port
    BY <1>2, RequestsAre, BumpedRequest
<1>5. conn' = [conn EXCEPT ![c] = k] /\ out' = [out EXCEPT ![c] = Fresh]
    BY <1>3 DEF readBumpedRequest, Leave
<1> HIDE DEF k
<1>6. Authorized(k)
    BY <1>2, <1>4, AuthorizedHost DEF Authorized
<1>7. ConnOK(k, Fresh, transports)
    BY <1>4, <1>6, FreshOut DEF ConnOK, PointOK, RightOK, ReadOK, TransportOK
<1> QED
    BY <1>1, <1>5, <1>7, HandlerStep DEF SharedUnchanged

Decided(h, rdec) == [h EXCEPT !.rdec = rdec]

LEMMA RequestDecided ==
    ASSUME NEW h, IsHandler(h), NEW v, NEW p, NEW k, k = GoTo(Decided(h, v), p)
    PROVE  /\ IsHandler(k) /\ k.pc = p /\ k.id = h.id /\ k.req = h.req /\ k.dec = h.dec
           /\ k.rdec = v /\ k.seen = h.seen /\ k.unread = h.unread
BY DEF IsHandler, GoTo, Decided

\* The body is read to its end.
LEMMA Drained ==
    ASSUME NEW h, IsHandler(h), NEW p, NEW k, k = GoTo([h EXCEPT !.unread = FALSE], p)
    PROVE  /\ IsHandler(k) /\ SameRequest(h, k) /\ k.pc = p /\ k.reused = h.reused
           /\ ~k.unread /\ k.unread \in BOOLEAN
BY DEF IsHandler, SameRequest, GoTo

LEMMA authorizeBumpedStep ==
    ASSUME IInv, NEW c \in Conns, authorizeBumped(c), EnvironmentUnchanged
    PROVE  IInv'
<1> DEFINE h == conn[c]
           r == h.req
           rdec == AuthorizeRequest(h.dec, r.target, r.method, r.upgrade)
           q == Logged(out[c], "deny_policy", firstPolicy(h.dec), None, 403)
<1>1. h.pc = "authorize" /\ SharedUnchanged
    BY DEF authorizeBumped, At
<1>2. ConnOK(h, out[c], transports)
    BY Known
<1>3. IsHandler(h) /\ OutOK(h, out[c]) /\ Clean(out[c]) /\ Open(out[c]) /\ out[c].leg = NoLeg
    BY <1>1, <1>2 DEF ConnOK, PointOK, Clean
<1>4. h.req.kind = "inner" /\ Authorized(h) /\ h.unread \in BOOLEAN
    BY <1>1, <1>2 DEF ConnOK, PointOK, RightOK, ReadOK
<1>5. CASE rdec.allowed
    <2> DEFINE k == GoTo(Decided(h, rdec), "transport")
    <2>1. Continue(c, Decided(h, rdec), "transport") /\ UNCHANGED out
        BY <1>5 DEF authorizeBumped, Decided
    <2>2. conn' = [conn EXCEPT ![c] = k] /\ out' = [out EXCEPT ![c] = out[c]]
        BY <2>1, Known DEF Continue
    <2>3. /\ IsHandler(k) /\ k.pc = "transport" /\ k.id = h.id /\ k.req = h.req /\ k.dec = h.dec
          /\ k.rdec = rdec /\ k.seen = h.seen /\ k.unread = h.unread
        BY <1>3, RequestDecided
    <2> HIDE DEF k
    <2>4. Authorized(k) /\ Allowed(k)
        BY <1>4, <1>5, <2>3 DEF Authorized, Allowed
    <2>5. OutOK(k, out[c])
        BY <1>3, <1>4, <2>3 DEF OutOK
    <2>6. ConnOK(k, out[c], transports)
        BY <1>3, <1>4, <2>3, <2>4, <2>5 DEF ConnOK, PointOK, RightOK, ReadOK, TransportOK
    <2> QED
        BY <1>1, <2>2, <2>6, HandlerStep DEF SharedUnchanged
<1>6. CASE ~rdec.allowed /\ Continue(c, [h EXCEPT !.unread = FALSE], "bumpRead")
    <2> DEFINE k == GoTo([h EXCEPT !.unread = FALSE], "bumpRead")
    <2>1. conn' = [conn EXCEPT ![c] = k] /\ out' = [out EXCEPT ![c] = q]
        BY <1>6 DEF authorizeBumped, Continue, Leave
    <2>2. OutOK(h, q) /\ q.records = 1
        BY <1>3, LogStep
    <2>3. IsHandler(k) /\ SameRequest(h, k) /\ k.pc = "bumpRead" /\ ~k.unread /\ k.unread \in BOOLEAN
        BY <1>3, Drained
    <2> HIDE DEF k, q
    <2>4. OutOK(k, q) /\ Authorized(k)
        BY <1>4, <2>2, <2>3, SameOut DEF SameRequest, Authorized
    <2>5. ConnOK(k, q, transports)
        BY <2>2, <2>3, <2>4 DEF ConnOK, PointOK, RightOK, ReadOK, TransportOK, Settled
    <2> QED
        BY <1>1, <2>1, <2>5, HandlerStep DEF SharedUnchanged
<1>7. CASE ~rdec.allowed /\ Return(c)
    <2>1. Leave(c, q)
        BY <1>7 DEF authorizeBumped
    <2> QED
        BY <1>1, <1>3, <1>7, <2>1, FailStep
<1> QED
    BY <1>5, <1>6, <1>7 DEF authorizeBumped

\* forwardBumped fails: the record names what the request decision named.
LEMMA ForwardStep ==
    ASSUME IInv, NEW c \in Conns, conn[c].pc \in Inners, NEW o, OutOK(conn[c], o), Open(o),
           NEW decision, decision \notin Denials, NEW status,
           Leave(c, auditBumped(c, o, decision, status)), Return(c),
           SharedUnchanged, EnvironmentUnchanged
    PROVE  IInv'
<1>1. /\ conn[c].rdec.policy = DecidingPolicy(conn[c])
      /\ conn[c].rdec.upstream = DecidingUpstream(conn[c])
    BY Known DEF ConnOK, PointOK, DecidingPolicy, DecidingUpstream
<1> QED
    BY <1>1, FailStep DEF auditBumped

LEMMA InnerKnown ==
    ASSUME IInv, NEW c \in Conns, conn[c].pc \in Inners
    PROVE  /\ IsHandler(conn[c]) /\ OutOK(conn[c], out[c]) /\ Open(out[c])
           /\ conn[c].req.kind = "inner" /\ Authorized(conn[c]) /\ Allowed(conn[c])
           /\ DecidingPolicy(conn[c]) = conn[c].rdec.policy
           /\ DecidingUpstream(conn[c]) = conn[c].rdec.upstream
BY Known DEF ConnOK, PointOK, RightOK, Clean, DecidingPolicy, DecidingUpstream

LEMMA transportForStep ==
    ASSUME IInv, NEW c \in Conns, transportFor(c), EnvironmentUnchanged
    PROVE  IInv'
<1> DEFINE h == conn[c]
           name == h.rdec.upstream
           k == GoTo(h, "roundtrip")
<1>1. h.pc = "transport" /\ UNCHANGED pool
    BY DEF transportFor, At
<1>2. ConnOK(h, out[c], transports)
    BY Known
<1>3. CASE transports' = transports \cup {name} /\ Continue(c, h, "roundtrip") /\ UNCHANGED out
    <2>1. transports' = transports \cup {name} /\ Continue(c, h, "roundtrip") /\ UNCHANGED out
        BY <1>3
    <2>2. conn' = [conn EXCEPT ![c] = k] /\ out' = [out EXCEPT ![c] = out[c]]
        BY <2>1, Known DEF Continue
    <2>3. IsHandler(k) /\ SameRequest(h, k) /\ k.pc = "roundtrip" /\ k.unread = h.unread
        BY <1>2, Moved DEF ConnOK
    <2> HIDE DEF k
    <2>4. OutOK(k, out[c])
        BY <1>2, <2>3, SameOut DEF ConnOK
    <2>5. PointOK(k, out[c]) /\ ReadOK(k, out[c])
        BY <1>1, <1>2, <2>3 DEF ConnOK, PointOK, ReadOK, SameRequest, Clean, Open
    <2>6. RightOK(k)
        BY <1>1, <1>2, <2>3 DEF ConnOK, RightOK, SameRequest, Authorized, Allowed
    <2>7. TransportOK(k, transports')
        BY <2>1, <2>3 DEF TransportOK, SameRequest
    <2> QED
        BY <1>1, <2>1, <2>2, <2>3, <2>4, <2>5, <2>6, <2>7, HandlerStep DEF ConnOK
<1>4. CASE forwardFailed(c, out[c]) /\ UNCHANGED transports
    BY <1>1, <1>4, InnerKnown, ForwardStep DEF forwardFailed, SharedUnchanged, Denials
<1>5. CASE /\ transports' = transports \cup {name}
           /\ Leave(c, auditBumped(c, out[c], "error_upstream", 400)) /\ Return(c)
    <2> DEFINE l == GoTo(Dialled(h), "closed")
               q == Logged(out[c], "error_upstream", h.rdec.policy, h.rdec.upstream, 400)
    <2>1. conn' = [conn EXCEPT ![c] = l] /\ out' = [out EXCEPT ![c] = q]
        BY <1>5 DEF auditBumped, Return, Continue, Leave
    <2>2. /\ IsHandler(h) /\ h.unread \in BOOLEAN /\ OutOK(h, out[c]) /\ Open(out[c])
          /\ h.rdec.policy = DecidingPolicy(h) /\ h.rdec.upstream = DecidingUpstream(h)
        BY <1>1, <1>2, InnerKnown DEF ConnOK, ReadOK
    <2>3. ConnOK(l, q, transports')
        BY <2>2, LogAndReturn DEF Denials
    <2> HIDE DEF l, q
    <2> QED
        BY <1>1, <1>5, <2>1, <2>3, HandlerStep
<1> QED
    BY <1>3, <1>4, <1>5 DEF transportFor

LEMMA originProfileStep ==
    ASSUME IInv, NEW c \in Conns, originProfile(c), EnvironmentUnchanged
    PROVE  IInv'
<1>1. conn[c].pc = "roundtrip" /\ SharedUnchanged
    BY DEF originProfile, At
<1>2. /\ OutOK(conn[c], out[c]) /\ Open(out[c])
      /\ DecidingUpstream(conn[c]) = conn[c].rdec.upstream
    BY <1>1, InnerKnown
<1>3. CASE HasUpstream(conn[c].rdec.upstream)
    BY <1>1, <1>2, <1>3, ProfileStep DEF originProfile, Upstream
<1>4. CASE ~HasUpstream(conn[c].rdec.upstream)
    BY <1>1, <1>2, <1>4, ForwardStep DEF originProfile, Upstream, forwardFailed, Denials
<1> QED
    BY <1>3, <1>4

\* A refusal of the guard, behind RoundTrip: a 502 like any other.
LEMMA RefusedInner ==
    ASSUME NEW h, NEW o, NEW T, ConnOK(h, o, T), h.pc = "originGuard", NEW policy, NEW upstream,
           NEW k, k = GoTo(Dialled(h), "closed"),
           policy = DecidingPolicy(h), upstream = DecidingUpstream(h),
           NEW b, b = GuardRefused(o), NEW q, q = Logged(b, "error_upstream", policy, upstream, 502)
    PROVE  ConnOK(k, q, T)
<1>1. IsOut(o) /\ o.records = 0 /\ OutOK(h, o)
    BY DEF ConnOK, OutOK, PointOK, Open
<1>2. IsOut(b) /\ b.leg = o.leg /\ b.records = o.records
    <2>1. IsOut(o)
        BY <1>1
    <2> QED
        BY <2>1 DEF GuardRefused, IsOut
<1>3. b.refused = TRUE
    BY <1>1, RefusedIs
<1>4. /\ IsOut(q) /\ q.leg = b.leg /\ q.records = b.records + 1 /\ q.refused = b.refused
      /\ q.decision = "error_upstream" /\ q.status = 502
      /\ q.policy = policy /\ q.upstream = upstream
    BY <1>2, LoggedIs
<1>5. IsHandler(k) /\ SameRequest(h, k) /\ k.pc = "closed" /\ k.unread = h.unread
    BY MovedDialled DEF ConnOK
<1>6. k.req.kind = "inner" /\ k.unread \in BOOLEAN
    BY <1>5 DEF ConnOK, PointOK, ReadOK, SameRequest
<1>7. q.leg = o.leg /\ q.records = 1 /\ q.refused \in BOOLEAN
    <2>1. q.leg = o.leg /\ q.records = 1
        BY <1>1, <1>2, <1>4
    <2>2. q.refused \in BOOLEAN
        BY <1>3, <1>4
    <2> QED
        BY <2>1, <2>2
<1>8. OutOK(h, q)
    <2>1. q.leg # NoLeg => Judged(h) /\ LegOK(h, q)
        BY <1>1, <1>7 DEF OutOK, LegOK
    <2>2. NamesDecider(h, q)
        BY <1>4 DEF NamesDecider
    <2>3. h.req.kind = "inner"
        BY DEF ConnOK, PointOK
    <2> QED
        BY <1>4, <1>7, <2>1, <2>2, <2>3 DEF OutOK, Denials
<1>9. OutOK(k, q)
    BY <1>5, <1>8, SameOut
<1> QED
    BY <1>5, <1>6, <1>7, <1>9 DEF ConnOK, PointOK, RightOK, ReadOK, TransportOK, Settled

LEMMA originGuardStep ==
    ASSUME IInv, NEW c \in Conns, originGuard(c), EnvironmentUnchanged
    PROVE  IInv'
<1> DEFINE h == conn[c]
           res == Resolve(Lookup(h.dec.host))
<1>1. h.pc = "originGuard" /\ SharedUnchanged
    BY DEF originGuard, At
<1>2. CASE res.err = None
    BY <1>1, <1>2, GuardStep DEF originGuard, Guard
<1>3. CASE res.err # None
    <2> DEFINE k == GoTo(Dialled(h), "closed")
               q == Logged(GuardRefused(out[c]), "error_upstream", h.rdec.policy, h.rdec.upstream, 502)
    <2>1. conn' = [conn EXCEPT ![c] = k] /\ out' = [out EXCEPT ![c] = q]
        BY <1>3 DEF originGuard, Guard, forwardFailed, auditBumped, Return, Continue, Leave
    <2>2. h.rdec.policy = DecidingPolicy(h) /\ h.rdec.upstream = DecidingUpstream(h)
        BY <1>1, InnerKnown
    <2>3. ConnOK(h, out[c], transports)
        BY Known
    <2> HIDE DEF h
    <2>4. ConnOK(k, q, transports)
        BY <1>1, <2>2, <2>3, RefusedInner
    <2> HIDE DEF k, q
    <2> QED
        BY <1>1, <2>1, <2>4, HandlerStep DEF SharedUnchanged
<1> QED
    BY <1>2, <1>3

\* A request of an inspected connection is on its way.
LEMMA InFlightInner ==
    ASSUME NEW h, NEW o, NEW T, ConnOK(h, o, T), h.pc \in Trying,
           NEW q, OutOK(h, q), Open(q), q.leg # NoLeg,
           NEW k, IsHandler(k), SameRequest(h, k), k.pc = "response", k.unread = h.unread
    PROVE  ConnOK(k, q, T)
<1>1. OutOK(k, q)
    BY SameOut
<1>2. PointOK(k, q) /\ ReadOK(k, q) /\ TransportOK(k, T)
    BY DEF ConnOK, PointOK, ReadOK, TransportOK, SameRequest
<1>3. RightOK(k)
    BY DEF ConnOK, RightOK, SameRequest, Authorized, Allowed
<1> QED
    BY <1>1, <1>2, <1>3 DEF ConnOK

LEMMA originDialStep ==
    ASSUME IInv, NEW c \in Conns, originDial(c), EnvironmentUnchanged
    PROVE  IInv'
<1> DEFINE h == conn[c]
           k == GoTo(Dialled(h), "response")
<1>1. h.pc = "originDial" /\ SharedUnchanged
    BY DEF originDial, At
<1>2. ConnOK(h, out[c], transports) /\ RightOK(h)
    BY Known DEF ConnOK
<1>3. Open(out[c]) /\ OutOK(h, out[c]) /\ Judged(h) /\ IsHandler(h)
    BY <1>1, InnerKnown DEF Judged
<1>4. PICK dial \in Dial(h.profile, h.dec.host, h.addrs) :
          LET o == Sent(out[c], dial.leg)
          IN  \/ dial.err = None /\ Continue(c, Dialled(h), "response") /\ Leave(c, o)
              \/ forwardFailed(c, o)
    BY DEF originDial
<1> DEFINE o == Sent(out[c], dial.leg)
<1>5. Leavable(h, dial.leg) /\ (dial.err = None => dial.leg # NoLeg)
    BY <1>1, <1>2, DialledLeg
<1>6. OutOK(h, o) /\ Open(o) /\ (dial.leg # NoLeg => o.leg = dial.leg)
    BY <1>3, <1>5, SentIs
<1>7. CASE dial.err = None /\ Continue(c, Dialled(h), "response") /\ Leave(c, o)
    <2>1. conn' = [conn EXCEPT ![c] = k] /\ out' = [out EXCEPT ![c] = o]
        BY <1>7 DEF Continue, Leave
    <2> HIDE DEF o
    <2>2. IsHandler(k) /\ SameRequest(h, k) /\ k.pc = "response" /\ k.unread = h.unread
        BY <1>3, MovedDialled
    <2> HIDE DEF k
    <2>3. ConnOK(k, o, transports)
        BY <1>1, <1>2, <1>5, <1>6, <1>7, <2>2, InFlightInner
    <2> QED
        BY <1>1, <2>1, <2>3, HandlerStep DEF SharedUnchanged
<1>8. CASE forwardFailed(c, o)
    <2> HIDE DEF o
    <2> QED
        BY <1>1, <1>6, <1>8, ForwardStep DEF forwardFailed, Denials
<1> QED
    BY <1>4, <1>7, <1>8

\* The leg of an idle connection is taken as it was opened.
Reused(o, leg) == [o EXCEPT !.leg = leg]

LEMMA ReusedIs ==
    ASSUME NEW h, NEW o, OutOK(h, o), Open(o), Judged(h),
           NEW leg, leg.host = h.req.host, OwnAccount(leg, DecidingUpstream(h)), Guarded(leg),
           NEW q, q = Reused(o, leg)
    PROVE  OutOK(h, q) /\ Open(q) /\ q.leg = leg
<1>1. /\ IsOut(q) /\ q.leg = leg /\ q.refused = o.refused
      /\ q.records = o.records /\ q.decision = o.decision
    BY DEF OutOK, IsOut, Reused
<1>2. LegOK(h, q)
    BY <1>1 DEF LegOK
<1> QED
    BY <1>1, <1>2 DEF OutOK, Open, Denials, None

LEMMA reusePooledStep ==
    ASSUME IInv, NEW c \in Conns, reusePooled(c), EnvironmentUnchanged
    PROVE  IInv'
<1> DEFINE h == conn[c]
           k == GoTo([Dialled(h) EXCEPT !.reused = TRUE], "response")
<1>1. h.pc \in Trying /\ UNCHANGED transports
    BY DEF reusePooled
<1>2. ConnOK(h, out[c], transports)
    BY Known
<1>3. /\ Open(out[c]) /\ IsHandler(h) /\ OutOK(h, out[c]) /\ Judged(h) /\ Authorized(h)
      /\ DecidingUpstream(h) = h.rdec.upstream
    BY <1>1, InnerKnown DEF Judged
<1>4. PICK entry \in pool : /\ entry = Pooled(PoolKey(c), entry.leg) /\ pool' = pool \ {entry}
                            /\ Leave(c, Reused(out[c], entry.leg))
    BY DEF reusePooled, Reused
<1> DEFINE q == Reused(out[c], entry.leg)
<1>5. entry.profile = h.rdec.upstream /\ entry.host = h.req.host
    <2>1. Pooled(PoolKey(c), entry.leg).profile = h.rdec.upstream
        BY DEF Pooled, PoolKey
    <2>2. Pooled(PoolKey(c), entry.leg).host = h.dec.host
        BY DEF Pooled, PoolKey
    <2> QED
        BY <1>3, <1>4, <2>1, <2>2, AuthorizedHost
<1>6. /\ entry.leg # NoLeg /\ entry.leg.host = h.req.host
      /\ OwnAccount(entry.leg, DecidingUpstream(h)) /\ Guarded(entry.leg)
    BY <1>3, <1>5 DEF IInv, EntryOK
<1>7. OutOK(h, q) /\ Open(q) /\ q.leg = entry.leg
    <2> DEFINE o == out[c]
               leg == entry.leg
    <2>1. OutOK(h, o) /\ Open(o) /\ Judged(h)
        BY <1>3
    <2>2. leg.host = h.req.host /\ OwnAccount(leg, DecidingUpstream(h)) /\ Guarded(leg)
        BY <1>6
    <2>3. q = Reused(o, leg)
        OBVIOUS
    <2> HIDE DEF o, h, leg, q
    <2>4. OutOK(h, q) /\ Open(q) /\ q.leg = leg
        BY <2>1, <2>2, <2>3, ReusedIs
    <2> QED
        BY <2>4 DEF leg
<1>8. conn' = [conn EXCEPT ![c] = k] /\ out' = [out EXCEPT ![c] = q]
    BY <1>4 DEF reusePooled, Continue, Leave
<1> HIDE DEF q
<1>9. IsHandler(k) /\ SameRequest(h, k) /\ k.pc = "response" /\ k.unread = h.unread
    BY <1>3, MovedReused
<1> HIDE DEF k
<1>10. ConnOK(k, q, transports)
    BY <1>1, <1>2, <1>6, <1>7, <1>9, InFlightInner
<1> QED
    BY <1>1, <1>4, <1>8, <1>10, HandlerStep

\* What was sent on the dead connection stays; the request is tried again.
LEMMA retryPooledStep ==
    ASSUME IInv, NEW c \in Conns, retryPooled(c), EnvironmentUnchanged
    PROVE  IInv'
<1> DEFINE h == conn[c]
           k == GoTo(Dialled(h), "roundtrip")
<1>1. /\ h.pc = "response" /\ h.reused /\ SharedUnchanged
      /\ conn' = [conn EXCEPT ![c] = k] /\ out' = [out EXCEPT ![c] = out[c]]
    BY Known DEF retryPooled, At, SharedUnchanged, Continue
<1>2. ConnOK(h, out[c], transports)
    BY Known
<1>3. IsHandler(k) /\ SameRequest(h, k) /\ k.pc = "roundtrip" /\ k.unread = h.unread
    BY <1>2, MovedDialled DEF ConnOK
<1> HIDE DEF k
<1>4. OutOK(k, out[c])
    BY <1>2, <1>3, SameOut DEF ConnOK
<1>5. PointOK(k, out[c]) /\ ReadOK(k, out[c]) /\ TransportOK(k, transports)
    BY <1>1, <1>2, <1>3 DEF ConnOK, PointOK, ReadOK, TransportOK, SameRequest
<1>6. RightOK(k)
    BY <1>1, <1>2, <1>3 DEF ConnOK, RightOK, SameRequest, Authorized, Allowed
<1> QED
    BY <1>1, <1>3, <1>4, <1>5, <1>6, HandlerStep DEF ConnOK, SharedUnchanged

LEMMA bodySentStep ==
    ASSUME IInv, NEW c \in Conns, bodySent(c), EnvironmentUnchanged
    PROVE  IInv'
<1> DEFINE h == conn[c]
           k == GoTo([h EXCEPT !.unread = FALSE], h.pc)
<1>1. /\ h.pc \in {"response", "bumpRead"} /\ SharedUnchanged
      /\ conn' = [conn EXCEPT ![c] = k] /\ out' = [out EXCEPT ![c] = out[c]]
    BY Known DEF bodySent, SharedUnchanged, Continue
<1>2. ConnOK(h, out[c], transports)
    BY Known
<1>3. /\ IsHandler(k) /\ SameRequest(h, k) /\ k.pc = h.pc /\ k.reused = h.reused
      /\ ~k.unread /\ k.unread \in BOOLEAN
    BY <1>2, Drained DEF ConnOK
<1> HIDE DEF k
<1>4. OutOK(k, out[c])
    BY <1>2, <1>3, SameOut DEF ConnOK
<1>5. PointOK(k, out[c]) /\ TransportOK(k, transports)
    BY <1>1, <1>2, <1>3 DEF ConnOK, PointOK, TransportOK, SameRequest, Settled
<1>6. ReadOK(k, out[c])
    BY <1>3 DEF ReadOK
<1>7. RightOK(k)
    BY <1>1, <1>2, <1>3 DEF ConnOK, RightOK, SameRequest, Authorized, Allowed
<1> QED
    BY <1>1, <1>3, <1>4, <1>5, <1>6, <1>7, HandlerStep DEF ConnOK, SharedUnchanged

\* The leg that goes back to the pool goes under the name it was opened for.
LEMMA Poolable ==
    ASSUME IInv, NEW c \in Conns, conn[c].pc = "response"
    PROVE  EntryOK(Pooled(PoolKey(c), out[c].leg), transports)
<1> DEFINE h == conn[c]
           e == Pooled(PoolKey(c), out[c].leg)
<1>1. ConnOK(h, out[c], transports)
    BY Known
<1>2. Authorized(h) /\ DecidingUpstream(h) = h.rdec.upstream
    BY InnerKnown
<1>3. e.profile = h.rdec.upstream /\ e.host = h.dec.host /\ e.leg = out[c].leg
    BY DEF Pooled, PoolKey
<1> HIDE DEF e
<1>4. e.profile \in transports
    BY <1>1, <1>3 DEF ConnOK, TransportOK
<1>5. out[c].leg # NoLeg /\ LegOK(h, out[c])
    BY <1>1 DEF ConnOK, PointOK, OutOK
<1>6. /\ out[c].leg.host = h.req.host
      /\ OwnAccount(out[c].leg, h.rdec.upstream) /\ Guarded(out[c].leg)
    BY <1>2, <1>5 DEF LegOK
<1>7. EntryOK(e, transports)
    BY <1>2, <1>3, <1>4, <1>5, <1>6, AuthorizedHost DEF EntryOK
<1> QED
    BY <1>7 DEF e

LEMMA respondStep ==
    ASSUME IInv, NEW c \in Conns, respond(c), EnvironmentUnchanged
    PROVE  IInv'
<1> DEFINE h == conn[c]
           q == Logged(out[c], "allow", h.rdec.policy, h.rdec.upstream, 200)
           k == GoTo(Dialled(h), "bumpRead")
           e == Pooled(PoolKey(c), out[c].leg)
<1>1. h.pc = "response" /\ UNCHANGED transports /\ Leave(c, q)
    BY DEF respond, At, auditBumped
<1>2. ConnOK(h, out[c], transports)
    BY Known
<1>3. OutOK(h, out[c]) /\ Open(out[c])
    BY <1>1, InnerKnown
<1>4. CASE pool' = pool \cup {e} /\ Continue(c, Dialled(h), "bumpRead")
    <2>1. conn' = [conn EXCEPT ![c] = k] /\ out' = [out EXCEPT ![c] = q]
        BY <1>1, <1>4 DEF Continue, Leave
    <2>2. OutOK(h, q) /\ q.records = 1 /\ q.decision = "allow"
        <3>1. DecidingPolicy(h) = h.rdec.policy /\ DecidingUpstream(h) = h.rdec.upstream
            BY <1>1, InnerKnown
        <3> HIDE DEF h
        <3> QED
            BY <1>3, <3>1, LogStep DEF Denials
    <2>3. IsHandler(k) /\ SameRequest(h, k) /\ k.pc = "bumpRead" /\ k.unread = h.unread
        BY <1>2, MovedDialled DEF ConnOK
    <2> HIDE DEF k, q
    <2>4. OutOK(k, q)
        BY <2>2, <2>3, SameOut
    <2>5. PointOK(k, q) /\ ReadOK(k, q) /\ TransportOK(k, transports)
        BY <1>2, <2>2, <2>3 DEF ConnOK, PointOK, ReadOK, TransportOK, Settled
    <2>6. RightOK(k)
        BY <1>1, <1>2, <2>3 DEF ConnOK, RightOK, SameRequest, Authorized
    <2>7. ConnOK(k, q, transports)
        BY <2>3, <2>4, <2>5, <2>6 DEF ConnOK
    <2>8. EntryOK(e, transports)
        BY <1>1, Poolable
    <2> HIDE DEF e
    <2> QED
        BY <1>1, <1>4, <2>1, <2>7, <2>8, HandlerStep
<1>5. CASE UNCHANGED pool /\ Return(c)
    BY <1>1, <1>3, <1>5, ForwardStep DEF auditBumped, SharedUnchanged, Denials
<1> QED
    BY <1>4, <1>5 DEF respond

LEMMA respondFailsStep ==
    ASSUME IInv, NEW c \in Conns, respondFails(c), EnvironmentUnchanged
    PROVE  IInv'
<1>1. conn[c].pc = "response" /\ SharedUnchanged /\ Return(c)
    BY DEF respondFails, At
<1>2. PICK status : Leave(c, auditBumped(c, out[c], "error_upstream", status))
    BY DEF respondFails
<1> QED
    BY <1>1, <1>2, InnerKnown, ForwardStep DEF Denials

\* resp.Write goes on with the upgraded stream.
LEMMA UpgradingStep ==
    ASSUME IInv, NEW c \in Conns, conn[c].pc \in Upgrading \cup {"response"}, NEW next \in Upgrading,
           Continue(c, conn[c], next), UNCHANGED out, SharedUnchanged, EnvironmentUnchanged
    PROVE  IInv'
<1> DEFINE h == conn[c]
           k == GoTo(h, next)
<1>1. ConnOK(h, out[c], transports)
    BY Known
<1>2. IsHandler(k) /\ SameRequest(h, k) /\ k.pc = next /\ k.unread = h.unread
    BY <1>1, Moved DEF ConnOK
<1> HIDE DEF k
<1>3. OutOK(k, out[c])
    BY <1>1, <1>2, SameOut DEF ConnOK
<1>4. PointOK(k, out[c]) /\ ReadOK(k, out[c]) /\ TransportOK(k, transports)
    BY <1>1, <1>2 DEF ConnOK, PointOK, ReadOK, TransportOK, SameRequest
<1>5. RightOK(k)
    BY <1>1, <1>2 DEF ConnOK, RightOK, SameRequest, Authorized, Allowed
<1>6. ConnOK(k, out[c], transports)
    BY <1>2, <1>3, <1>4, <1>5 DEF ConnOK
<1> QED
    BY <1>6, MoveStep DEF k

LEMMA switchProtocolsStep ==
    ASSUME IInv, NEW c \in Conns, switchProtocols(c), EnvironmentUnchanged
    PROVE  IInv'
BY UpgradingStep DEF switchProtocols, At, SharedUnchanged

LEMMA upgradeHeadStep ==
    ASSUME IInv, NEW c \in Conns, upgradeHead(c), EnvironmentUnchanged
    PROVE  IInv'
BY AnswerStep DEF upgradeHead, At, AnswersAt

LEMMA upgradeCopiedStep ==
    ASSUME IInv, NEW c \in Conns, upgradeCopied(c), EnvironmentUnchanged
    PROVE  IInv'
BY UpgradingStep DEF upgradeCopied, At, SharedUnchanged

LEMMA upgradeFailsStep ==
    ASSUME IInv, NEW c \in Conns, upgradeFails(c), EnvironmentUnchanged
    PROVE  IInv'
<1>1. conn[c].pc \in Upgrading
    BY DEF upgradeFails
<1> QED
    BY <1>1, InnerKnown, ForwardStep DEF upgradeFails, Denials

LEMMA spliceUpgradeStep ==
    ASSUME IInv, NEW c \in Conns, spliceUpgrade(c), EnvironmentUnchanged
    PROVE  IInv'
<1>1. conn[c].pc = "upgraded" /\ SharedUnchanged
    BY DEF spliceUpgrade, At
<1> QED
    BY <1>1, InnerKnown, ForwardStep DEF spliceUpgrade, Denials

-----------------------------------------------------------------------------
(* handle and handleConnect. *)

\* Before anything left, what is known of the request's trace does not depend
\* on the decisions.
LEMMA CleanOut ==
    ASSUME NEW h, NEW o, OutOK(h, o), Clean(o), NEW k
    PROVE  OutOK(k, o) /\ Open(o) /\ o.leg = NoLeg
BY DEF OutOK, Clean, Open, None, Denials

LEMMA IdleIs ==
    ASSUME NEW k, k = GoTo(Idle, "new")
    PROVE  IsHandler(k) /\ k.pc = "new" /\ k.req.kind = None /\ k.unread \in BOOLEAN
BY DEF IsHandler, GoTo, Idle, NoRequest

LEMMA AcceptStep ==
    ASSUME IInv, NEW c \in Conns, Accept(c), EnvironmentUnchanged
    PROVE  IInv'
<1> DEFINE k == GoTo(Idle, "new")
<1>1. conn' = [conn EXCEPT ![c] = k] /\ out' = [out EXCEPT ![c] = Fresh] /\ SharedUnchanged
    BY DEF Accept, Continue, Leave
<1>2. IsHandler(k) /\ k.pc = "new" /\ k.req.kind = None /\ k.unread \in BOOLEAN
    BY IdleIs
<1> HIDE DEF k
<1>3. ConnOK(k, Fresh, transports)
    BY <1>2, FreshOut DEF ConnOK, PointOK, RightOK, ReadOK, TransportOK
<1> QED
    BY <1>1, <1>3, HandlerStep DEF SharedUnchanged

LEMMA DisconnectStep ==
    ASSUME IInv, NEW c \in Conns, Disconnect(c), EnvironmentUnchanged
    PROVE  IInv'
<1>1. /\ conn[c].pc \in {"new", "bumpRead", "plainRead"}
      /\ Return(c) /\ UNCHANGED out /\ SharedUnchanged
    BY DEF Disconnect, SharedUnchanged
<1>2. Settled(conn[c], out[c])
    BY <1>1, Known DEF ConnOK, PointOK, Settled, Clean, None
<1> QED
    BY <1>1, <1>2, ReturnStep

\* The first request of a connection.
Opening(r) == [Idle EXCEPT !.req = r, !.unread = (r.body # "none")]

LEMMA OpeningIs ==
    ASSUME NEW r, NEW k, k = GoTo(Opening(r), "identify")
    PROVE  /\ IsHandler(k) /\ k.pc = "identify" /\ k.req = r /\ k.unread \in BOOLEAN
           /\ r.body = "none" => ~k.unread
BY DEF IsHandler, GoTo, Idle, Opening

LEMMA ReadRequestStep ==
    ASSUME IInv, NEW c \in Conns, ReadRequest(c), EnvironmentUnchanged
    PROVE  IInv'
<1>1. conn[c].pc = "new" /\ SharedUnchanged /\ UNCHANGED out
    BY DEF ReadRequest, At, SharedUnchanged
<1>2. PICK r \in ConnectRequests \cup PlainRequests : Continue(c, Opening(r), "identify")
    BY DEF ReadRequest, Opening
<1> DEFINE k == GoTo(Opening(r), "identify")
<1>3. /\ IsHandler(k) /\ k.pc = "identify" /\ k.req = r /\ k.unread \in BOOLEAN
      /\ r.body = "none" => ~k.unread
    BY OpeningIs
<1>4. conn' = [conn EXCEPT ![c] = k] /\ out' = [out EXCEPT ![c] = out[c]]
    BY <1>1, <1>2, Known DEF Continue
<1> HIDE DEF k
<1>5. r.kind \in {"connect", "plain"} /\ (r.kind = "connect" => r.body = "none")
    BY RequestsAre
<1>6. Clean(out[c]) /\ out[c].status = 0 /\ OutOK(k, out[c])
    BY <1>1, Known, CleanOut DEF ConnOK, PointOK
<1>7. ConnOK(k, out[c], transports)
    BY <1>3, <1>5, <1>6 DEF ConnOK, PointOK, RightOK, ReadOK, TransportOK
<1> QED
    BY <1>1, <1>4, <1>7, HandlerStep DEF SharedUnchanged

Identified(h, i) == [h EXCEPT !.id = i]

LEMMA IdentifiedIs ==
    ASSUME NEW h, IsHandler(h), NEW i, NEW p, NEW k, k = GoTo(Identified(h, i), p)
    PROVE  IsHandler(k) /\ k.pc = p /\ k.req = h.req /\ k.unread = h.unread
BY DEF IsHandler, GoTo, Identified

LEMMA IdentifyStep ==
    ASSUME IInv, NEW c \in Conns, Identify(c), EnvironmentUnchanged
    PROVE  IInv'
<1> DEFINE h == conn[c]
<1>1. h.pc = "identify" /\ SharedUnchanged /\ UNCHANGED out
    BY DEF Identify, At, SharedUnchanged
<1>2. PICK i \in Identities : Continue(c, Identified(h, i), h.req.kind)
    BY DEF Identify, Identified
<1> DEFINE k == GoTo(Identified(h, i), h.req.kind)
<1>3. conn' = [conn EXCEPT ![c] = k] /\ out' = [out EXCEPT ![c] = out[c]]
    BY <1>1, <1>2, Known DEF Continue
<1>4. ConnOK(h, out[c], transports)
    BY Known
<1>5. IsHandler(k) /\ k.pc = h.req.kind /\ k.req = h.req /\ k.unread = h.unread
    BY <1>4, IdentifiedIs DEF ConnOK
<1> HIDE DEF k
<1>6. Clean(out[c]) /\ out[c].status = 0 /\ OutOK(k, out[c])
    BY <1>1, <1>4, CleanOut DEF ConnOK, PointOK
<1>7. ConnOK(k, out[c], transports)
    BY <1>1, <1>4, <1>5, <1>6 DEF ConnOK, PointOK, RightOK, ReadOK, TransportOK
<1> QED
    BY <1>1, <1>3, <1>7, HandlerStep DEF SharedUnchanged

\* A request refused before anything left.
LEMMA DenyStep ==
    ASSUME IInv, NEW c \in Conns, Clean(out[c]), NEW decision, NEW policy, NEW upstream, NEW status,
           Leave(c, Logged(out[c], decision, policy, upstream, status)), Return(c),
           SharedUnchanged, EnvironmentUnchanged
    PROVE  IInv'
<1>1. OutOK(conn[c], out[c]) /\ Open(out[c]) /\ out[c].leg = NoLeg
    BY Known DEF ConnOK, Clean
<1> QED
    BY <1>1, FailStep

LEMMA CleanAt ==
    ASSUME IInv, NEW c \in Conns, conn[c].pc \notin InFlight \cup Settling
    PROVE  Clean(out[c])
BY Known DEF ConnOK, PointOK

LEMMA denyIdentityStep ==
    ASSUME IInv, NEW c \in Conns, denyIdentity(c), EnvironmentUnchanged
    PROVE  IInv'
BY CleanAt, DenyStep DEF denyIdentity, At

LEMMA rejectConnectStep ==
    ASSUME IInv, NEW c \in Conns, rejectConnect(c), EnvironmentUnchanged
    PROVE  IInv'
BY CleanAt, DenyStep DEF rejectConnect, At

LEMMA RefuseStep ==
    ASSUME IInv, NEW c \in Conns, Clean(out[c]), NEW dec, refuse(c, dec),
           SharedUnchanged, EnvironmentUnchanged
    PROVE  IInv'
BY DenyStep DEF refuse

Admitted(h, dec, s) == [h EXCEPT !.dec = dec, !.seen = s]

LEMMA AdmittedIs ==
    ASSUME NEW h, IsHandler(h), NEW dec, NEW s, NEW p, NEW k, k = GoTo(Admitted(h, dec, s), p)
    PROVE  /\ IsHandler(k) /\ k.pc = p /\ k.id = h.id /\ k.req = h.req /\ k.dec = dec
           /\ k.seen = s /\ k.unread = h.unread
BY DEF IsHandler, GoTo, Admitted

LEMMA handleConnectStep ==
    ASSUME IInv, NEW c \in Conns, handleConnect(c), EnvironmentUnchanged
    PROVE  IInv'
<1> DEFINE h == conn[c]
           r == h.req
           dec == AuthorizeConnect(ListEgressPolicies, h.id, r.host, r.port)
           k == GoTo(Admitted(h, dec, snap), dec.mode)
<1>1. h.pc = "connect" /\ SharedUnchanged
    BY DEF handleConnect, At
<1>2. ConnOK(h, out[c], transports) /\ snap \in DOMAIN Snapshots
    BY Known DEF IInv
<1>3. Clean(out[c])
    BY <1>1, CleanAt
<1>4. CASE dec.allowed
    <2>1. conn' = [conn EXCEPT ![c] = k] /\ out' = [out EXCEPT ![c] = out[c]]
        BY <1>4, Known DEF handleConnect, Continue, Admitted
    <2>2. dec.mode \in {"tunnel", "inspect"}
        BY DecisionIs
    <2>3. dec = AuthorizeConnect(Snapshots[snap].policies, h.id, r.host, r.port)
        BY DEF ListEgressPolicies
    <2> HIDE DEF dec
    <2>4. /\ IsHandler(k) /\ k.pc = dec.mode /\ k.id = h.id /\ k.req = h.req /\ k.dec = dec
          /\ k.seen = snap /\ k.unread = h.unread
        BY <1>2, AdmittedIs DEF ConnOK
    <2> HIDE DEF k
    <2>5. Authorized(k)
        BY <1>2, <1>4, <2>3, <2>4 DEF Authorized
    <2>6. OutOK(k, out[c])
        BY <1>2, <1>3, CleanOut DEF ConnOK
    <2>7. ConnOK(k, out[c], transports)
        BY <1>1, <1>2, <1>3, <2>2, <2>4, <2>5, <2>6
           DEF ConnOK, PointOK, RightOK, ReadOK, TransportOK
    <2> QED
        BY <1>1, <2>1, <2>7, HandlerStep DEF SharedUnchanged
<1>5. CASE ~dec.allowed
    <2>1. refuse(c, dec)
        BY <1>5 DEF handleConnect
    <2> HIDE DEF dec
    <2> QED
        BY <1>1, <1>3, <2>1, RefuseStep
<1> QED
    BY <1>4, <1>5

-----------------------------------------------------------------------------
(* handlePlainHTTP. *)

LEMMA rejectPlainStep ==
    ASSUME IInv, NEW c \in Conns, rejectPlain(c), EnvironmentUnchanged
    PROVE  IInv'
<1> DEFINE h == conn[c]
           q == Answered(out[c], 400)
           k == GoTo(Dialled(h), "closed")
<1>1. h.pc = "plain" /\ SharedUnchanged
    BY DEF rejectPlain, At
<1>2. ConnOK(h, out[c], transports)
    BY Known
<1>3. IsHandler(h) /\ h.unread \in BOOLEAN /\ h.req.kind = "plain"
    BY <1>1, <1>2 DEF ConnOK, PointOK, ReadOK
<1>4. OutOK(h, out[c]) /\ Open(out[c]) /\ out[c].leg = NoLeg
    BY <1>1, <1>2, CleanAt DEF ConnOK, Clean
<1>5. OutOK(h, q) /\ q.leg = out[c].leg
    BY <1>4, AnsweredIs
<1>6. conn' = [conn EXCEPT ![c] = k] /\ out' = [out EXCEPT ![c] = q]
    BY DEF rejectPlain, Return, Continue, Leave
<1> HIDE DEF q
<1>7. Settled(h, q)
    BY <1>3, <1>4, <1>5 DEF Settled
<1>8. ConnOK(k, q, transports)
    BY <1>3, <1>5, <1>7, JustReturn
<1> HIDE DEF k
<1> QED
    BY <1>1, <1>6, <1>8, HandlerStep DEF SharedUnchanged

Weighed(h, dec, rdec, s) == [h EXCEPT !.dec = dec, !.rdec = rdec, !.seen = s]

LEMMA WeighedIs ==
    ASSUME NEW h, IsHandler(h), NEW dec, NEW rdec, NEW s, NEW k, k = Weighed(h, dec, rdec, s)
    PROVE  /\ IsHandler(k) /\ k.id = h.id /\ k.req = h.req /\ k.dec = dec /\ k.rdec = rdec
           /\ k.seen = s /\ k.unread = h.unread
BY DEF IsHandler, Weighed

\* A plain request denied at its second stage, before anything left.
LEMMA DeniedPlain ==
    ASSUME NEW h, NEW o, NEW T, ConnOK(h, o, T), h.pc = "plain", NEW w, IsHandler(w), w.req = h.req,
           w.unread \in BOOLEAN, NEW policy, NEW q, q = Logged(o, "deny_policy", policy, None, 403),
           NEW k, k = GoTo(w, "closed") \/ k = GoTo([w EXCEPT !.unread = FALSE], "plainRead")
    PROVE  ConnOK(k, q, T)
<1>1. Clean(o) /\ OutOK(h, o)
    BY DEF ConnOK, PointOK
<1>2. OutOK(k, o) /\ Open(o) /\ o.leg = NoLeg
    BY <1>1, CleanOut
<1>3. OutOK(k, q) /\ q.records = 1
    BY <1>2, LogStep
<1>4. CASE k = GoTo(w, "closed")
    <2>1. IsHandler(k) /\ k.pc = "closed" /\ k.unread \in BOOLEAN
        BY <1>4, Moved
    <2> QED
        BY <1>3, <2>1 DEF ConnOK, PointOK, RightOK, ReadOK, TransportOK, Settled
<1>5. CASE k = GoTo([w EXCEPT !.unread = FALSE], "plainRead")
    <2>1. IsHandler(k) /\ k.pc = "plainRead" /\ k.unread \in BOOLEAN /\ ~k.unread
        BY <1>5, Drained
    <2> QED
        BY <1>3, <2>1 DEF ConnOK, PointOK, RightOK, ReadOK, TransportOK, Settled
<1> QED
    BY <1>4, <1>5

LEMMA authorizePlainStep ==
    ASSUME IInv, NEW c \in Conns, authorizePlain(c), EnvironmentUnchanged
    PROVE  IInv'
<1> DEFINE h == conn[c]
           r == h.req
           dec == AuthorizeConnect(ListEgressPolicies, h.id, r.host, r.port)
           rdec == AuthorizeRequest(dec, r.target, r.method, r.upgrade)
           w == Weighed(h, dec, rdec, snap)
           q == Logged(out[c], "deny_policy", firstPolicy(dec), None, 403)
<1>1. h.pc = "plain" /\ SharedUnchanged
    BY DEF authorizePlain, At
<1>2. ConnOK(h, out[c], transports) /\ snap \in DOMAIN Snapshots
    BY Known DEF IInv
<1>3. IsHandler(h) /\ h.unread \in BOOLEAN /\ h.req.kind = "plain" /\ Clean(out[c])
    BY <1>1, <1>2, CleanAt DEF ConnOK, PointOK, ReadOK
<1>4. dec = AuthorizeConnect(Snapshots[snap].policies, h.id, r.host, r.port)
    BY DEF ListEgressPolicies
<1>5. \/ ~dec.allowed /\ refuse(c, dec)
      \/ dec.allowed /\ rdec.allowed /\ Continue(c, w, "plainProfile") /\ UNCHANGED out
      \/ Leave(c, q) /\ Continue(c, w, "closed")
      \/ Leave(c, q) /\ Continue(c, [w EXCEPT !.unread = FALSE], "plainRead")
    BY DEF authorizePlain, Weighed
<1> HIDE DEF dec
<1>6. rdec = AuthorizeRequest(dec, r.target, r.method, r.upgrade)
    OBVIOUS
<1> HIDE DEF rdec
<1>7. /\ IsHandler(w) /\ w.id = h.id /\ w.req = h.req /\ w.dec = dec /\ w.rdec = rdec
      /\ w.seen = snap /\ w.unread = h.unread
    BY <1>3, WeighedIs
<1>8. CASE refuse(c, dec)
    BY <1>1, <1>3, <1>8, RefuseStep
<1>9. CASE dec.allowed /\ rdec.allowed /\ Continue(c, w, "plainProfile") /\ UNCHANGED out
    <2> DEFINE k == GoTo(w, "plainProfile")
    <2>1. conn' = [conn EXCEPT ![c] = k] /\ out' = [out EXCEPT ![c] = out[c]]
        BY <1>9, Known DEF Continue
    <2> HIDE DEF w
    <2>2. IsHandler(k) /\ SameRequest(w, k) /\ k.pc = "plainProfile" /\ k.unread = w.unread
        BY <1>7, Moved
    <2> HIDE DEF k
    <2>3. Authorized(k) /\ Allowed(k)
        BY <1>2, <1>4, <1>6, <1>7, <1>9, <2>2 DEF SameRequest, Authorized, Allowed
    <2>4. OutOK(k, out[c])
        BY <1>2, <1>3, CleanOut DEF ConnOK
    <2>5. k.req.kind = "plain" /\ k.unread \in BOOLEAN
        BY <1>3, <1>7, <2>2 DEF SameRequest
    <2>6. ConnOK(k, out[c], transports)
        BY <1>3, <2>2, <2>3, <2>4, <2>5 DEF ConnOK, PointOK, RightOK, ReadOK, TransportOK
    <2> QED
        BY <1>1, <2>1, <2>6, HandlerStep DEF SharedUnchanged
<1>10. ASSUME NEW k, k = GoTo(w, "closed") \/ k = GoTo([w EXCEPT !.unread = FALSE], "plainRead"),
              conn' = [conn EXCEPT ![c] = k], Leave(c, q)
       PROVE  IInv'
    <2>1. out' = [out EXCEPT ![c] = q]
        BY <1>10 DEF Leave
    <2> HIDE DEF w
    <2>2. ConnOK(k, q, transports)
        BY <1>1, <1>2, <1>3, <1>7, <1>10, DeniedPlain
    <2> HIDE DEF q
    <2> QED
        BY <1>1, <1>10, <2>1, <2>2, HandlerStep DEF SharedUnchanged
<1> HIDE DEF w
<1> QED
    BY <1>5, <1>8, <1>9, <1>10 DEF Continue

LEMMA PlainKnown ==
    ASSUME IInv, NEW c \in Conns, conn[c].pc \in Plains
    PROVE  /\ IsHandler(conn[c]) /\ OutOK(conn[c], out[c]) /\ Open(out[c])
           /\ conn[c].req.kind = "plain" /\ Authorized(conn[c]) /\ Allowed(conn[c])
           /\ conn[c].unread \in BOOLEAN
           /\ DecidingPolicy(conn[c]) = conn[c].rdec.policy
           /\ DecidingUpstream(conn[c]) = conn[c].rdec.upstream
BY Known DEF ConnOK, PointOK, RightOK, ReadOK, Clean, DecidingPolicy, DecidingUpstream

LEMMA plainProfileStep ==
    ASSUME IInv, NEW c \in Conns, plainProfile(c), EnvironmentUnchanged
    PROVE  IInv'
<1>1. conn[c].pc = "plainProfile" /\ SharedUnchanged
    BY DEF plainProfile, At
<1>2. Clean(out[c]) /\ DecidingUpstream(conn[c]) = conn[c].rdec.upstream
    BY <1>1, CleanAt, PlainKnown
<1>3. CASE HasUpstream(conn[c].rdec.upstream)
    BY <1>1, <1>2, <1>3, ProfileStep DEF plainProfile, Upstream
<1>4. CASE ~HasUpstream(conn[c].rdec.upstream)
    BY <1>1, <1>2, <1>4, MissingStep DEF plainProfile, Upstream
<1> QED
    BY <1>3, <1>4

LEMMA plainGuardStep ==
    ASSUME IInv, NEW c \in Conns, plainGuard(c), EnvironmentUnchanged
    PROVE  IInv'
<1> DEFINE res == Resolve(Lookup(conn[c].dec.host))
<1>1. conn[c].pc = "plainGuard" /\ SharedUnchanged
    BY DEF plainGuard, At
<1>2. Clean(out[c]) /\ conn[c].req.kind = "plain"
    BY <1>1, CleanAt, PlainKnown
<1>3. CASE res.err = None
    BY <1>1, <1>2, <1>3, GuardStep DEF plainGuard, Guard
<1>4. CASE res.err # None
    BY <1>1, <1>2, <1>4, RefusalStep DEF plainGuard, Guard
<1> QED
    BY <1>3, <1>4

LEMMA plainDialStep ==
    ASSUME IInv, NEW c \in Conns, plainDial(c), EnvironmentUnchanged
    PROVE  IInv'
<1> DEFINE h == conn[c]
           k == GoTo(h, "plainWrite")
<1>1. h.pc = "plainDial" /\ SharedUnchanged
    BY DEF plainDial, At
<1>2. ConnOK(h, out[c], transports) /\ Clean(out[c])
    BY <1>1, Known, CleanAt
<1>3. PICK err \in DialForward(h.profile) :
          IF err = None THEN Continue(c, h, "plainWrite") /\ UNCHANGED out
          ELSE dialFailure(c, out[c], err)
    BY DEF plainDial
<1>4. err \in {None, "internal", "unreachable"}
    BY DEF DialForward, Unreachable, Outcome
<1>5. CASE err = None
    <2>1. conn' = [conn EXCEPT ![c] = k] /\ out' = [out EXCEPT ![c] = out[c]]
        BY <1>3, <1>5, Known DEF Continue
    <2>2. /\ IsHandler(k) /\ SameRequest(h, k) /\ k.pc = "plainWrite"
          /\ k.profile = h.profile /\ k.unread = h.unread
        BY <1>2, Moved DEF ConnOK
    <2> HIDE DEF k
    <2>3. OutOK(k, out[c])
        BY <1>2, <2>2, SameOut DEF ConnOK
    <2>4. PointOK(k, out[c]) /\ ReadOK(k, out[c]) /\ TransportOK(k, transports)
        BY <1>1, <1>2, <2>2 DEF ConnOK, PointOK, ReadOK, TransportOK, SameRequest
    <2>5. RightOK(k)
        <3>1. DecidingUpstream(k) = DecidingUpstream(h)
            BY <2>2 DEF SameRequest, DecidingUpstream
        <3>2. Authorized(k) /\ Allowed(k)
            BY <1>1, <1>2, <2>2 DEF ConnOK, RightOK, SameRequest, Authorized, Allowed
        <3> QED
            BY <1>1, <1>2, <2>2, <3>1, <3>2 DEF ConnOK, RightOK
    <2> QED
        BY <1>1, <2>1, <2>2, <2>3, <2>4, <2>5, HandlerStep DEF ConnOK, SharedUnchanged
<1>6. CASE err # None
    BY <1>1, <1>2, <1>3, <1>4, <1>6, MissingStep
<1> QED
    BY <1>5, <1>6

\* What a plain request is handed over as.
LEMMA ForwardedIs ==
    ASSUME NEW h, NEW o, NEW T, ConnOK(h, o, T), h.pc = "plainWrite",
           NEW q, q = Sent(o, ViaProxy(h.profile, h.dec.host))
    PROVE  OutOK(h, q) /\ Open(q) /\ OutOK(h, o) /\ Open(o)
<1> DEFINE leg == ViaProxy(h.profile, h.dec.host)
<1>1. /\ h.req.kind = "plain" /\ Authorized(h) /\ Allowed(h) /\ Clean(o) /\ OutOK(h, o) /\ Open(o)
    BY DEF ConnOK, PointOK, RightOK, Clean
<1>2. h.dec.host = h.req.host
    BY <1>1, AuthorizedHost
<1>3. PICK s \in DOMAIN Snapshots :
          /\ DecidingUpstream(h) \in DOMAIN Snapshots[s].upstreams
          /\ h.profile = Snapshots[s].upstreams[DecidingUpstream(h)]
    BY DEF ConnOK, RightOK
<1>4. /\ leg # NoLeg /\ leg.host = h.dec.host
      /\ OwnAccount(leg, DecidingUpstream(h)) /\ Guarded(leg)
    BY <1>3, ProxyLeg
<1> HIDE DEF leg
<1>5. Leavable(h, leg)
    BY <1>1, <1>2, <1>4 DEF Leavable
<1>6. Judged(h)
    BY <1>1 DEF Judged
<1> QED
    BY <1>1, <1>5, <1>6, SentIs DEF leg

Handed(h) == [Dialled(h) EXCEPT !.unread = FALSE]

LEMMA HandedIs ==
    ASSUME NEW h, IsHandler(h), NEW p, NEW k, k = GoTo(Handed(h), p)
    PROVE  IsHandler(k) /\ SameRequest(h, k) /\ k.pc = p /\ ~k.unread /\ k.unread \in BOOLEAN
BY DEF IsHandler, SameRequest, GoTo, Handed, Dialled

LEMMA plainWriteStep ==
    ASSUME IInv, NEW c \in Conns, plainWrite(c), EnvironmentUnchanged
    PROVE  IInv'
<1> DEFINE h == conn[c]
           sent == Sent(out[c], ViaProxy(h.profile, h.dec.host))
           k == GoTo(Handed(h), "plainResponse")
<1>1. h.pc = "plainWrite" /\ SharedUnchanged
    BY DEF plainWrite, At
<1>2. OutOK(h, sent) /\ Open(sent) /\ OutOK(h, out[c]) /\ Open(out[c])
    BY <1>1, Known, ForwardedIs
<1>3. /\ IsHandler(h) /\ h.req.kind = "plain" /\ Authorized(h) /\ Allowed(h)
    BY <1>1, PlainKnown
<1>4. CASE Leave(c, sent) /\ Continue(c, Handed(h), "plainResponse")
    <2>1. conn' = [conn EXCEPT ![c] = k] /\ out' = [out EXCEPT ![c] = sent]
        BY <1>4 DEF Continue, Leave
    <2>2. IsHandler(k) /\ SameRequest(h, k) /\ k.pc = "plainResponse" /\ ~k.unread /\ k.unread \in BOOLEAN
        BY <1>3, HandedIs
    <2> HIDE DEF k, sent
    <2>3. OutOK(k, sent)
        BY <1>2, <2>2, SameOut
    <2>4. k.req.kind = "plain" /\ Authorized(k) /\ Allowed(k)
        BY <1>3, <2>2 DEF SameRequest, Authorized, Allowed
    <2>5. ConnOK(k, sent, transports)
        BY <1>2, <2>2, <2>3, <2>4 DEF ConnOK, PointOK, RightOK, ReadOK, TransportOK
    <2> QED
        BY <1>1, <2>1, <2>5, HandlerStep DEF SharedUnchanged
<1>5. CASE \E o \in {out[c], sent} : dialFailure(c, o, "internal")
    <2>1. PICK o \in {out[c], sent} : dialFailure(c, o, "internal")
        BY <1>5
    <2>2. OutOK(h, o) /\ Open(o)
        BY <1>2
    <2> HIDE DEF sent
    <2> QED
        BY <1>1, <1>3, <2>1, <2>2, DialFailureStep
<1> QED
    BY <1>4, <1>5 DEF plainWrite, Handed

LEMMA plainRespondStep ==
    ASSUME IInv, NEW c \in Conns, plainRespond(c), EnvironmentUnchanged
    PROVE  IInv'
<1> DEFINE h == conn[c]
           k == GoTo(h, "plainRead")
           q == Logged(out[c], "allow", h.rdec.policy, h.rdec.upstream, 200)
<1>1. h.pc = "plainResponse" /\ SharedUnchanged /\ Leave(c, q)
    BY DEF plainRespond, At
<1>2. /\ IsHandler(h) /\ OutOK(h, out[c]) /\ Open(out[c])
      /\ DecidingPolicy(h) = h.rdec.policy /\ DecidingUpstream(h) = h.rdec.upstream
    BY <1>1, PlainKnown
<1>3. CASE Continue(c, h, "plainRead")
    <2>1. conn' = [conn EXCEPT ![c] = k] /\ out' = [out EXCEPT ![c] = q]
        BY <1>1, <1>3 DEF Continue, Leave
    <2>2. OutOK(h, q) /\ q.records = 1
        BY <1>2, LogStep DEF Denials
    <2>3. IsHandler(k) /\ SameRequest(h, k) /\ k.pc = "plainRead" /\ k.unread = h.unread
        BY <1>2, Moved
    <2> HIDE DEF k, q
    <2>4. OutOK(k, q)
        BY <2>2, <2>3, SameOut
    <2>5. ReadOK(k, q)
        BY <1>1, <2>3, Known DEF ConnOK, ReadOK
    <2>6. ConnOK(k, q, transports)
        BY <2>2, <2>3, <2>4, <2>5 DEF ConnOK, PointOK, RightOK, TransportOK, Settled
    <2> QED
        BY <1>1, <2>1, <2>6, HandlerStep DEF SharedUnchanged
<1>4. CASE Return(c)
    BY <1>1, <1>2, <1>4, FailStep DEF Denials
<1> QED
    BY <1>3, <1>4 DEF plainRespond

LEMMA plainFailsStep ==
    ASSUME IInv, NEW c \in Conns, plainFails(c), EnvironmentUnchanged
    PROVE  IInv'
<1>1. conn[c].pc = "plainResponse" /\ SharedUnchanged
    BY DEF plainFails, At
<1>2. /\ OutOK(conn[c], out[c]) /\ Open(out[c])
      /\ DecidingPolicy(conn[c]) = conn[c].rdec.policy
      /\ DecidingUpstream(conn[c]) = conn[c].rdec.upstream
    BY <1>1, PlainKnown
<1> QED
    BY <1>1, <1>2, FailStep DEF plainFails, Denials

LEMMA plainSwitchStep ==
    ASSUME IInv, NEW c \in Conns, plainSwitch(c), EnvironmentUnchanged
    PROVE  IInv'
BY AnswerStep DEF plainSwitch, At, AnswersAt

LEMMA plainSpliceEndStep ==
    ASSUME IInv, NEW c \in Conns, plainSpliceEnd(c), EnvironmentUnchanged
    PROVE  IInv'
<1>1. conn[c].pc = "plainUpgraded" /\ Return(c) /\ UNCHANGED out /\ SharedUnchanged
    BY DEF plainSpliceEnd, At, SharedUnchanged
<1>2. Settled(conn[c], out[c])
    BY <1>1, Known DEF ConnOK, PointOK, Settled
<1> QED
    BY <1>1, <1>2, ReturnStep

\* A later request of a connection, whose CONNECTs are no longer told apart.
Repeated(h, r) == [h EXCEPT !.req = [r EXCEPT !.kind = "plain"], !.unread = (r.body # "none")]

LEMMA RepeatedIs ==
    ASSUME NEW h, IsHandler(h), NEW r, IsRequest(r), NEW p, NEW k, k = GoTo(Repeated(h, r), p)
    PROVE  IsHandler(k) /\ k.pc = p /\ k.req.kind = "plain" /\ k.unread \in BOOLEAN
BY DEF IsHandler, IsRequest, GoTo, Repeated

LEMMA readPlainStep ==
    ASSUME IInv, NEW c \in Conns, readPlain(c), EnvironmentUnchanged
    PROVE  IInv'
<1> DEFINE h == conn[c]
<1>1. SharedUnchanged /\ Leave(c, Fresh)
    BY DEF readPlain
<1>2. PICK r \in ConnectRequests \cup PlainRequests : Continue(c, Repeated(h, r), "plain")
    BY DEF readPlain, Repeated
<1> DEFINE k == GoTo(Repeated(h, r), "plain")
<1>3. IsHandler(h) /\ IsRequest(r)
    BY Known, RequestsAre DEF ConnOK
<1>4. IsHandler(k) /\ k.pc = "plain" /\ k.req.kind = "plain" /\ k.unread \in BOOLEAN
    BY <1>3, RepeatedIs
<1>5. conn' = [conn EXCEPT ![c] = k] /\ out' = [out EXCEPT ![c] = Fresh]
    BY <1>1, <1>2 DEF Continue, Leave
<1> HIDE DEF k
<1>6. ConnOK(k, Fresh, transports)
    BY <1>4, FreshOut DEF ConnOK, PointOK, RightOK, ReadOK, TransportOK
<1> QED
    BY <1>1, <1>5, <1>6, HandlerStep DEF SharedUnchanged

-----------------------------------------------------------------------------
(* The invariant. *)

LEMMA Initially == Init => IInv
<1> SUFFICES ASSUME Init
             PROVE  IInv
    OBVIOUS
<1>1. IsHandler(Idle) /\ Idle.pc = "closed" /\ Idle.req.kind = None /\ Idle.unread \in BOOLEAN
    BY DEF IsHandler, Idle, NoRequest
<1>2. OutOK(Idle, Fresh) /\ Fresh.leg = NoLeg
    BY FreshOut DEF Clean
<1>3. ConnOK(Idle, Fresh, transports)
    BY <1>1, <1>2 DEF ConnOK, PointOK, RightOK, ReadOK, TransportOK, Settled, None
<1> QED
    BY <1>3 DEF Init, IInv

LEMMA Handled ==
    ASSUME IInv, NEW c \in Conns, Handle(c), EnvironmentUnchanged
    PROVE  IInv'
<1>1. CASE Accept(c) \/ Disconnect(c) \/ ReadRequest(c) \/ Identify(c) \/ denyIdentity(c)
    BY <1>1, AcceptStep, DisconnectStep, ReadRequestStep, IdentifyStep, denyIdentityStep
<1>2. CASE \/ rejectConnect(c) \/ handleConnect(c) \/ tunnelProfile(c) \/ tunnelGuard(c)
           \/ tunnelDial(c) \/ tunnel200(c) \/ tunnelEnd(c)
    BY <1>2, rejectConnectStep, handleConnectStep, tunnelProfileStep, tunnelGuardStep,
       tunnelDialStep, tunnel200Step, tunnelEndStep
<1>3. CASE \/ inspect200(c) \/ handshake(c) \/ readBumpedRequest(c) \/ authorizeBumped(c)
           \/ transportFor(c) \/ reusePooled(c) \/ retryPooled(c)
    BY <1>3, inspect200Step, handshakeStep, readBumpedRequestStep, authorizeBumpedStep,
       transportForStep, reusePooledStep, retryPooledStep
<1>4. CASE \/ originProfile(c) \/ originGuard(c) \/ originDial(c) \/ bodySent(c)
           \/ respond(c) \/ respondFails(c) \/ switchProtocols(c) \/ upgradeHead(c)
           \/ upgradeCopied(c) \/ upgradeFails(c) \/ spliceUpgrade(c)
    BY <1>4, originProfileStep, originGuardStep, originDialStep, bodySentStep, respondStep, respondFailsStep,
       switchProtocolsStep, upgradeHeadStep, upgradeCopiedStep, upgradeFailsStep, spliceUpgradeStep
<1>5. CASE \/ rejectPlain(c) \/ authorizePlain(c) \/ plainProfile(c) \/ plainGuard(c)
           \/ plainDial(c) \/ plainWrite(c)
    BY <1>5, rejectPlainStep, authorizePlainStep, plainProfileStep, plainGuardStep,
       plainDialStep, plainWriteStep
<1>6. CASE \/ plainRespond(c) \/ plainFails(c) \/ plainSwitch(c) \/ plainSpliceEnd(c)
           \/ readPlain(c)
    BY <1>6, plainRespondStep, plainFailsStep, plainSwitchStep, plainSpliceEndStep, readPlainStep
<1> QED
    BY <1>1, <1>2, <1>3, <1>4, <1>5, <1>6 DEF Handle

LEMMA Inductive == IInv /\ [Next]_vars => IInv'
<1> SUFFICES ASSUME IInv, [Next]_vars
             PROVE  IInv'
    OBVIOUS
<1>1. CASE Publish
    BY <1>1 DEF Publish, IInv
<1>2. CASE Rebind
    BY <1>2 DEF Rebind, IInv
<1>3. CASE Expire
    BY <1>3 DEF Expire, IInv
<1>4. CASE \E c \in Conns : Handle(c) /\ EnvironmentUnchanged
    BY <1>4, Handled
<1>5. CASE UNCHANGED vars
    BY <1>5 DEF vars, IInv
<1> QED
    BY <1>1, <1>2, <1>3, <1>4, <1>5 DEF Next

\* What each handler and the pool hold, in every state.
THEOREM HandlersKnowTheirPlace == Spec => []IInv
<1> QED
    BY Initially, Inductive, PTL DEF Spec

-----------------------------------------------------------------------------
(* What follows. *)

LEMMA OutKnown ==
    ASSUME IInv, NEW c \in Conns
    PROVE  OutOK(conn[c], out[c])
BY Known DEF ConnOK

\* The policy that the deciding stage named grants the request by itself.
LEMMA Granter ==
    ASSUME NEW h, Judged(h)
    PROVE  \E pol \in Snapshots[h.seen].policies :
               /\ Grants(pol, h)
               /\ pol.name = DecidingPolicy(h) /\ pol.upstream = DecidingUpstream(h)
<1> DEFINE P == Snapshots[h.seen].policies
           r == h.req
<1>1. /\ UniqueNames(P) /\ h.dec = AuthorizeConnect(P, h.id, r.host, r.port) /\ h.dec.allowed
      /\ h.dec.host = r.host /\ h.dec.port = r.port
    BY SnapshotsAssumption, AuthorizedHost DEF Judged, Authorized
<1> HIDE DEF P
<1>2. CASE r.kind = "connect"
    <2>1. PICK pol \in P : /\ pol.name = firstPolicy(h.dec) /\ pol.upstream = h.dec.upstream
                           /\ AuthorizeConnect({pol}, h.id, r.host, r.port).allowed
        BY <1>1, ConnectGranter
    <2>2. Grants(pol, h)
        BY <1>1, <1>2, <2>1 DEF Grants
    <2> QED
        BY <1>2, <2>1, <2>2 DEF DecidingPolicy, DecidingUpstream, P
<1>3. CASE r.kind # "connect"
    <2>1. /\ h.rdec = AuthorizeRequest(AuthorizeConnect(P, h.id, r.host, r.port), r.target, r.method, r.upgrade)
          /\ h.rdec.allowed
        BY <1>1, <1>3 DEF Judged, Allowed
    <2>2. PICK pol \in P : /\ pol.name = h.rdec.policy /\ pol.upstream = h.rdec.upstream
                           /\ AuthorizeRequest(AuthorizeConnect({pol}, h.id, r.host, r.port),
                                               r.target, r.method, r.upgrade).allowed
        <3> DEFINE rdec == AuthorizeRequest(AuthorizeConnect(P, h.id, r.host, r.port), r.target, r.method, r.upgrade)
        <3>1. UniqueNames(P) /\ rdec.allowed
            BY <1>1, <2>1
        <3>2. \E pol \in P :
                  /\ pol.name = rdec.policy /\ pol.upstream = rdec.upstream
                  /\ AuthorizeRequest(AuthorizeConnect({pol}, h.id, r.host, r.port),
                                      r.target, r.method, r.upgrade).allowed
            BY <3>1, RequestGranter
        <3>3. h.rdec = rdec
            BY <2>1
        <3> HIDE DEF rdec
        <3> QED
            BY <3>2, <3>3
    <2>3. Grants(pol, h)
        BY <1>1, <1>3, <2>2 DEF Grants
    <2> QED
        BY <1>3, <2>2, <2>3 DEF DecidingPolicy, DecidingUpstream, P
<1> QED
    BY <1>2, <1>3

\* What leaves the relay goes to the host the client named, under an account of
\* a policy that grants the very request, whatever is published, resolved or
\* pooled in between.
THEOREM EgressIsGranted == Spec => []GrantedEgress
<1>1. IInv => GrantedEgress
    <2> SUFFICES ASSUME IInv, NEW c \in Conns, out[c].leg # NoLeg
                 PROVE  /\ out[c].leg.host = conn[c].req.host
                        /\ \E pol \in Snapshots[conn[c].seen].policies :
                               Grants(pol, conn[c]) /\ LegOf(out[c].leg, pol)
        BY DEF GrantedEgress
    <2>1. Judged(conn[c]) /\ LegOK(conn[c], out[c])
        BY OutKnown DEF OutOK
    <2>2. PICK pol \in Snapshots[conn[c].seen].policies :
              Grants(pol, conn[c]) /\ pol.upstream = DecidingUpstream(conn[c])
        BY <2>1, Granter
    <2> QED
        BY <2>1, <2>2 DEF LegOK, LegOf, OwnAccount
<1> QED
    BY <1>1, HandlersKnowTheirPlace, PTL

\* An idle origin connection is only ever kept, and so reused, under a profile
\* that has the account it was opened with.
THEOREM PoolIsIsolated == Spec => []PoolIsolation
<1>1. IInv => PoolIsolation
    BY DEF IInv, EntryOK, OwnAccount, PoolIsolation
<1> QED
    BY <1>1, HandlersKnowTheirPlace, PTL

\* A request recorded as denied left no trace outside the relay.
THEOREM DenialsStayInside == Spec => []DeniedNeverEgresses
<1>1. IInv => DeniedNeverEgresses
    BY OutKnown DEF OutOK, Denials, DeniedNeverEgresses
<1> QED
    BY <1>1, HandlersKnowTheirPlace, PTL

\* A direct dial goes to an address of an answer the guard accepted, however
\* often the name is bound elsewhere meanwhile.
THEOREM DialsAreGuarded == Spec => []GuardedDial
<1>1. IInv => GuardedDial
    <2> SUFFICES ASSUME IInv, NEW c \in Conns, out[c].leg.via = "direct"
                 PROVE  \E d \in DOMAIN DnsStates :
                            LET answer == DnsStates[d][canonicalHost(out[c].leg.host)]
                            IN  out[c].leg.addr \in answer /\ answer \cap Denied = {}
        BY DEF GuardedDial
    <2>1. out[c].leg # NoLeg
        BY DEF NoLeg, None
    <2> QED
        BY <2>1, OutKnown DEF OutOK, LegOK, Guarded
<1> QED
    BY <1>1, HandlersKnowTheirPlace, PTL

\* No request is recorded twice, and each is recorded by the time its handler is
\* done with it, but for the two that Unrecorded names.
THEOREM RequestsAreAuditedOnce == Spec => []AuditedOnce
<1>1. IInv => AuditedOnce
    <2> SUFFICES ASSUME IInv, NEW c \in Conns
                 PROVE  /\ out[c].records <= 1
                        /\ conn[c].pc \in {"closed", "bumpRead", "plainRead"} =>
                               \/ out[c].records = 1
                               \/ conn[c].req.kind # "inner" /\ (out[c].leg = NoLeg \/ Unrecorded(c))
        BY DEF AuditedOnce
    <2>1. out[c].records \in {0, 1}
        BY OutKnown DEF OutOK
    <2>2. conn[c].pc \in Settling => Settled(conn[c], out[c])
        BY Known DEF ConnOK, PointOK
    <2> QED
        BY <2>1, <2>2 DEF Settled, Unrecorded
<1> QED
    BY <1>1, HandlersKnowTheirPlace, PTL

\* The record of a request that left names a policy that grants it and the
\* profile it left under, but for what Misnamed names.
THEOREM RecordsNameTheEgress == Spec => []RecordNamesEgress
<1>1. IInv => RecordNamesEgress
    <2> SUFFICES ASSUME IInv, NEW c \in Conns, out[c].records > 0, out[c].leg # NoLeg, ~Misnamed(c)
                 PROVE  \E pol \in Snapshots[conn[c].seen].policies :
                            /\ pol.name = out[c].policy /\ pol.upstream = out[c].upstream
                            /\ Grants(pol, conn[c]) /\ LegOf(out[c].leg, pol)
        BY DEF RecordNamesEgress
    <2>1. Judged(conn[c]) /\ LegOK(conn[c], out[c]) /\ NamesDecider(conn[c], out[c])
        <3>1. OutOK(conn[c], out[c])
            BY OutKnown
        <3>2. out[c].records = 1
            BY <3>1 DEF OutOK
        <3> QED
            BY <3>1, <3>2 DEF OutOK
    <2>2. out[c].policy = DecidingPolicy(conn[c]) /\ out[c].upstream = DecidingUpstream(conn[c])
        BY <2>1 DEF NamesDecider, Misnamed
    <2>3. PICK pol \in Snapshots[conn[c].seen].policies :
              /\ Grants(pol, conn[c])
              /\ pol.name = DecidingPolicy(conn[c]) /\ pol.upstream = DecidingUpstream(conn[c])
        BY <2>1, Granter
    <2> QED
        BY <2>1, <2>2, <2>3 DEF LegOK, LegOf, OwnAccount
<1> QED
    BY <1>1, HandlersKnowTheirPlace, PTL

\* What the client of a refused destination is told, and the record says: a
\* denial, but behind RoundTrip, where GuardRefusalIs403 fails, always a 502.
RefusalTold ==
    \A c \in Conns : out[c].refused =>
        <<out[c].status, out[c].decision>> =
            IF conn[c].req.kind = "inner" THEN <<502, "error_upstream">> ELSE <<403, "deny_guard">>

\* The guard's refusal of a tunnel or a plain request is told and recorded as a
\* denial (dialFailure); that of an inspected request is always a 502.
THEOREM RefusalsAreTold == Spec => []RefusalTold
<1>1. IInv => RefusalTold
    BY OutKnown DEF OutOK, RefusalTold
<1> QED
    BY <1>1, HandlersKnowTheirPlace, PTL

\* A handler waits for its next request at a boundary between two, unless the
\* transport still reads a body whose response was early.
THEOREM BodiesAreConsumed == Spec => []ReadsAtBoundary
<1>1. IInv => ReadsAtBoundary
    <2> SUFFICES ASSUME IInv, NEW c \in Conns, conn[c].unread
                 PROVE  conn[c].pc # "plainRead" /\ (conn[c].pc = "bumpRead" => out[c].decision = "allow")
        BY DEF ReadsAtBoundary, At
    <2> QED
        BY Known DEF ConnOK, ReadOK
<1> QED
    BY <1>1, HandlersKnowTheirPlace, PTL

-----------------------------------------------------------------------------
(* What a step may do to what a request left behind. *)

\* q may follow out[c].
Follows(c, q) ==
    \/ out[c].records = 0 /\ (out[c].leg # NoLeg => q.leg # NoLeg)
    \/ q = out[c]
    \/ conn[c].pc \in Settling /\ q = Fresh

\* The handler's step leaves the others' alone, and to its own what may follow.
Keeps(c) == \E q : out' = [out EXCEPT ![c] = q] /\ Follows(c, q)

\* A handler that waits for a request, or that only moves.
LEMMA WaitingKeeps ==
    ASSUME IInv, NEW c \in Conns,
           \/ Accept(c) \/ Disconnect(c) \/ ReadRequest(c) \/ Identify(c) \/ readBumpedRequest(c)
           \/ retryPooled(c) \/ bodySent(c) \/ switchProtocols(c) \/ upgradeCopied(c)
           \/ plainSpliceEnd(c) \/ readPlain(c)
    PROVE  Keeps(c)
<1>1. UNCHANGED out => Keeps(c)
    BY Known DEF Keeps, Follows
<1>2. conn[c].pc \in Settling /\ Leave(c, Fresh) => Keeps(c)
    BY DEF Keeps, Follows, Leave
<1>3. CASE Accept(c) \/ readBumpedRequest(c) \/ readPlain(c)
    BY <1>2, <1>3 DEF Accept, readBumpedRequest, readPlain, At
<1>4. CASE \/ Disconnect(c) \/ ReadRequest(c) \/ Identify(c) \/ retryPooled(c) \/ bodySent(c)
           \/ switchProtocols(c) \/ upgradeCopied(c) \/ plainSpliceEnd(c)
    BY <1>1, <1>4 DEF Disconnect, ReadRequest, Identify, retryPooled, bodySent, switchProtocols,
                      upgradeCopied, plainSpliceEnd
<1> QED
    BY <1>3, <1>4

\* A handler whose request has not left: whatever it leaves may follow.
LEMMA InsideKeeps ==
    ASSUME IInv, NEW c \in Conns, conn[c].pc \notin InFlight \cup Settling,
           \/ UNCHANGED out
           \/ \E q : Leave(c, q)
    PROVE  Keeps(c)
<1>1. out[c].records = 0 /\ out[c].leg = NoLeg
    BY Known DEF ConnOK, PointOK, Clean, Open
<1> QED
    BY <1>1, Known DEF Keeps, Follows, Leave

LEMMA JudgingKeeps ==
    ASSUME IInv, NEW c \in Conns,
           \/ denyIdentity(c) \/ rejectConnect(c) \/ handleConnect(c) \/ tunnelProfile(c) \/ tunnelGuard(c)
           \/ tunnelDial(c) \/ inspect200(c) \/ handshake(c) \/ authorizeBumped(c) \/ transportFor(c)
    PROVE  Keeps(c)
<1>1. conn[c].pc \notin InFlight \cup Settling
    BY DEF denyIdentity, rejectConnect, handleConnect, tunnelProfile, tunnelGuard, tunnelDial, inspect200,
           handshake, authorizeBumped, transportFor, At
<1>2. UNCHANGED out \/ \E q : Leave(c, q)
    <2>1. CASE denyIdentity(c) \/ rejectConnect(c) \/ handleConnect(c) \/ inspect200(c) \/ handshake(c)
        BY <2>1 DEF denyIdentity, rejectConnect, handleConnect, refuse, inspect200, handshake
    <2>2. CASE tunnelProfile(c) \/ tunnelGuard(c)
        BY <2>2 DEF tunnelProfile, tunnelGuard, Upstream, Guard, dialFailure
    <2>3. CASE tunnelDial(c)
        BY <2>3 DEF tunnelDial, dialFailure
    <2>4. CASE authorizeBumped(c) \/ transportFor(c)
        BY <2>4 DEF authorizeBumped, transportFor, forwardFailed
    <2> QED
        BY <2>1, <2>2, <2>3, <2>4
<1> QED
    BY <1>1, <1>2, InsideKeeps

LEMMA PlainKeeps ==
    ASSUME IInv, NEW c \in Conns,
           \/ rejectPlain(c) \/ authorizePlain(c) \/ plainProfile(c) \/ plainGuard(c)
           \/ plainDial(c) \/ plainWrite(c)
    PROVE  Keeps(c)
<1>1. conn[c].pc \notin InFlight \cup Settling
    BY DEF rejectPlain, authorizePlain, plainProfile, plainGuard, plainDial, plainWrite, At
<1>2. UNCHANGED out \/ \E q : Leave(c, q)
    <2>1. CASE rejectPlain(c) \/ authorizePlain(c)
        BY <2>1 DEF rejectPlain, authorizePlain, refuse
    <2>2. CASE plainProfile(c) \/ plainGuard(c)
        BY <2>2 DEF plainProfile, plainGuard, Upstream, Guard, dialFailure
    <2>3. CASE plainDial(c) \/ plainWrite(c)
        BY <2>3 DEF plainDial, plainWrite, dialFailure
    <2> QED
        BY <2>1, <2>2, <2>3
<1> QED
    BY <1>1, <1>2, InsideKeeps

\* A record, an answer, a refusal and a dial forget no leg.
LEMMA LegsStay ==
    ASSUME NEW o, IsOut(o), o.leg # NoLeg
    PROVE  /\ \A d, p, u, s : Logged(o, d, p, u, s).leg # NoLeg
           /\ \A s : Answered(o, s).leg # NoLeg
           /\ \A d, p, u, s : Logged(GuardRefused(o), d, p, u, s).leg # NoLeg
           /\ \A leg, d, p, u, s : /\ Sent(o, leg).leg # NoLeg
                                  /\ Logged(Sent(o, leg), d, p, u, s).leg # NoLeg
<1>1. ASSUME NEW q, IsOut(q), NEW d, NEW p, NEW u, NEW s
      PROVE  Logged(q, d, p, u, s).leg = q.leg
    BY <1>1 DEF IsOut, Logged
<1>2. ASSUME NEW s PROVE Answered(o, s).leg = o.leg
    BY DEF IsOut, Answered
<1>3. IsOut(GuardRefused(o)) /\ GuardRefused(o).leg = o.leg
    BY RefusedIs
<1>4. ASSUME NEW leg
      PROVE  IsOut(Sent(o, leg)) /\ Sent(o, leg).leg # NoLeg
    <2>1. CASE leg = NoLeg
        BY <2>1 DEF Sent
    <2>2. CASE leg # NoLeg
        <3>1. ASSUME NEW q, q = Sent(o, leg)
              PROVE  IsOut(q) /\ q.leg = leg
            BY <2>2, <3>1 DEF IsOut, Sent
        <3> QED
            BY <2>2, <3>1
    <2> QED
        BY <2>1, <2>2
<1> QED
    BY <1>1, <1>2, <1>3, <1>4

\* A handler whose request may have left.
LEMMA OutsideKeeps ==
    ASSUME IInv, NEW c \in Conns,
           \/ tunnel200(c) \/ tunnelEnd(c) \/ originProfile(c) \/ originGuard(c) \/ originDial(c)
           \/ reusePooled(c) \/ respond(c) \/ respondFails(c) \/ upgradeHead(c) \/ upgradeFails(c) \/ spliceUpgrade(c)
           \/ plainRespond(c) \/ plainFails(c) \/ plainSwitch(c)
    PROVE  Keeps(c)
<1> DEFINE o == out[c]
<1>1. conn[c].pc \in InFlight
    BY DEF tunnel200, tunnelEnd, originProfile, originGuard, originDial, reusePooled, respond, respondFails,
           upgradeHead, upgradeFails, spliceUpgrade, plainRespond, plainFails, plainSwitch, At
<1>2. o.records = 0 /\ IsOut(o)
    BY <1>1, Known DEF ConnOK, PointOK, OutOK, Open
<1>3. ASSUME NEW q, Leave(c, q), o.leg # NoLeg => q.leg # NoLeg
      PROVE  Keeps(c)
    BY <1>2, <1>3 DEF Keeps, Follows, Leave
<1>4. UNCHANGED out => Keeps(c)
    BY Known DEF Keeps, Follows
<1>5. /\ \A d, p, u, s : Leave(c, Logged(o, d, p, u, s)) => Keeps(c)
      /\ \A s : Leave(c, Answered(o, s)) => Keeps(c)
      /\ \A d, p, u, s : Leave(c, Logged(GuardRefused(o), d, p, u, s)) => Keeps(c)
      /\ \A leg : Leave(c, Sent(o, leg)) => Keeps(c)
      /\ \A leg, d, p, u, s : Leave(c, Logged(Sent(o, leg), d, p, u, s)) => Keeps(c)
    BY <1>2, <1>3, LegsStay
<1>6. \A e \in pool : Leave(c, [o EXCEPT !.leg = e.leg]) => Keeps(c)
    <2> SUFFICES ASSUME NEW e \in pool, Leave(c, [o EXCEPT !.leg = e.leg]) PROVE Keeps(c)
        OBVIOUS
    <2>1. e.leg # NoLeg
        BY DEF IInv, EntryOK
    <2>2. [o EXCEPT !.leg = e.leg].leg = e.leg
        BY <1>2 DEF IsOut
    <2> QED
        BY <1>3, <2>1, <2>2
<1> HIDE DEF o
<1>7. CASE tunnel200(c) \/ tunnelEnd(c)
    BY <1>4, <1>5, <1>7 DEF tunnel200, tunnelEnd, o
<1>8. CASE originProfile(c) \/ originGuard(c)
    BY <1>4, <1>5, <1>8 DEF originProfile, originGuard, Upstream, Guard, forwardFailed, auditBumped, o
<1>9. CASE originDial(c)
    BY <1>5, <1>9 DEF originDial, forwardFailed, auditBumped, o
<1>10. CASE reusePooled(c)
    BY <1>6, <1>10 DEF reusePooled, o
<1>11. CASE respond(c) \/ respondFails(c) \/ upgradeHead(c) \/ upgradeFails(c) \/ spliceUpgrade(c)
    BY <1>5, <1>11 DEF respond, respondFails, upgradeHead, upgradeFails, spliceUpgrade, auditBumped, o
<1>12. CASE plainRespond(c) \/ plainFails(c) \/ plainSwitch(c)
    BY <1>5, <1>12 DEF plainRespond, plainFails, plainSwitch, o
<1> QED
    BY <1>7, <1>8, <1>9, <1>10, <1>11, <1>12

LEMMA HandleKeeps ==
    ASSUME IInv, NEW c \in Conns, Handle(c)
    PROVE  Keeps(c)
BY WaitingKeeps, JudgingKeeps, PlainKeeps, OutsideKeeps DEF Handle

\* A record is the last word on its request, and what left is not forgotten
\* before it, however often a round trip is retried.
THEOREM RecordsAreFinal == Spec => RecordIsFinal
<1>1. IInv /\ [Next]_vars =>
          [\A c \in Conns :
              \/ /\ out[c].records > 0 => out'[c] = out[c]
                 /\ out[c].leg # NoLeg => out'[c].leg # NoLeg
              \/ conn[c].pc \in {"closed", "bumpRead", "plainRead"} /\ out'[c] = Fresh]_vars
    <2> SUFFICES ASSUME IInv, Next, NEW c \in Conns
                 PROVE  \/ /\ out[c].records > 0 => out'[c] = out[c]
                           /\ out[c].leg # NoLeg => out'[c].leg # NoLeg
                        \/ conn[c].pc \in Settling /\ out'[c] = Fresh
        OBVIOUS
    <2>1. CASE UNCHANGED out
        BY <2>1
    <2>2. ASSUME NEW d \in Conns, Handle(d)
          PROVE  out'[c] = out[c] \/ (d = c /\ Follows(c, out'[c]))
        <3>1. PICK q : out' = [out EXCEPT ![d] = q] /\ Follows(d, q)
            BY <2>2, HandleKeeps DEF Keeps
        <3>2. out'[c] = IF c = d THEN q ELSE out[c]
            BY <3>1 DEF IInv
        <3> QED
            BY <3>1, <3>2
    <2>3. UNCHANGED out \/ \E d \in Conns : Handle(d)
        BY DEF Next, Publish, Rebind, Expire
    <2> QED
        BY <2>1, <2>2, <2>3 DEF Follows
<1> QED
    BY <1>1, HandlersKnowTheirPlace, PTL DEF Spec, RecordIsFinal
=============================================================================
