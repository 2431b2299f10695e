-------------------------------- MODULE Relay --------------------------------
(****************************************************************************)
(* The relay's connection handlers: internal/proxy/server.go (handle and    *)
(* below), connect.go, inspect.go and http.go.                              *)
(*                                                                          *)
(* Every accepted connection runs in its own goroutine.  A handler reads    *)
(* the policy snapshot, the DNS and the shared connection pool at different *)
(* moments, and all of them change under it: one action is what a handler   *)
(* does between two such moments, or between two waits for the network.     *)
(* conn[c] holds the handler's locals, out[c] what the outside saw of the   *)
(* request in progress: the leg it left by, the audit records it produced   *)
(* and the status its client got.                                           *)
(*                                                                          *)
(* A request is a record [kind, abs, host, port, target, method, upgrade,   *)
(* body, close]; kind is "connect", "plain" (absolute form) or "inner" (on  *)
(* an inspected connection, host and port those of its CONNECT).  A body is *)
(* "none", "fits" (the drain limit) or "big".  Metrics, headers and wording *)
(* are left out.                                                            *)
(****************************************************************************)
EXTENDS Egress

CONSTANTS
    Conns,           \* connection slots, each reused for connection after connection
    Identities,      \* workloads the identity provider can name
    Snapshots,       \* sequence of snapshots the store may publish
    DnsStates,       \* sequence of resolver states: host -> addresses
    ConnectRequests, \* requests that open a tunnel
    PlainRequests,   \* requests that do not
    InnerRequests    \* requests sent on an inspected connection

Requests(kind, bodies) ==
    [kind : {kind}, abs : BOOLEAN, host : Seq(STRING), port : Nat, target : Targets,
     method : STRING, upgrade : BOOLEAN, body : bodies, close : BOOLEAN]

\* A CONNECT has no body: what follows it is the tunnel's.
ASSUME RequestsAssumption ==
    /\ ConnectRequests \subseteq Requests("connect", {"none"})
    /\ PlainRequests \subseteq Requests("plain", {"none", "fits", "big"})
    /\ InnerRequests \subseteq Requests("inner", {"none", "fits", "big"})

ASSUME SnapshotsAssumption == \A s \in DOMAIN Snapshots : UniqueNames(Snapshots[s].policies)

VARIABLES
    snap,         \* index of the published snapshot
    dns,          \* index of the resolver's state
    pool,         \* idle origin connections: [profile, host, port, leg]
    transports,   \* profile names that have a transport
    conn,         \* per connection: the handler's control point and locals
    out           \* per connection: what the current request left behind

vars == <<snap, dns, pool, transports, conn, out>>

-----------------------------------------------------------------------------
NoRequest == [kind |-> None, abs |-> FALSE, host |-> <<>>, port |-> 0, target |-> <<>>,
              method |-> None, upgrade |-> FALSE, body |-> "none", close |-> FALSE]
NoDecision == [err |-> FALSE, allowed |-> FALSE, host |-> <<>>, port |-> 0,
               mode |-> "tunnel", matched |-> {}, upstream |-> None]
NoProfile == [url |-> "bad", secret |-> NoSecret, noProxy |-> {}]

\* seen: the snapshot dec was taken from; unread: part of the request's body is
\* still to be read from the client; reused: the request is on a connection that
\* was idle before.
Idle == [pc |-> "closed", id |-> [nsLabels |-> None, podLabels |-> None],
         req |-> NoRequest, dec |-> NoDecision, rdec |-> DeniedRequest,
         seen |-> 0, profile |-> NoProfile, addrs |-> {}, unread |-> FALSE,
         reused |-> FALSE]

\* refused: the guard refused the host.
Fresh == [leg |-> NoLeg, refused |-> FALSE, records |-> 0, decision |-> None,
          policy |-> 0, upstream |-> None, status |-> 0]

Init ==
    /\ snap \in DOMAIN Snapshots
    /\ dns \in DOMAIN DnsStates
    /\ pool = {} /\ transports = {}
    /\ conn = [c \in Conns |-> Idle]
    /\ out = [c \in Conns |-> Fresh]

-----------------------------------------------------------------------------
(* The environment. *)

\* The store publishes a snapshot, a newer or an overtaken one.
Publish ==
    /\ \E s \in DOMAIN Snapshots \ {snap} : snap' = s
    /\ UNCHANGED <<dns, pool, transports, conn, out>>

\* Names come to resolve elsewhere.
Rebind ==
    /\ \E d \in DOMAIN DnsStates \ {dns} : dns' = d
    /\ UNCHANGED <<snap, pool, transports, conn, out>>

\* An idle origin connection times out or is closed by its peer.
Expire ==
    /\ \E entry \in pool : pool' = pool \ {entry}
    /\ UNCHANGED <<snap, dns, transports, conn, out>>

-----------------------------------------------------------------------------
(* Helpers. *)

At(c, point) == conn[c].pc = point

\* The profile and the addresses are locals of the dial, which opens a
\* connection of its own.
Dialled(h) == [h EXCEPT !.profile = NoProfile, !.addrs = {}, !.reused = FALSE]

\* The handler goes on to point with its other locals as in h; or returns, and
\* the deferred Close closes the connection.
GoTo(h, point) == [h EXCEPT !.pc = point]
Continue(c, h, point) == conn' = [conn EXCEPT ![c] = GoTo(h, point)]
Return(c) == Continue(c, Dialled(conn[c]), "closed")

Leave(c, o) == out' = [out EXCEPT ![c] = o]

\* What only the inspected path touches, and what every handler only reads.
SharedUnchanged == UNCHANGED <<pool, transports>>
EnvironmentUnchanged == UNCHANGED <<snap, dns>>

\* The Lister: two reads that need not see the same snapshot.
ListEgressPolicies == Snapshots[snap].policies
HasUpstream(name) == name \in DOMAIN Snapshots[snap].upstreams
GetUpstreamProxy(name) == Snapshots[snap].upstreams[name]

Lookup(host) == DnsStates[dns][canonicalHost(host)]

\* One audit record, and the status written to the client.
Logged(o, decision, policy, upstream, status) ==
    [o EXCEPT !.records = @ + 1, !.decision = decision, !.policy = policy,
              !.upstream = upstream, !.status = status]

\* A status written to the client, and no record.
Answered(o, status) == [o EXCEPT !.status = status]

\* The outside saw leg; NoLeg when it saw nothing more.
Sent(o, leg) == IF leg = NoLeg THEN o ELSE [o EXCEPT !.leg = leg]

\* The guard refused the host.
GuardRefused(o) == [o EXCEPT !.refused = TRUE]

\* dialFailure tells the tenant's problem from the operator's.  It knows the
\* connect decision only.
dialFailure(c, o, err) ==
    LET dec == conn[c].dec
        blame(decision, status) == Logged(o, decision, firstPolicy(dec), dec.upstream, status)
    IN  /\ Leave(c, IF err = "guard" THEN GuardRefused(blame("deny_guard", 403))
                    ELSE IF err \in {"auth", "refused", "unreachable"} THEN blame("error_upstream", 502)
                    ELSE blame("error_internal", 502))
        /\ Return(c)

\* The profile is looked up by name in whatever snapshot is current by now.
Upstream(c, name, next, failed) ==
    IF HasUpstream(name)
    THEN /\ Continue(c, [conn[c] EXCEPT !.profile = GetUpstreamProxy(name)], next)
         /\ UNCHANGED out
    ELSE failed

\* The guard resolves the host and hands the addresses it checked to the dial.
Guard(c, next, failed) ==
    LET res == Resolve(Lookup(conn[c].dec.host))
    IN  IF res.err = None
        THEN /\ Continue(c, [conn[c] EXCEPT !.addrs = res.addrs], next)
             /\ UNCHANGED out
        ELSE failed

-----------------------------------------------------------------------------
(* handle: the first request and whose it is. *)

Accept(c) ==
    /\ At(c, "closed")
    /\ Continue(c, Idle, "new")
    /\ Leave(c, Fresh)
    /\ SharedUnchanged

\* A handler waiting for a request gives up: the client closes, stays silent past
\* the deadline, or sends what readBumpedRequest refuses.
Disconnect(c) ==
    /\ conn[c].pc \in {"new", "bumpRead", "plainRead"}
    /\ Return(c)
    /\ UNCHANGED <<pool, transports, out>>

ReadRequest(c) ==
    /\ At(c, "new")
    /\ \E r \in ConnectRequests \cup PlainRequests :
           Continue(c, [Idle EXCEPT !.req = r, !.unread = (r.body # "none")], "identify")
    /\ UNCHANGED <<pool, transports, out>>

Identify(c) ==
    /\ At(c, "identify")
    /\ \E i \in Identities : Continue(c, [conn[c] EXCEPT !.id = i], conn[c].req.kind)
    /\ UNCHANGED <<pool, transports, out>>

denyIdentity(c) ==
    /\ At(c, "identify")
    /\ Leave(c, Logged(out[c], "deny_identity", 0, None, 403))
    /\ Return(c)
    /\ SharedUnchanged

-----------------------------------------------------------------------------
(* handleConnect. *)

Targetless(r) == r.host = <<>> \/ r.port = 0

rejectConnect(c) ==
    /\ At(c, "connect") /\ Targetless(conn[c].req)
    /\ Leave(c, Logged(out[c], "deny_malformed", 0, None, 400))
    /\ Return(c)
    /\ SharedUnchanged

\* A connect decision that grants nothing: evaluation failed, or no grant.
refuse(c, dec) ==
    /\ Leave(c, IF dec.err THEN Logged(out[c], "error_internal", 0, None, 500)
                ELSE Logged(out[c], "deny_policy", 0, None, 403))
    /\ Return(c)

handleConnect(c) ==
    LET r   == conn[c].req
        dec == AuthorizeConnect(ListEgressPolicies, conn[c].id, r.host, r.port)
    IN  /\ At(c, "connect") /\ ~Targetless(r)
        /\ IF dec.allowed
           THEN /\ Continue(c, [conn[c] EXCEPT !.dec = dec, !.seen = snap], dec.mode)
                /\ UNCHANGED out
           ELSE refuse(c, dec)
        /\ SharedUnchanged

-----------------------------------------------------------------------------
(* tunnel: an opaque CONNECT. *)

tunnelProfile(c) ==
    /\ At(c, "tunnel")
    /\ Upstream(c, conn[c].dec.upstream, "tunnelGuard", dialFailure(c, out[c], "missing"))
    /\ SharedUnchanged

tunnelGuard(c) ==
    /\ At(c, "tunnelGuard")
    /\ Guard(c, "tunnelDial", dialFailure(c, out[c], "guard"))
    /\ SharedUnchanged

\* Mutant of tunnelDial: the name is resolved again to dial it.
tunnelDialAgain(c) ==
    /\ At(c, "tunnelDial")
    /\ \E dial \in Dial(conn[c].profile, conn[c].dec.host, Lookup(conn[c].dec.host)) :
           LET o == Sent(out[c], dial.leg)
           IN  IF dial.err = None THEN Continue(c, Dialled(conn[c]), "tunnel200") /\ Leave(c, o)
               ELSE dialFailure(c, o, dial.err)
    /\ SharedUnchanged

tunnelDial(c) ==
    /\ At(c, "tunnelDial")
    /\ \E dial \in Dial(conn[c].profile, conn[c].dec.host, conn[c].addrs) :
           LET o == Sent(out[c], dial.leg)
           IN  IF dial.err = None THEN Continue(c, Dialled(conn[c]), "tunnel200") /\ Leave(c, o)
               ELSE dialFailure(c, o, dial.err)
    /\ SharedUnchanged

\* The 200 reaches the client, or its connection is gone and so is the handler.
tunnel200(c) ==
    /\ At(c, "tunnel200")
    /\ \/ Continue(c, conn[c], "splice") /\ Leave(c, Answered(out[c], 200))
       \/ Return(c) /\ UNCHANGED out
    /\ SharedUnchanged

\* Both directions are done; the record is written only now.
tunnelEnd(c) ==
    /\ At(c, "splice")
    /\ Leave(c, Logged(out[c], "allow", firstPolicy(conn[c].dec), conn[c].dec.upstream, 200))
    /\ Return(c)
    /\ SharedUnchanged

-----------------------------------------------------------------------------
(* handleInspect and serveBumped: requests on an inspected connection. *)

inspect200(c) ==
    /\ At(c, "inspect")
    /\ \/ Continue(c, conn[c], "handshake") /\ Leave(c, Answered(out[c], 200))
       \/ Return(c) /\ UNCHANGED out
    /\ SharedUnchanged

handshake(c) ==
    /\ At(c, "handshake")
    /\ \/ Continue(c, conn[c], "bumpRead") /\ UNCHANGED out
       \/ /\ Leave(c, Logged(out[c], "error_internal", firstPolicy(conn[c].dec), None, 200))
          /\ Return(c)
    /\ SharedUnchanged

\* The authority of a request inside the tunnel is the CONNECT's.
Bumped(h, r) == [h EXCEPT !.req = [r EXCEPT !.host = h.dec.host, !.port = h.dec.port],
                          !.unread = (r.body # "none")]

\* Mutant of readBumpedRequest: the tunnel to the origin is opened when a
\* request arrives, before it is authorized.
readBumpedRequestEager(c) ==
    /\ At(c, "bumpRead")
    /\ \E r \in InnerRequests : Continue(c, Bumped(conn[c], r), "authorize")
    /\ Leave(c, [Fresh EXCEPT !.leg = ViaProxy(NoProfile, conn[c].dec.host)])
    /\ SharedUnchanged

readBumpedRequest(c) ==
    /\ At(c, "bumpRead")
    /\ \E r \in InnerRequests : Continue(c, Bumped(conn[c], r), "authorize")
    /\ Leave(c, Fresh)
    /\ SharedUnchanged

\* A denied request's body is drained up to a limit.
drained(r) == r.body # "big"

\* Every request is judged by the decision of its CONNECT, however old.  A
\* denial keeps the connection if the client can use it.
authorizeBumped(c) ==
    LET r    == conn[c].req
        rdec == AuthorizeRequest(conn[c].dec, r.target, r.method, r.upgrade)
    IN  /\ At(c, "authorize")
        /\ IF rdec.allowed
           THEN Continue(c, [conn[c] EXCEPT !.rdec = rdec], "transport") /\ UNCHANGED out
           ELSE /\ Leave(c, Logged(out[c], "deny_policy", firstPolicy(conn[c].dec), None, 403))
                /\ \/ /\ drained(r) /\ ~r.close
                      /\ Continue(c, [conn[c] EXCEPT !.unread = FALSE], "bumpRead")
                   \/ Return(c)
        /\ SharedUnchanged

\* Mutant of auditBumped: the record names the connection's profile.
auditBumpedByConnection(c, o, decision, status) ==
    Logged(o, decision, conn[c].rdec.policy, conn[c].dec.upstream, status)

auditBumped(c, o, decision, status) ==
    Logged(o, decision, conn[c].rdec.policy, conn[c].rdec.upstream, status)

\* forwardBumped returned an error: answered 502 and recorded, whatever it was.
forwardFailed(c, o) == Leave(c, auditBumped(c, o, "error_upstream", 502)) /\ Return(c)

\* Transports are made once per profile name and never dropped.  The authority a
\* CONNECT inside the tunnel has for a target may not parse as a path.
transportFor(c) ==
    LET name == conn[c].rdec.upstream
    IN  /\ At(c, "transport")
        /\ IF name \in transports \/ HasUpstream(name)
           THEN /\ transports' = transports \cup {name}
                /\ \/ Continue(c, conn[c], "roundtrip") /\ UNCHANGED out
                   \/ /\ conn[c].req.method = "CONNECT"
                      /\ Leave(c, auditBumped(c, out[c], "error_upstream", 400))
                      /\ Return(c)
           ELSE forwardFailed(c, out[c]) /\ UNCHANGED transports
        /\ UNCHANGED pool

\* The origin connection a transport would keep for the request.
PoolKey(c) == [profile |-> conn[c].rdec.upstream, host |-> conn[c].dec.host,
               port |-> conn[c].dec.port]

Pooled(key, leg) == [profile |-> key.profile, host |-> key.host, port |-> key.port, leg |-> leg]

\* Mutant of reusePooled: one pool for all profiles.
reusePooledAnyProfile(c) ==
    /\ conn[c].pc \in {"roundtrip", "originGuard", "originDial"}
    /\ \E entry \in pool :
           /\ entry.host = PoolKey(c).host /\ entry.port = PoolKey(c).port
           /\ pool' = pool \ {entry}
           /\ Leave(c, [out[c] EXCEPT !.leg = entry.leg])
    /\ Continue(c, [Dialled(conn[c]) EXCEPT !.reused = TRUE], "response")
    /\ UNCHANGED transports

\* RoundTrip takes an idle connection of its transport, at once or when one is
\* returned while the request waits for its own dial.
reusePooled(c) ==
    /\ conn[c].pc \in {"roundtrip", "originGuard", "originDial"}
    /\ \E entry \in pool :
           /\ entry = Pooled(PoolKey(c), entry.leg)
           /\ pool' = pool \ {entry}
           /\ Leave(c, [out[c] EXCEPT !.leg = entry.leg])
    /\ Continue(c, [Dialled(conn[c]) EXCEPT !.reused = TRUE], "response")
    /\ UNCHANGED transports

\* RoundTrip finds the idle connection dead and tries again, with another one or
\* with a dial: when it wrote nothing to it (it gives up if it has read of the
\* body), or when the request has no body and is idempotent, which a header may
\* claim of any method.  What it wrote may have arrived.
retryPooled(c) ==
    /\ At(c, "response") /\ conn[c].reused
    /\ conn[c].req.body = "none" \/ conn[c].unread
    /\ Continue(c, Dialled(conn[c]), "roundtrip")
    /\ UNCHANGED <<pool, transports, out>>

\* Mutant of originProfile: the dial uses the profile of the connect decision.
originProfileOfConnection(c) ==
    /\ At(c, "roundtrip")
    /\ Upstream(c, conn[c].dec.upstream, "originGuard", forwardFailed(c, out[c]))
    /\ SharedUnchanged

originProfile(c) ==
    /\ At(c, "roundtrip")
    /\ Upstream(c, conn[c].rdec.upstream, "originGuard", forwardFailed(c, out[c]))
    /\ SharedUnchanged

originGuard(c) ==
    /\ At(c, "originGuard")
    /\ Guard(c, "originDial", forwardFailed(c, GuardRefused(out[c])))
    /\ SharedUnchanged

\* The dial, and the TLS handshake with the origin on the leg it opened.
originDial(c) ==
    /\ At(c, "originDial")
    /\ \E dial \in Dial(conn[c].profile, conn[c].dec.host, conn[c].addrs) :
           LET o == Sent(out[c], dial.leg)
           IN  \/ dial.err = None /\ Continue(c, Dialled(conn[c]), "response") /\ Leave(c, o)
               \/ forwardFailed(c, o)
    /\ SharedUnchanged

\* The transport's writer goroutine finishes the request's body.
bodySent(c) ==
    /\ conn[c].pc \in {"response", "bumpRead"} /\ conn[c].unread
    /\ Continue(c, [conn[c] EXCEPT !.unread = FALSE], conn[c].pc)
    /\ UNCHANGED <<pool, transports, out>>

\* The response is relayed, whether or not the body was read to its end.  When
\* neither side closes, the leg goes back to the pool and the client may send
\* its next request.
respond(c) ==
    /\ At(c, "response")
    /\ Leave(c, auditBumped(c, out[c], "allow", 200))
    /\ \/ /\ ~conn[c].req.close
          /\ pool' = pool \cup {Pooled(PoolKey(c), out[c].leg)}
          /\ Continue(c, Dialled(conn[c]), "bumpRead")
       \/ UNCHANGED pool /\ Return(c)
    /\ UNCHANGED transports

\* Mutant of respondFails: a failure is recorded and the request tried again.
respondFailsAndRetries(c) ==
    /\ At(c, "response")
    /\ \E status \in {0, 502} : Leave(c, auditBumped(c, out[c], "error_upstream", status))
    /\ Continue(c, Dialled(conn[c]), "roundtrip")
    /\ SharedUnchanged

\* No response, or one that cannot be relayed: nothing says which the client saw.
respondFails(c) ==
    /\ At(c, "response")
    /\ \E status \in {0, 502} : Leave(c, auditBumped(c, out[c], "error_upstream", status))
    /\ Return(c)
    /\ SharedUnchanged

\* A 101 is taken from the response alone.  Its body is the upgraded stream, and
\* resp.Write, having written the status line, reads a byte of it ...
switchProtocols(c) ==
    /\ At(c, "response")
    /\ Continue(c, conn[c], "switching")
    /\ UNCHANGED <<pool, transports, out>>

\* ... or its end before it writes the rest of the head ...
upgradeHead(c) ==
    /\ At(c, "switching")
    /\ \E next \in {"copying", "upgraded"} : Continue(c, conn[c], next)
    /\ Leave(c, Answered(out[c], 101))
    /\ SharedUnchanged

\* ... and then copies the stream to its end.
upgradeCopied(c) ==
    /\ At(c, "copying")
    /\ Continue(c, conn[c], "upgraded")
    /\ UNCHANGED <<pool, transports, out>>

\* Either side breaks off while resp.Write is at it.
upgradeFails(c) ==
    /\ conn[c].pc \in {"switching", "copying"}
    /\ Leave(c, auditBumped(c, out[c], "error_upstream", out[c].status))
    /\ Return(c)
    /\ SharedUnchanged

\* Mutant of spliceUpgrade: an upgraded connection ends without a record.
spliceUpgradeUnaudited(c) ==
    /\ At(c, "upgraded")
    /\ Return(c)
    /\ UNCHANGED <<pool, transports, out>>

spliceUpgrade(c) ==
    /\ At(c, "upgraded")
    /\ Leave(c, auditBumped(c, out[c], "allow", 101))
    /\ Return(c)
    /\ SharedUnchanged

-----------------------------------------------------------------------------
(* handlePlainHTTP: absolute-form requests. *)

\* Not a proxy request: answered, not recorded.
rejectPlain(c) ==
    /\ At(c, "plain") /\ (~conn[c].req.abs \/ Targetless(conn[c].req))
    /\ Leave(c, Answered(out[c], 400))
    /\ Return(c)
    /\ SharedUnchanged

\* Mutant of authorizePlain: a denied body is not drained.
authorizePlainUndrained(c) ==
    LET r    == conn[c].req
        dec  == AuthorizeConnect(ListEgressPolicies, conn[c].id, r.host, r.port)
        rdec == AuthorizeRequest(dec, r.target, r.method, r.upgrade)
        h    == [conn[c] EXCEPT !.dec = dec, !.rdec = rdec, !.seen = snap]
    IN  /\ At(c, "plain") /\ r.abs /\ ~Targetless(r)
        /\ IF ~dec.allowed THEN refuse(c, dec)
           ELSE IF rdec.allowed THEN Continue(c, h, "plainProfile") /\ UNCHANGED out
           ELSE /\ Leave(c, Logged(out[c], "deny_policy", firstPolicy(dec), None, 403))
                /\ Continue(c, h, IF r.close THEN "closed" ELSE "plainRead")
        /\ SharedUnchanged

\* Both stages, on one snapshot.
authorizePlain(c) ==
    LET r    == conn[c].req
        dec  == AuthorizeConnect(ListEgressPolicies, conn[c].id, r.host, r.port)
        rdec == AuthorizeRequest(dec, r.target, r.method, r.upgrade)
        h    == [conn[c] EXCEPT !.dec = dec, !.rdec = rdec, !.seen = snap]
    IN  /\ At(c, "plain") /\ r.abs /\ ~Targetless(r)
        /\ IF ~dec.allowed THEN refuse(c, dec)
           ELSE IF rdec.allowed THEN Continue(c, h, "plainProfile") /\ UNCHANGED out
           ELSE /\ Leave(c, Logged(out[c], "deny_policy", firstPolicy(dec), None, 403))
                /\ IF r.close \/ ~drained(r) THEN Continue(c, h, "closed")
                   ELSE Continue(c, [h EXCEPT !.unread = FALSE], "plainRead")
        /\ SharedUnchanged

plainProfile(c) ==
    /\ At(c, "plainProfile")
    /\ Upstream(c, conn[c].rdec.upstream, "plainGuard", dialFailure(c, out[c], "missing"))
    /\ SharedUnchanged

plainGuard(c) ==
    /\ At(c, "plainGuard")
    /\ Guard(c, "plainDial", dialFailure(c, out[c], "guard"))
    /\ SharedUnchanged

plainDial(c) ==
    /\ At(c, "plainDial")
    /\ \E err \in DialForward(conn[c].profile) :
           IF err = None THEN Continue(c, conn[c], "plainWrite") /\ UNCHANGED out
           ELSE dialFailure(c, out[c], err)
    /\ SharedUnchanged

\* The whole request, body included, is written before the response is read.  A
\* write that fails may have reached the proxy.
plainWrite(c) ==
    LET sent == Sent(out[c], ViaProxy(conn[c].profile, conn[c].dec.host))
    IN  /\ At(c, "plainWrite")
        /\ \/ /\ Leave(c, sent)
              /\ Continue(c, [Dialled(conn[c]) EXCEPT !.unread = FALSE], "plainResponse")
           \/ \E o \in {out[c], sent} : dialFailure(c, o, "internal")
        /\ SharedUnchanged

plainRespond(c) ==
    /\ At(c, "plainResponse")
    /\ Leave(c, Logged(out[c], "allow", conn[c].rdec.policy, conn[c].rdec.upstream, 200))
    /\ \/ ~conn[c].req.close /\ Continue(c, conn[c], "plainRead")
       \/ Return(c)
    /\ SharedUnchanged

plainFails(c) ==
    /\ At(c, "plainResponse")
    /\ Leave(c, Logged(out[c], "error_upstream", conn[c].rdec.policy, conn[c].rdec.upstream, 502))
    /\ Return(c)
    /\ SharedUnchanged

\* A 101 ends the handler without a record.
plainSwitch(c) ==
    /\ At(c, "plainResponse")
    /\ Continue(c, conn[c], "plainUpgraded")
    /\ Leave(c, Answered(out[c], 101))
    /\ SharedUnchanged

plainSpliceEnd(c) ==
    /\ At(c, "plainUpgraded")
    /\ Return(c)
    /\ UNCHANGED <<pool, transports, out>>

readPlain(c) ==
    /\ At(c, "plainRead")
    /\ \E r \in ConnectRequests \cup PlainRequests :
           Continue(c, [conn[c] EXCEPT !.req = [r EXCEPT !.kind = "plain"],
                                       !.unread = (r.body # "none")], "plain")
    /\ Leave(c, Fresh)
    /\ SharedUnchanged

-----------------------------------------------------------------------------
Handle(c) ==
    \/ Accept(c) \/ Disconnect(c) \/ ReadRequest(c) \/ Identify(c) \/ denyIdentity(c)
    \/ rejectConnect(c) \/ handleConnect(c)
    \/ tunnelProfile(c) \/ tunnelGuard(c) \/ tunnelDial(c) \/ tunnel200(c) \/ tunnelEnd(c)
    \/ inspect200(c) \/ handshake(c) \/ readBumpedRequest(c) \/ authorizeBumped(c)
    \/ transportFor(c) \/ reusePooled(c) \/ retryPooled(c)
    \/ originProfile(c) \/ originGuard(c) \/ originDial(c) \/ bodySent(c)
    \/ respond(c) \/ respondFails(c) \/ switchProtocols(c)
    \/ upgradeHead(c) \/ upgradeCopied(c) \/ upgradeFails(c) \/ spliceUpgrade(c)
    \/ rejectPlain(c) \/ authorizePlain(c)
    \/ plainProfile(c) \/ plainGuard(c) \/ plainDial(c) \/ plainWrite(c)
    \/ plainRespond(c) \/ plainFails(c) \/ plainSwitch(c) \/ plainSpliceEnd(c)
    \/ readPlain(c)

Next ==
    \/ Publish \/ Rebind \/ Expire
    \/ \E c \in Conns : Handle(c) /\ EnvironmentUnchanged

Spec == Init /\ [][Next]_vars

-----------------------------------------------------------------------------
(* Properties. *)

\* The accounts a profile name ever stood for.
Accounts(name) ==
    {ViaProxy(Snapshots[s].upstreams[name], <<>>).account :
        s \in {s \in DOMAIN Snapshots : name \in DOMAIN Snapshots[s].upstreams}}

\* Policy pol by itself grants the handler's request.
Grants(pol, h) ==
    LET dec == AuthorizeConnect({pol}, h.id, h.dec.host, h.dec.port)
    IN  IF h.req.kind = "connect" THEN dec.allowed
        ELSE AuthorizeRequest(dec, h.req.target, h.req.method, h.req.upgrade).allowed

\* Leg is one that a request granted by pol may take.
LegOf(leg, pol) == leg.via = "proxy" => leg.account \in Accounts(pol.upstream)

\* docs/policy.md: "the corporate proxy attributes the request to the tenant that
\* was actually granted it".  What leaves the relay goes to the host the client
\* named, and leaves under an account of a policy that grants this very request
\* in the snapshot it was authorized on, through policy changes, lookups on
\* another snapshot and connections reused from the pool.
GrantedEgress ==
    \A c \in Conns : out[c].leg # NoLeg =>
        /\ out[c].leg.host = conn[c].req.host
        /\ \E pol \in Snapshots[conn[c].seen].policies :
               Grants(pol, conn[c]) /\ LegOf(out[c].leg, pol)

\* inspect.go: pooling is per profile "so that a connection opened under one
\* tenant's credentials is never reused for another".  An idle connection sits
\* under a profile that has the account it was opened with, and goes to the
\* host it is kept for.
PoolIsolation ==
    \A entry \in pool :
        /\ entry.profile \in transports
        /\ entry.leg.host = entry.host
        /\ entry.leg.via = "proxy" => entry.leg.account \in Accounts(entry.profile)

\* inspect.go: "a denied request should never appear in the corporate proxy's
\* logs".  A request recorded as denied left no trace outside the relay.
DeniedNeverEgresses ==
    \A c \in Conns :
        out[c].decision \in {"deny_policy", "deny_guard", "deny_identity", "deny_malformed"} =>
            out[c].leg = NoLeg

\* upstream.go: addresses are "already resolved and checked" and dialed without
\* another lookup.  An address dialed directly comes from an answer in which no
\* address was denied, whatever the name resolves to by then.
GuardedDial ==
    \A c \in Conns : out[c].leg.via = "direct" =>
        \E d \in DOMAIN DnsStates :
            LET answer == DnsStates[d][canonicalHost(out[c].leg.host)]
            IN  out[c].leg.addr \in answer /\ answer \cap Denied = {}

\* The two requests that leave the relay and no record: a plain one answered with
\* 101, and a tunnel whose 200 could not be written.
Unrecorded(c) ==
    \/ conn[c].req.kind = "plain" /\ out[c].status = 101
    \/ conn[c].req.kind = "connect" /\ out[c].status = 0

\* audit.go: "one structured record per relayed request".  No request is recorded
\* twice; an inspected one is recorded by the time its handler is done with it,
\* whatever failed, and so is everything else that left the relay, but for what
\* Unrecorded names.
AuditedOnce ==
    \A c \in Conns :
        /\ out[c].records <= 1
        /\ conn[c].pc \in {"closed", "bumpRead", "plainRead"} =>
               \/ out[c].records = 1
               \/ conn[c].req.kind # "inner" /\ (out[c].leg = NoLeg \/ Unrecorded(c))

\* A record is the last word on its request: after it the request neither leaves
\* again nor is recorded or answered anew, and until it nothing that left is
\* forgotten, whatever is retried; only the next request starts afresh.
RecordIsFinal ==
    [][\A c \in Conns :
          \/ /\ out[c].records > 0 => out'[c] = out[c]
             /\ out[c].leg # NoLeg => out'[c].leg # NoLeg
          \/ conn[c].pc \in {"closed", "bumpRead", "plainRead"} /\ out'[c] = Fresh]_vars

\* A plain request that failed after it was handed over: dialFailure records it
\* under the connect decision (http.go).
Misnamed(c) == conn[c].req.kind = "plain" /\ out[c].decision = "error_internal"

\* audit.go: "it names the policy that decided".  The record of a request that
\* left the relay names a policy that grants it and the profile it left under,
\* but for what Misnamed names.
RecordNamesEgress ==
    \A c \in Conns : out[c].records > 0 /\ out[c].leg # NoLeg /\ ~Misnamed(c) =>
        \E pol \in Snapshots[conn[c].seen].policies :
            /\ pol.name = out[c].policy /\ pol.upstream = out[c].upstream
            /\ Grants(pol, conn[c]) /\ LegOf(out[c].leg, pol)

\* inspect.go: "A body left half-read desynchronises the connection: the
\* remainder would be parsed as the next request line."  A handler that waits
\* for the next request has read the last one to its end, unless the transport
\* still reads a body whose response was early.
ReadsAtBoundary ==
    \A c \in Conns : conn[c].unread =>
        /\ ~At(c, "plainRead")
        /\ At(c, "bumpRead") => out[c].decision = "allow"

-----------------------------------------------------------------------------
(* What the repository says of the relay and the code does not keep. *)

\* types.go: NoProxy "lists host globs dialed directly instead of through the
\* parent".  No request goes by a leg that was opened through a corporate proxy
\* under a profile that lists its host.
NoProxyHonoured == \A c \in Conns : ~out[c].leg.listed

\* docs/policy.md: "A `403` is a policy decision; a `502` is the relay's own
\* problem".  A destination the guard refuses is told and recorded as a denial.
GuardRefusalIs403 ==
    \A c \in Conns : out[c].refused => <<out[c].status, out[c].decision>> = <<403, "deny_guard">>

\* audit.go: "one structured record per relayed request".  When a handler is done
\* with a request that left the relay, it has recorded it.
RelayedIsRecorded ==
    \A c \in Conns :
        conn[c].pc \in {"closed", "bumpRead", "plainRead"} /\ out[c].leg # NoLeg => out[c].records = 1

\* audit.go: "it names the policy that decided".  A recorded request that left the
\* relay left by the decision of the policy its record names, whatever failed.
RecordNamesDecider ==
    \A c \in Conns : out[c].records > 0 /\ out[c].leg # NoLeg =>
        \E pol \in Snapshots[conn[c].seen].policies :
            pol.name = out[c].policy /\ Grants(pol, conn[c])

\* inspect.go: "A body left half-read desynchronises the connection".  Nobody is
\* still reading a body when the handler reads the next request.
NothingLeftUnread ==
    \A c \in Conns : conn[c].unread => conn[c].pc \notin {"bumpRead", "plainRead"}

\* inspect.go: "resp.Write does not copy the upgraded stream; splice it by hand."
\* Once an inspected client has its 101 and until the record, both directions are
\* spliced.
UpgradeIsSpliced ==
    \A c \in Conns :
        conn[c].req.kind = "inner" /\ out[c].status = 101 /\ out[c].records = 0 => At(c, "upgraded")
=============================================================================
