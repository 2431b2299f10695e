------------------------------- MODULE Egress -------------------------------
(****************************************************************************)
(* Leaving the cluster: the address guard (internal/guard/guard.go), the    *)
(* upstream dialer (internal/upstream/upstream.go) and its credentials      *)
(* (internal/upstream/credentials.go).                                      *)
(*                                                                          *)
(* A profile is an UpstreamProxy: [url, secret, noProxy].  What the network *)
(* and the corporate proxy may answer is a set of outcomes; an outcome says *)
(* which error the dialer returns and what the outside world saw, the leg:  *)
(*   [via, account, host, addr, listed], or NoLeg when nothing named the    *)
(* host; listed: it was opened through the proxy of a profile whose noProxy *)
(* list covers the host.                                                    *)
(****************************************************************************)
EXTENDS Engine

CONSTANTS
    Denied,      \* addresses inside a denied range
    Account(_)   \* the account a Secret holds, None if it cannot be read

NoSecret == None  \* credentialsSecretRef omitted
Anonymous == "anonymous"

-----------------------------------------------------------------------------
(* The guard. *)

\* A name is refused when it does not resolve or when any of its addresses is
\* denied; otherwise the caller gets the addresses that were checked.
Resolve(answers) ==
    IF answers = {} \/ answers \cap Denied # {}
    THEN [err |-> "guard", addrs |-> {}]
    ELSE [err |-> None, addrs |-> answers]

-----------------------------------------------------------------------------
(* The dialer. *)

\* A pattern with a leading dot covers every host below it; the others are
\* policy host patterns.
matchesNoProxy(patterns, host) ==
    \E p \in patterns :
        LET c == canonicalHost(p)
        IN  /\ ~Blank(c)
            /\ IF c[1] = "" THEN Below(canonicalHost(host), Tail(c)) ELSE MatchHost(c, host)

NoLeg == [via |-> None, account |-> None, host |-> <<>>, addr |-> None, listed |-> FALSE]

Direct(host, addr) ==
    [via |-> "direct", account |-> Anonymous, host |-> host, addr |-> addr, listed |-> FALSE]

ViaProxy(profile, host) ==
    [via |-> "proxy", host |-> host, addr |-> None,
     listed |-> matchesNoProxy(profile.noProxy, host),
     account |-> IF profile.secret = NoSecret THEN Anonymous ELSE Account(profile.secret)]

Outcome(err, leg) == [err |-> err, leg |-> leg]

\* Credentials are read for a profile that names a Secret, and must be there.
CredentialsMissing(profile) == profile.secret # NoSecret /\ Account(profile.secret) = None

\* Each validated address is tried in turn; without one nothing is dialled.
dialDirect(host, addrs) ==
    {Outcome(None, Direct(host, a)) : a \in addrs} \cup {Outcome("internal", NoLeg)}

\* dialProxy failed, to connect or in its TLS handshake: the proxy saw no request.
Unreachable == Outcome("unreachable", NoLeg)

\* The CONNECT handshake on an open connection to the corporate proxy.  An
\* exchange that breaks may or may not have shown it the host.
connect(profile, host) ==
    IF CredentialsMissing(profile) THEN {Outcome("internal", NoLeg)}
    ELSE {Outcome(err, ViaProxy(profile, host)) : err \in {None, "auth", "refused", "unreachable"}}
         \cup {Unreachable}

\* Through the profile's proxy unless its noProxy list covers the host.
Dial(profile, host, addrs) ==
    IF matchesNoProxy(profile.noProxy, host) THEN dialDirect(host, addrs)
    ELSE IF profile.url = "bad" THEN {Outcome("internal", NoLeg)}
    ELSE {Unreachable} \cup connect(profile, host)

\* Absolute-form forwarding: the proxy learns of the host only when the request
\* is written, under the account returned here.  noProxy is not consulted.
DialForward(profile) ==
    IF profile.url = "bad" \/ CredentialsMissing(profile) THEN {"internal"}
    ELSE {None, Unreachable.err}
=============================================================================
