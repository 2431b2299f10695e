SPECIFICATION Spec
CONSTANTS
    Lower <- MCLower
    Account <- MCAccount
    Denied <- MCDenied
    c1 = c1
    c2 = c2
    Conns = {c1}
    Identities <- MCIdentities
    Snapshots <- MCSnapshots
    DnsStates <- MCDnsStates
    ConnectRequests <- MCConnects
    PlainRequests <- MCPlain
    InnerRequests <- MCInner
INVARIANT GuardRefusalIs403
