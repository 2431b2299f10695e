SPECIFICATION Spec
CONSTANTS
    Lower <- MCLower
    Account <- MCAccount
    Denied <- MCDenied
    c1 = c1
    c2 = c2
    Conns = {c1, c2}
    Identities <- MCIdentities
    Snapshots <- ProxiedOnly
    DnsStates <- SteadyDns
    ConnectRequests <- ConnectX
    PlainRequests = {}
    InnerRequests <- TwoPaths
SYMMETRY Interchangeable
INVARIANTS
    PoolIsolation
