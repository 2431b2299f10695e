SPECIFICATION Spec
CONSTANTS
    Replicas = {r1, r2}
    Pods = {p1}
    MaxCAs = 3
INVARIANTS
    TrustedOnceLoaded
    SignerIsStored
PROPERTIES
    TenantDataKept
    BundleArrives
