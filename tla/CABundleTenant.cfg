SPECIFICATION Spec
CONSTANTS
    Replicas = {r1, r2}
    Pods = {p1}
    MaxCAs = 2
PROPERTY TenantMapUntouched
