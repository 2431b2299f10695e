SPECIFICATION Spec
CONSTANTS
    Lower <- MCLower
    Pool <- MCPool
    Identities <- MCIdentities
    Requests <- MCRequests
INVARIANTS
    AllowedIffSomePolicyAllows
    AttributedToGranter
    InspectionWins
    UpgradeIsDeliberate
    InspectedGetsCA
    StableAcrossReplicas
