SPECIFICATION FairSpec
CONSTANTS
    MaxVersion = 2
    MaxObjects = 1
    MaxFailures = 1
INVARIANTS
    TypeOK
    CausalSnapshot
    NeverEmptyOnceReady
    SettledUnlessOvertaken
PROPERTY
    Converges
