SPECIFICATION FairSpec
CONSTANTS
    MaxVersion = 2
    MaxObjects = 1
    MaxFailures = 0
PROPERTY
    KeptCurrent
