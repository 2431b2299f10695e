SPECIFICATION Spec
CONSTANTS
    Callers = {k1, k2}
    Names = {"x", "X.", "y", "z", ""}
    Host <- MCHost
    NoHost = ""
    Validity = 2
    MaxSize = 2
    MaxLoads = 2
    MaxNow = 1
INVARIANTS
    CacheInStep
PROPERTIES
    ImplementsSource
