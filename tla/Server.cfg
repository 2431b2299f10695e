SPECIFICATION Spec
CONSTANTS
    NoConn = NoConn
    Conns = {c1, c2, c3}
INVARIANTS
    ReturnsEmpty
    DrainClosesAll
    CrashesOnlyOnLate
PROPERTIES
    ShutdownEnds
CHECK_DEADLOCK FALSE
