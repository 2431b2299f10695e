SPECIFICATION Spec
CONSTANTS
    NoConn = NoConn
    Conns = {c1}
PROPERTIES
    ShutdownBounded
CHECK_DEADLOCK FALSE
