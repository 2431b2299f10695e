SPECIFICATION SpliceSpec
CONSTANTS
    Idle = 2
PROPERTIES
    ReapsOnlyTheIdle
    SilentTunnelEnds
    ClosedSideEnds
