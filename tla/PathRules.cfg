SPECIFICATION InputSpec
CONSTANTS
    Letters = {"a", "b"}
    MaxSegment = 5
    PatternSegs <- MCPatternSegs
    PathSegs <- MCPathSegs
    WrittenSegs <- MCWrittenSegs
    MaxSegs = 4
INVARIANTS
    SegmentAgrees
    GlobAgrees
    NormalizeAgrees
CHECK_DEADLOCK FALSE
