SPECIFICATION InputSpec
CONSTANTS
    Letters = {"a", "b"}
    MaxSegment = 5
    PatternSegs <- MCPatternSegs
    PathSegs <- MCPathSegs
    WrittenSegs <- MCWrittenSegs
    MaxSegs = 4
INVARIANT NoQueryOrFragment
CHECK_DEADLOCK FALSE
