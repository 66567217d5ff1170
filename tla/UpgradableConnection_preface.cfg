SPECIFICATION Spec
CONSTANTS
    PrefixLen = 3
    StreamLen = 5
    ReadCap = 2
INVARIANTS PrefaceSelectsHttp2
CHECK_DEADLOCK FALSE
