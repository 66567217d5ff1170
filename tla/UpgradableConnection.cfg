SPECIFICATION FairSpec
CONSTANTS
    PrefixLen = 4
    StreamLen = 6
    ReadCap = 2
INVARIANTS TypeOK StreamIntact Http2HasPreface ShutdownNotLost
PROPERTIES ShutdownEnds CloseEnds ImplementsServed
CHECK_DEADLOCK FALSE
