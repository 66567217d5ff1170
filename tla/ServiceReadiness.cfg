SPECIFICATION FairSpec
CONSTANTS
    Handles = {h1, h2}
    Refs = {r1, r2}
    Calls = {i1, i2}
    Capacity = 1
    NoRef = NoRef
INVARIANTS TypeOK CalledOnlyWhenReady WithinCapacity PromiseKept ReadyServiceUsed
PROPERTIES CallResolves
CHECK_DEADLOCK FALSE
