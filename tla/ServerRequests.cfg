SPECIFICATION FairSpec
CONSTANTS
    Conns = {c1, c2}
    Reqs = {r1, r2}
    Names = {n1, n2}
    NoName = NoName
    NoInfo = NoInfo
INVARIANTS TypeOK InfoOfOwnConnection TlsInfoOfOwnConnection SniValidated
PROPERTIES RequestProceeds
CHECK_DEADLOCK FALSE
