SPECIFICATION FairSpec
CONSTANTS
    Calls = {i1, i2}
    Conns = {c1}
    Hosts = {h1, h2}
    Sockets = {s1, s2}
    Builders <- MCBuilders
    Templates <- MCTemplates
    Locations <- MCLocations
    MaxRedirects = 1
    NoHost = NoHost
    NoSocket = NoSocket
    NoConn = NoConn
    NoRequest = NoRequest
    h1 = h1
    h2 = h2
    s1 = s1
    s2 = s2
PROPERTIES TimeoutResolves
CHECK_DEADLOCK FALSE
