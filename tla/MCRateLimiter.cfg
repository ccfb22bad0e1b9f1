SPECIFICATION LiveSpec
CONSTANTS
    l1 = l1  l2 = l2  l3 = l3
    proxy = proxy  host = host
    Requests = {l1, l2}
    Addresses = {proxy, host}
    Connections <- MCConnections
    TrustedProxies = {proxy}
    None = None
    MaxRequests = 2
    Window = 3
INVARIANTS
    TypeOK
    ExpiryAccounted
    TwiceTheLimit
    CountedOrRefused
PROPERTIES
    WindowImplemented
    BlockedThenFree
