SPECIFICATION FairSpec
CONSTANTS
    Ports = {"high", "low"}
    Addrs <- MCAddrs
    Normalize <- MCNormalize
    Routes = {"a-high", "b-high", "a-low"}
    PortOf <- MCPortOf
    Owned <- MCOwned
    Socks = {"a1", "a2", "b"}
    SockPort <- MCSockPort
    SockAddr <- MCSockAddr
    Grace = 1
    NoRoute = NoRoute
    NoPort = NoPort
INVARIANTS
    TypeOK
    NoWrongCamera
    RegistryInOrder
PROPERTIES
    DeadlineStands
    ListenersClosed
CHECK_DEADLOCK FALSE
