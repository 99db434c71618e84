SPECIFICATION Spec
CONSTANTS
    s1 = s1
    c1 = c1
    Nodes = {n1, n2}
    Stations = {s1}
    MaxNodes = 2
    MaxStationsPerNode = 1
    StaleAfter = 0
    Capacities <- OneCapacity
    MaxEpoch = 2
    MaxNow = 1
    NoRoute = NoRoute
    MaxQueued = 2
    NoQueue = NoQueue
    Clients = {c1}
    MaxSequence = 2
    Limits <- OneEach
    Home <- ToStation
    Used <- HighOnly
    MaxPackets = 2
    MaxLives = 1
CHECK_DEADLOCK FALSE
SYMMETRY NodeSymmetry
INVARIANTS
    RoutesTrue
    DispatchedOnce
