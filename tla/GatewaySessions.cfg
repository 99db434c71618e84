SPECIFICATION FairSpec
CONSTANTS
    c1 = c1
    c2 = c2
    s1 = s1
    s2 = s2
    Clients <- TwoClients
    Stations <- TwoStations
    MaxSessions = 1
    Grace = 1
    MaxCommands = 1
    MaxTick = 5
    MaxSequence = 2
    MaxConnections = 2
    MaxEpoch = 3
    Connected = Connected
    NoSession = NoSession
INVARIANTS
    DisconnectedTracked
PROPERTIES
    SessionsKept
    DisconnectedSettles
