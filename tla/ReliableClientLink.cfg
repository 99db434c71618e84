SPECIFICATION ClientSpec
CONSTANTS
    Targets = {1, 2}
    MaxSequence = 2
    MaxInFlight = 2
    RetryAfter = 1
    MaxAttempts = 2
    MaxHistory = 2
    Multiple = 2
    NoPacket = NoPacket
    Clients = {0, 1, 2}
    Addresses = {10, 11, 12}
    QueueLimit = 1
    MaxRegistrations = 3
    NoClient = NoClient
    Local = 0
    LocalAddress = 10
INVARIANTS
    HubSound
PROPERTIES
    ReliableDelivery
