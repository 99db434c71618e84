SPECIFICATION FairSpec
CONSTANTS
    Targets = {1, 2}
    MaxSequence = 2
    MaxInFlight = 2
    RetryAfter = 1
    MaxAttempts = 2
    MaxHistory = 2
    Multiple = 1
    Breakable = {1}
    Duplicating = TRUE
    NoPacket = NoPacket
INVARIANTS
    LinkSound
PROPERTIES
    ReliableDelivery
    PacketsSettle
