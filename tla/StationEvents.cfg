SPECIFICATION EventsFairSpec
CONSTANTS
    Targets <- TwoStations
    MaxEvents = 2
    MaxTick = 1
    Limits <- TwoImportant
    MaxQueued = 2
    NoQueue = NoQueue
    Sendable <- Priorities
    Local <- First
    MaxPackets = 2
    Detachable <- TwoStations
    Foreign = Foreign
CHECK_DEADLOCK FALSE
INVARIANTS
    EventsKept
PROPERTIES
    EventsSettle
