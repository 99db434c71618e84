SPECIFICATION FairSpec
CONSTANTS
    Clients = {c1}
    MaxSequence = 3
    Limits <- OneEach
    Stations <- TwoStations
    Removable <- OneStation
    MaxTick = 1
    MaxBarriers = 1
    MaxUpgrades = 1
    Modes <- AllModes
    Routed <- OneStation
    Used <- HighAndLow
    NoBarrier = NoBarrier
CHECK_DEADLOCK FALSE
INVARIANTS
    AcceptedInOrder
    BarrierSound
    AnswersTrue
PROPERTIES
    BarrierFreezes
    AcceptedApplied
