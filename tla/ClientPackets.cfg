SPECIFICATION MCSpec
CONSTANTS
    KeyIds <- TwoKeys
    MaxKeys = 2
    SendPriority <- SamePriority
    MaxNow = 2
    MaxDelay = 1
    NoKey = NoKey
    Never = Never
    Packets = {p1, p2}
    MaxSeen = 1
    MaxNonce = 2
    MaxAccepted = 3
    MaxManaged = 5
    ClientIds <- TwoClients
    ChecksSource <- FirstClient
    Foreign <- MCForeign
    PacketLimit = 8
    ClientQueue = 2
    MaxPackets = 2
    MaxSent = 2
    MaxEntityDeltas = 2
    MaxComponentsPerEntity = 1
    MaxComponentBytes = 1
    KindUnits <- MCKindUnits
    Units = {0, 1, 2, 5}
    PlannedEntities <- MCPlannedEntities
    Budgets <- MCBudgets
    MaxInput = 8
    MaxPlanned = 3
    RequestedThreads = 0
    MaxThreads = 3
    Available = 6
    BatchStations = {"s1", "s2"}
    QueryRanges = {"near", "wide"}
    BatchHandles = {1, 2, 3}
    BatchViewers <- MCBatchViewers
    Worlds <- MCWorlds
    Inputs <- MCInputs
    MaxCachedQueryRanges = 1
CHECK_DEADLOCK FALSE
SYMMETRY PacketSymmetry
INVARIANTS
    ReplaysSuppressed
    RotationLossless
    CodecSound
    BatchAsAlone

    
