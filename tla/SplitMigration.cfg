SPECIFICATION MCSpec
CONSTANTS
    Stations <- MCStations
    Cells <- MCCells
    Entities = {e1, e2, e3}
    MaxEntities = 0
    MaxPressure = 0
    MaxActions = 2
    MaxCells = 1
    MinImprovement = 1
    MaxTargetScore = 30
    AllowWarm = TRUE
    Cooldown = 2
    Removable <- OneStation
    LastTick = 1
    MaxChanges = 1
    Nobody = Nobody
    NoSplit = NoSplit
    StationIds <- MCStations
    LookupIndexThreshold = 3
    MaxPushed = 4
SYMMETRY MCSymmetry
INVARIANTS
    EntitiesPlaced
    LookupsAgree
PROPERTY VacatedCells
