SPECIFICATION MCSpec
CONSTANTS
    Entities = {e1, e2}
    Positions = {1, 2}
    Tags = {t0}
    NoTags = t0
    MaxSlots = 2
    MaxGeneration = 1
    NoRecord = NoRecord
    NoHandle = NoHandle
    Cells <- MCCells
    Footprint <- MCFootprint
    ComponentIds = {c1}
    Handles <- QueryHandles
    Axis <- QueryAxis
    CellSize = 2
    Boxes <- QueryBoxes
    Regions <- QueryRegions
    MaxDense = 1
    EpochLimit = 3
    Owners = {1, 2}
    Schemas <- ComponentSchemas
    Versions = {1, 2}
    Sizes = {2, 3}
    DenseComponentColumnLimit = 2
    NoDescriptor = NoRecord
    NoColumn = NoRecord
    NoBlob = NoRecord
INVARIANTS
    IdIndexCoherent
    FreeStackExact
    IndexFollowsStation
    HandleIdentity
    TransformChangeMarked
    QueriesExact
    ComponentsSound
SYMMETRY EntitySymmetry
