SPECIFICATION MCSpec
CONSTANTS
    Entities = {e1, e2, e3}
    Few = {e1, e2}
    Positions = {1, 2}
    Tags = {t0}
    NoTags = t0
    MaxSlots = 3
    MaxGeneration = 1
    NoRecord = NoRecord
    NoHandle = NoHandle
    Cells = {0, 1}
    Footprint <- MCFootprint
    QueryRange <- MCQueryRange
    Viewers <- MCViewers
    Modes = {"Throughput", "Prioritized"}
    InterestRadius = 1
    MinHz = 1
    MaxHz = 2
    TickRateHz = 2
    BudgetEntities = 2
    MaxEntries = 4
    RecycledSlots = {0}
    NoFrame = NoFrame
PROPERTIES
    FrameShowsPlanned
    CadenceKept
    EveryoneServed
