CONSTANTS
    v1 = v1
    v2 = v2
    v3 = v3
    b1 = b1
    VBars = {v1, v2}
    Buffers = {b1}
    NoVBar = NoVBar
    PageSize = 2
    Capacity = 6
    SimpleHeadroom = 1
    ExtraHeadroom = 0
    VramHeadroom = 1
    FreeReadings = {2}
    VbarSizes = {2, 4}
    Offsets = {0, 1}
    WeightSizes = {2}
    BufferSizes = {3}
    Clamps = {1}
    MaxPin = 1
    SerialWrap = 1
    HookThread = FALSE
SPECIFICATION BudgetSpec
SYMMETRY Symmetry
INVARIANTS
    TypeOK
    PinnedResident
    AboveWatermarkPinned
    CountInSync
    UsageAccounted
    FaultProgress
PROPERTIES
    EvictionOrder
    BudgetBeforeGrowth
