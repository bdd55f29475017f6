CONSTANTS
    v1 = v1
    v2 = v2
    b1 = b1
    VBars = {v1, v2}
    Buffers = {b1}
    NoVBar = NoVBar
    PageSize = 2
    Capacity = 6
    SimpleHeadroom = 0
    ExtraHeadroom = 0
    VramHeadroom = 1
    FreeReadings = {6}
    VbarSizes = {4}
    Offsets = {}
    WeightSizes = {}
    BufferSizes = {3}
    Clamps = {1}
    MaxPin = 2
    SerialWrap = 3
    HookThread = FALSE
    Weights <- TwoVBars
    NoWeight = NoWeight
SPECIFICATION QuietAppSpec
INVARIANTS
    SignatureSound
    SavedVouches
PROPERTIES
    CacheSpec
