CONSTANTS
    v1 = v1
    v2 = v2
    v3 = v3
    b1 = b1
    VBars = {v1, v2}
    Buffers = {b1}
    NoVBar = NoVBar
    PageSize = 2
    Capacity = 6
    SimpleHeadroom = 0
    ExtraHeadroom = 0
    VramHeadroom = 1
    FreeReadings = {6}
    VbarSizes = {2, 4}
    Offsets = {0, 1, 2}
    WeightSizes = {2}
    BufferSizes = {3}
    Clamps = {1}
    MaxPin = 1
    SerialWrap = 1
    HookThread = FALSE
SPECIFICATION OrderSpec
PROPERTIES
    FitIsGranted
