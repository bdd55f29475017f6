SPECIFICATION FocusSpec
CONSTANTS
    s0 = s0
    s1 = s1
    t1 = t1
    t2 = t2
    p1 = p1
    b1 = b1
    Slots = 2
    Window = 4
    LeadIn = 3
    ReadSizes = {1, 3, 6}
    Streams = {s0, s1}
    DefaultStream = s0
    Threads = {t1, t2}
    Ptrs = {p1}
    AllocSizes = {1, 3}
    Small = 2
    Page = 4
    Chunk = 6
    Buffers = {b1}
    MaxSizes = {5}
    GrowSizes = {2, 7}
    Capacity = 11
    MaxLost = 2
SYMMETRY Symmetry
INVARIANTS
    TypeOK
    AccountsSettle
    BuffersSound
    StagingIntact
CHECK_DEADLOCK FALSE
