CONSTANTS
    h1 = h1
    h2 = h2
    HostBuffers = {h1, h2}
    NoJob = NoJob
    PageSize = 2
    Prewarm = 1
    Reserved = 8
    QueueLimit = 4
    ExtendSizes <- Extends
    TruncateSizes <- Truncates2
    ReadEnds <- Reads
    PythonLimit = 8
SPECIFICATION FairSpec
INVARIANTS
    TypeOK
    UseHasMemory
    PrewarmSparesData
    CommittedExact
    QueueCounts
    SizeKnown
PROPERTIES
    CallsReturn
