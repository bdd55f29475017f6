CONSTANTS
    r1 = r1
    r2 = r2
    Readers = {r1, r2}
    NWorkers = 2
    ChunkSize = 2
    QueueCap = 1
    Sizes = {0, 3, 6}
    NoTask = NoTask
SPECIFICATION FairSpec
INVARIANTS
    TypeOK
    PendingCounts
    OkMeansRead
    WrittenOnce
PROPERTIES
    ReadReturns
    CleanupEnds
