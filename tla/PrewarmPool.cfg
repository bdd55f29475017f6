CONSTANTS
    c1 = c1
    c2 = c2
    Callers = {c1, c2}
    Sizes = {1, 5}
    PageSize = 2
    NThreads = 2
    GenWrap = 2
SPECIFICATION FairSpec
INVARIANTS
    TypeOK
    SharesDisjoint
PROPERTIES
    Implements
    CallsReturn
