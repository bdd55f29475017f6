SPECIFICATION Spec
CONSTANTS
    MaxVa = 3
    MaxSmall = 1
    Units = 5
    MaxPages = 4
    Addresses <- AllAddresses
    Requests <- All
    Scopes = {"f"}
    MaxDepth = 2
    MaxEvents = 5
    MaxHeld = 2
    AssertModes = {FALSE, TRUE}
    MapMayFail = TRUE
INVARIANTS
    TypeOK
    ReplayAgrees
    UnmappedBeforeGone
    Released
PROPERTY Implements
CHECK_DEADLOCK FALSE
