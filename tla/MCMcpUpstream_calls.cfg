CONSTANTS
    Calls = {c1}
    Listings = {l1}
    None = None
    PipeRoom = 1
    MaxDeaths = 2
    MaxAsides = 1
SPECIFICATION Spec
CHECK_DEADLOCK FALSE
INVARIANTS
    BlockedOnlyByOutlived
PROPERTIES
    ImplementsRemoteCall
