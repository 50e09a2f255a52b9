CONSTANTS
    r1 = r1
    r2 = r2
    r3 = r3
    Requests = {r1, r2, r3}
    Carries <- MCCarries
    MaxFiles = 2
    MaxImage = 2
    MaxFile = 3
    MaxTotal = 3
    MaxRequest = 4
    Workers = 1
    MaxFaults = 1
    MaxCancels = 1
    SpoolSize = 1
    NoId = "none"
    Sizes = {2}
    Chunk = 2
SPECIFICATION FairSpec
INVARIANTS
    FilesOfEventsExist
    OneEventPerId
    NothingLeftBehind
    ServedAsAsked
PROPERTIES
    EveryRequestLeaves
CHECK_DEADLOCK FALSE
