CONSTANTS
    Captures = {c1, c2}
    Tracks = {you, them}
    ClosesItself = TRUE
    MaxFrames = 1
    None = None
SPECIFICATION LiveFairSpec
INVARIANTS
    SocketsBelongToTheOwner
    CompleteMeansComplete
PROPERTIES
    EveryCallIsAnswered
CHECK_DEADLOCK FALSE
