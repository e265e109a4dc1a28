CONSTANTS
    Actions = {a, b}
    Loops = {l, m}
    MaxAttempts = 2
    Backoff <- TwoWaits
    MaxAsked = 2
    MaxRetries = 2
    MaxFaults = 1
    MaxCrashes = 1
SPECIFICATION FairSpec
INVARIANTS
    QueueSendsOnce
    DurableBetweenBatches
PROPERTIES
    EventuallySettled
CHECK_DEADLOCK FALSE
