\* Two permits, four calls and room for two waiters: both lanes can be
\* occupied while both permits are out, and the queue can be full.
CONSTANTS
    Calls = {c1, c2, c3, c4}
    Capacity = 2
    MaxQueued = 2
    StuckAfter = 2
SPECIFICATION FairSpec
INVARIANTS
    TypeOK
    PermitsConserved
    NobodyWaitsWhileFree
    QueuesHoldTheWaiting
    StuckWatched
PROPERTIES
    GrantsInOrder
    ImplementsPool
    MetadataAnswered
