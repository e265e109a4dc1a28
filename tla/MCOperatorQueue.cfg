\* Three events for an outbox of two, two overlapping ticks, and one failed
\* write or death of the process.
CONSTANTS
    Events = {e1, e2, e3}
    Ticks = {t1, t2}
    MaxItems = 2
    Schedule <- OneWait
    RetryAfter = {}
    MaxUpsets = 1
SPECIFICATION FairOutboxSpec
INVARIANTS
    LostOnlyWhenExposed
PROPERTIES
    EventuallyDelivered
CHECK_DEADLOCK FALSE
