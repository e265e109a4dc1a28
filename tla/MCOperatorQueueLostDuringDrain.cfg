CONSTANTS
    Events = {e1, e2}
    Ticks = {t1}
    MaxItems = 2
    Schedule <- TwoWaits
    RetryAfter = {}
    MaxUpsets = 0
SPECIFICATION OutboxSpec
INVARIANTS
    NeverDropped
CHECK_DEADLOCK FALSE
