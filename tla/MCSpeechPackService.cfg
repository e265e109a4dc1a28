\* Two packs, two actions in flight, every change of authority at any time.
CONSTANTS
    Components = {p, q}
    None = None
    Actions = {k1, k2}
SPECIFICATION Spec
SYMMETRY Interchangeable
INVARIANTS
    LeasesMatchWork
    QuitFindsItIdle
PROPERTIES
    WithdrawnStartsNothing
CHECK_DEADLOCK FALSE
