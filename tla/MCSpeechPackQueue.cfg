\* Two packs behind one engine, as the program runs it: initialise() is not
\* called.  One pack at a time has a deletion that a later cancel overtook.
CONSTANTS
    Components = {p, q}
    Versions = {v1}
    None = None
    HostInitialises = FALSE
    MaxAsides = 1
    MaxDamage = 0
    MaxFaults = 0
    MaxStrays = 1
SPECIFICATION Spec
SYMMETRY PackSymmetry
INVARIANTS
    LatestCleanupIsAwaited
PROPERTIES
    ImplementsLifecycle
CHECK_DEADLOCK FALSE
