CONSTANTS
    Jobs = {a}
    Long = {a}
    Slabs = 2
    Windows = 1
    BufferLimit = 1
    MaxBatch = 1
    MaxUpsets = 1
    MaxCrashes = 0
    MaxBuild = 1
    None = None
SPECIFICATION Spec
PROPERTIES
    CancelStays
CHECK_DEADLOCK FALSE
