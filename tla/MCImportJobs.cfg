CONSTANTS
    Jobs = {a, b}
    Long = {a}
    Slabs = 2
    Windows = 1
    BufferLimit = 1
    MaxBatch = 2
    MaxUpsets = 2
    MaxCrashes = 1
    MaxBuild = 2
    None = None
SPECIFICATION Spec
INVARIANTS
    OneRecordingInMemory
    TranscriptIsWhole
    NoFalseAccusation
    OneMeetingPerImport
    CancelLeavesNothing
    NobodyIsStuck
PROPERTIES
    CancelHolds
CHECK_DEADLOCK FALSE
