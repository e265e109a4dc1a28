\* One pack, two builds pinning different versions, the process killed between
\* any two steps, one outside change to the files and one failing operation.
CONSTANTS
    Components = {p}
    Versions = {v1, v2}
    None = None
    HostInitialises = TRUE
    MaxAsides = 2
    MaxDamage = 1
    MaxFaults = 1
    MaxStrays = 1
SPECIFICATION FairSpec
INVARIANTS
    ReadyMeansActive
    WorkingPackSurvives
PROPERTIES
    RollbackRestores
    CancelWins
    EveryRunEnds
CHECK_DEADLOCK FALSE
