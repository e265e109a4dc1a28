CONSTANTS
    ask = ask
    image = image
    recap = recap
    back = back
    warm = warm
    Requests = {recap, back, image}
    Kind <- MixedKind
    Wants <- MixedWants
    Corrupt = {}
    Candidates <- Windows
    MaxUpsets = 1
SPECIFICATION FairSpec
INVARIANTS
    OneSidecar
    EndpointIsTheChild
    DrainWaitsForStreams
    LoadsOnlyVerified
    RecapRunsAlone
PROPERTIES
    SwitchCutsNoStream
    EveryRequestIsAnswered
CHECK_DEADLOCK FALSE
