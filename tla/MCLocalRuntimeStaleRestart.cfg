CONSTANTS
    ask = ask
    image = image
    recap = recap
    back = back
    warm = warm
    Requests = {ask, warm}
    Kind <- OneUserKind
    Wants <- OneUserWants
    Corrupt = {}
    Candidates <- Mac
    MaxUpsets = 1
SPECIFICATION Spec
INVARIANTS
    UnavailableServesNobody
CHECK_DEADLOCK FALSE
