SPECIFICATION Spec
CONSTANTS
    Requests = {r1}
    MaxOpen = 3
    LinkMayBreak = FALSE
    MayExpire = FALSE
INVARIANT RenewFlagMeansWaiting
CHECK_DEADLOCK FALSE
