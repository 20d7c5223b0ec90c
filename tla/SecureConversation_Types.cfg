SPECIFICATION Spec
CONSTANTS
    Requests = {r1, r2}
    MaxOpen = 3
    LinkMayBreak = TRUE
    MayExpire = TRUE
INVARIANT TypeOK
CHECK_DEADLOCK FALSE
