SPECIFICATION Spec
CONSTANTS
    Requests = {r1, r2}
    MaxOpen = 3
    LinkMayBreak = TRUE
    MayExpire = TRUE
PROPERTIES
    ImplementsCalls
CHECK_DEADLOCK FALSE
