SPECIFICATION FairSpec
CONSTANTS
    Requests = {r1, r2}
    MaxOpen = 3
    LinkMayBreak = TRUE
    MayExpire = TRUE
INVARIANTS
    TokensKnown
    TokensInStep
    AnsweredOnce
    NobodyStranded
PROPERTIES
    RequestAnswered
CHECK_DEADLOCK FALSE
