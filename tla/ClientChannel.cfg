SPECIFICATION FairSpec
CONSTANTS
    Senders = {s1}
    MaxCalls = 3
INVARIANTS
    LossIsTold
    WaitsForSomeone
PROPERTIES
    CallsReturn
CHECK_DEADLOCK FALSE
