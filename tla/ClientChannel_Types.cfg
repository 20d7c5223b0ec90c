SPECIFICATION Spec
CONSTANTS
    Senders = {s1}
    MaxCalls = 3
INVARIANT TypeOK
CHECK_DEADLOCK FALSE
