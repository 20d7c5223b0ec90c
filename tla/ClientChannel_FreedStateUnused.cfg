SPECIFICATION Spec
CONSTANTS
    Senders = {s1}
    MaxCalls = 3
INVARIANT FreedStateUnused
CHECK_DEADLOCK FALSE
