SPECIFICATION Spec
CONSTANTS
    Senders = {s1}
    MaxCalls = 3
INVARIANT ShutdownLetsEventsIn
CHECK_DEADLOCK FALSE
