SPECIFICATION Spec
CONSTANTS
    a = a
    p = p
    o = o
    NoOfTimers = 2
    Clients = {a}
    OneShots = {o, p}
    Users = {u1, u2}
    Interval <- MCInterval
    MaxWait = 3
    Wrap = 6
    MaxBusy = 1
    MaxPosts = 1
INVARIANT TypeOK
CHECK_DEADLOCK FALSE
