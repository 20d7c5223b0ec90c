SPECIFICATION FairSpec
CONSTANTS
    a = a
    p = p
    o = o
    NoOfTimers = 2
    Clients = {a}
    OneShots = {o, p}
    Users = {u1, u2}
    Interval <- MCInterval
    MaxWait = 3
    Wrap = 6
    MaxBusy = 1
    MaxPosts = 1
INVARIANTS
    HandleSound
    OwnerAlive
    FiresInTime
PROPERTIES
    CallsReturn
    CleanupEnds
CHECK_DEADLOCK FALSE
