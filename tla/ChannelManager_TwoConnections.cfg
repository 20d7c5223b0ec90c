SPECIFICATION Spec
CONSTANTS
    Channels = {c1, c2}
    Connections = {k1, k2}
    Users = {u1}
    None = None
    HelloTicks = 1
    LifeTicks = 1
    OverlapTicks = 1
    IdModulus = 4
    MaxUses = 3
SYMMETRY ManagerSymmetry
INVARIANTS
    TypeOK
    RefCountExact
    HeldIsListed
    LinkSound
    IdUnique
    ToldOnce
