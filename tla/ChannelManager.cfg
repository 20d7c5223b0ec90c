SPECIFICATION FairSpec
CONSTANTS
    Channels = {c1, c2}
    Connections = {k1}
    Users = {u1}
    None = None
    HelloTicks = 1
    LifeTicks = 1
    OverlapTicks = 0
    IdModulus = 4
    MaxUses = 2
INVARIANTS
    RefCountExact
    LinkSound
    IdUnique
    ToldOnce
PROPERTIES
    LostChannelRemoved
    ImplementsRegistry
