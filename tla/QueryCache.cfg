CONSTANTS
    Planners = {"p", "q", "r"}
    Caches = {"c1", "c2"}
    Keys = {1, 2}
    Models = {"A", "B"}
    Lengths = {2, 3}
    CacheOf <- Shared
    Model <- Strangers
    Length <- Sizes
    Advertised <- Claims
    MaxEntries = 1
    Interrupts = TRUE
    NoDim = NoDim
    NoVec = NoVec
    NoKey = NoKey
    NoFile = NoFile

SPECIFICATION Spec

CHECK_DEADLOCK FALSE
INVARIANT TypeOK
INVARIANT ServedIsOwn
INVARIANT FileIsWhole
PROPERTY Bounded
PROPERTY FreshIsKept
