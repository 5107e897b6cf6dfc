SPECIFICATION Spec
CONSTANTS
    Callers = {c1, c2}
    Keys = {k1, k2}
    None = None
    Torn = Torn
    Worlds <- CacheWorlds
    MaxCalls <- Limits
INVARIANTS
    RevokedIsGone
    OnlyCutsThrow
PROPERTY
    ImplementsMap
