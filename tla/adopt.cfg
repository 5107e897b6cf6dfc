SPECIFICATION Spec
CONSTANTS
    Sessions = {s1, s2}
    Kinds = {domain, api}
    Base = Base
    NoFile = NoFile
    Missing = Missing
    Worlds <- AdoptWorlds
    MaxRuns = 2
    BothChoose <- Mixed
SYMMETRY Symmetric
CHECK_DEADLOCK FALSE
INVARIANTS HandoffConsistent CommittedIsAudited AbandonRestores SavedIsComplete OwnDebtAtomic
PROPERTIES ImplementsAtomic OnlyRerunDiscards
