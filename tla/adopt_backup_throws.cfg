SPECIFICATION Spec
CONSTANTS
    Sessions = {s1}
    Kinds = {domain, api}
    Base = Base
    NoFile = NoFile
    Missing = Missing
    Worlds <- BackupWorld
    MaxRuns = 1
    BothChoose = {}
CHECK_DEADLOCK FALSE
INVARIANT RollbackRestores
