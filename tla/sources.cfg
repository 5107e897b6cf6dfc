SPECIFICATION Spec
CONSTANTS
    a1 = a1
    a2 = a2
    a3 = a3
    b = b
    A = A
    B = B
    Requirements = {a1, a2, a3, b}
    Family <- Families
    Missing = Missing
    Drafts <- Versions
    FirstDraft <- First
    Changes = {c1, c2}
    Terminals = {t1, t2}
    Answers = {"adopted", "rejected", "waived"}
    Mappings <- Successor
    None = None
    Worlds <- SourceWorlds
    MaxCommands <- Limits
    MaxEdits = 2
SYMMETRY Symmetric
CHECK_DEADLOCK FALSE
INVARIANTS
    FilesAgree
    AdoptionWasDecided
    RegistryFollows
    DecisionStands
