SPECIFICATION Spec
CONSTANTS
    a1 = a1
    a2 = a2
    a3 = a3
    b = b
    A = A
    B = B
    Requirements = {a1, a2, a3, b}
    Family <- Families
    Missing = Missing
    Drafts <- Rewordings
    FirstDraft <- First
    Changes = {c1}
    Terminals = {t1}
    Answers = {"adopted", "rejected", "waived"}
    Mappings <- Unmapped
    None = None
    Worlds <- CalmWorlds
    MaxCommands <- CalmLimit
    MaxEdits = 2
CHECK_DEADLOCK FALSE
INVARIANT TruthIsReviewed
