SPECIFICATION Spec
CONSTANTS
    w1 = w1
    w2 = w2
    i1 = i1
    i2 = i2
    Terminals = {p1, p2}
    Subjects <- Events
    None = None
    Issues = {i1, i2}
    Waivers = {w1, w2}
    Covers <- Matchers
    RequiredReviewers = 2
    MaxTime = 1
    MaxCommands <- Limits
    Worlds <- GovernanceWorlds
SYMMETRY Symmetric
CHECK_DEADLOCK FALSE
INVARIANTS OneLinePerTerminal PassIsAccepted RevokedNeverPasses LedgerTells PostureIsAudited PolicyActsOnItsFact
