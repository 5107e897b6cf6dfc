SPECIFICATION Spec
CONSTANTS
    d1 = d1
    d2 = d2
    Decisions = {d1, d2}
    Serious = {d1}
    Inside <- Nested
    Terminals = {t1, t2}
    Worlds <- ReviewWorlds
    MaxCommands <- Limits
SYMMETRY Symmetric
CHECK_DEADLOCK FALSE
INVARIANTS WaivedIsOwed DeferredIsListed RejectedIsCorrected LastWordStands ReadyWasSaid
