SPECIFICATION Spec
CONSTANTS
  p1 = p1
  p2 = p2
  s1 = s1
  s2 = s2
  good = good
  bad = bad
  bare = bare
  Terminals = {p1, p2}
  Main = p1
  Sessions = {s1, s2}
  Patches = {good, bad, bare}
  None = None
  Segments = {"src", "doc", "a", "b", "x", "", "dev", "null"}
  Scope <- Scopes
  Diff <- Diffs
  Effect <- Effects
  MaxCommands = 3
  Limits = {2, 7}
  Worlds <- AllWorlds
INVARIANTS MediationHolds RecoveryRuns StallBound
PROPERTIES FinishedGreen SessionsStay
CHECK_DEADLOCK FALSE
