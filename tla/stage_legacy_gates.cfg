SPECIFICATION Spec
CONSTANTS
  Modes <- LegacyModes
  MaxRuns = 3
  MaxEdits = 0
INVARIANT GateBeforeLife
CHECK_DEADLOCK FALSE
