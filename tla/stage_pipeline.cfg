SPECIFICATION FairSpec
CONSTANTS
  Modes <- AllModes
  MaxRuns = 3
  MaxEdits = 1
INVARIANTS TxGateBeforeLife OutputBeforeLife
PROPERTIES UndoIsExact AllOrNothing NoLostProgress RunEnds
CHECK_DEADLOCK FALSE
