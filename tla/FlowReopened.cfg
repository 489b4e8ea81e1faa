\* One card that changes four times.
SPECIFICATION FloSpec
CONSTANTS
  None = None
  MaxTime = 3
  MaxMoves = 4
CHECK_DEADLOCK FALSE
INVARIANTS
  NoInventedCycle
