\* One contour that exits at once, with the defaults of supervisor.py in units
\* of its poll interval of half a second.
SPECIFICATION LoopingSpec
CONSTANTS
  N = 1
  MaxRestarts = 5
  Window = 120
  Base = 2
  Cap = 60
  MaxUnclean = 0
  Helpers = FALSE
CHECK_DEADLOCK FALSE
PROPERTIES
  FailsFast
