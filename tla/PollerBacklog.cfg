\* Runs that last, ticks that overrun, no other failure.
SPECIFICATION BusySpec
CONSTANTS
  Issues = {a, b}
  Unlimited = Unlimited
  PageLimit = 1
  Budget = 2
  MaxClock = 3
  MaxErrors = 0
  MaxOverruns = Unlimited
CHECK_DEADLOCK FALSE
PROPERTIES
  BacklogDrains
