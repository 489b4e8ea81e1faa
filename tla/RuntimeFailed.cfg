\* Two generations of the runtime and one slip.
SPECIFICATION RtSpec
CONSTANTS
  Gens = {g, h}
  None = None
  MaxPid = 4
  MaxSlips = 1
CHECK_DEADLOCK FALSE
INVARIANTS
  FailedInstallRestores
