\* One behaviour of one part at a time, under the fairness of that part.
SPECIFICATION PartsSpec
CONSTANTS
  u1 = u1
  c1 = c1
  c2 = c2
  NoUser = NoUser
  NoProc = NoProc
  i1 = i1
  i2 = i2
  Unlimited = Unlimited
  None = None
  r1 = r1
  r2 = r2
  r3 = r3
PROPERTIES
  EventuallySent
  OldTokenGoes
  Restarted
  CatchesUp
  LockEnds
CHECK_DEADLOCK FALSE
