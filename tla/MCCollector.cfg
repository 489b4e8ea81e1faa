SPECIFICATION Spec
CONSTANTS
  Users = {u1}
  NoUser = NoUser
  Procs = {c1, c2}
  NoProc = NoProc
  MaxEpoch = 3
SYMMETRY MCSymmetry
INVARIANTS PollsOwnToken
PROPERTIES SentCurrent ToldClean
