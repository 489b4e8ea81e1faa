\* Two users handled together, one run of pull_once at a time, batches that fit.
SPECIFICATION PSpec
CONSTANTS
  Users = {u1, u2}
  Cycles = {c1}
  Leases = {l1, l2, l3}
  NoLease = NoLease
  PendingTTL = 1
  LeaseTTL = 1
  MaxAckItems = 2
  MaxEpoch = 2
PROPERTIES
  TokenLeavesHost
  RevocationConfirmed
