\* One user, two concurrent runs of pull_once.
SPECIFICATION Spec
CONSTANTS
  Users = {u1}
  Cycles = {c1, c2}
  Leases = {l1, l2, l3, l4}
  NoLease = NoLease
  PendingTTL = 2
  LeaseTTL = 1
  MaxAckItems = 2
  MaxEpoch = 5
SYMMETRY Symmetry
INVARIANTS
  ActiveMeansStored
  RevokedMeansNoCopy
  DeletedLeavesNothing
  TokenOnlyWhilePending
  OneUsableLease
PROPERTIES
  NoStoreOnceSettled
  ImplementsCustody
CHECK_DEADLOCK TRUE
