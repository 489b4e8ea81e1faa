\* Two users and an ack batch that holds one item: the worker's single call
\* exceeds MAX_ACK_ITEMS.
SPECIFICATION PSpec
CONSTANTS
  Users = {u1, u2}
  Cycles = {c1}
  Leases = {l1, l2, l3}
  NoLease = NoLease
  PendingTTL = 1
  LeaseTTL = 1
  MaxAckItems = 1
  MaxEpoch = 2
PROPERTIES
  RevocationConfirmed
