\* Two browsers, two requests at a time, purges, expiries and lost answers.
SPECIFICATION Spec
CONSTANTS
  b1 = b1
  b2 = b2
  p1 = p1
  p2 = p2
  ann = ann
  bob = bob
  eve = eve
  nil = nil
  root = root
  google = google
  adminEmail = adminEmail
  listedEmail = listedEmail
  otherEmail = otherEmail
  Browsers = {b1, b2}
  Procs = {p1, p2}
  Identities = {ann, bob, eve, nil, root}
  Providers = {google}
  ProviderOf <- MCProviderOf
  EmailOf <- MCEmailOf
  AdminEmail = adminEmail
  Allowed = {listedEmail}
  NoEmail = NoEmail
  None = None
  MaxUser = 3
  MaxSid = 2
  MaxState = 2
SYMMETRY Sym
CHECK_DEADLOCK FALSE
INVARIANTS
  SessionServesItsPerson
  SignInBound
  RotatedOut
  AccountsWhole
  NoConnectionOfStranger
PROPERTIES
  OwnerForever
