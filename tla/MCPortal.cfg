CONSTANTS
  Requests = {r1, r2}
  Purchases = {p1, p2}
  NoPurchase = NoPurchase
  Price <- MCPrice
  Says <- MCPlain
  CommissionBps = 1000
  WalletIds = {1, 2}
  MaxCrashes = 1
  Sockets = {"e1", "e2", "e3", "e4"}
  RoleChoices <- MCRoleChoices
  Sessions = {s1, s2}
  MaxSaves = 1
  MaxFaults = 1
SPECIFICATION MCSpec
SYMMETRY Symmetry
INVARIANTS
  TypeOK
  DeliveredTogether
  StatusFollowsProvider
  CreditsVisible
  InstallSound
PROPERTY ImplementsDelivery
CHECK_DEADLOCK FALSE
