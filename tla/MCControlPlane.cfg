CONSTANTS
  Requests = {q1, q2}
  Handlers = {q1, q2}
  Calls = {q1, q2}
  Actors = {"owner", "admin"}
  Interfaces = {"e1", "e2", "e3"}
  Layouts <- MCLayouts
  Reports <- MCReports
  MaxTokens = 2
  MaxChallenges = 1
  MaxBatches = 2
  Routers = {r1, r2}
  Ports = {1, 2}
  Addresses = {1, 2}
  MaxEnables = 2
  Orders = {o1}
  Says <- MCPlain
  NoOrderId = NoOrderId
  MaxCodes = 2
  MaxPasswords = 2
  MaxPeriods = 2
  MaxVouchers = 2
SPECIFICATION MCSpec
SYMMETRY Symmetry
INVARIANTS
  RevocationHolds
  OnePortOneRole
  EndpointsExclusive
  AccessFollowsRequests
  CodesGovernAccount
  PaymentsHonoured
CHECK_DEADLOCK FALSE
