CONSTANTS
  Requests = {r1, r2}
  WithdrawalIds = {w1, w2}
  NoWithdrawal = NoWithdrawal
  Amounts = {1, 2}
  MinimumWithdrawal = 1
  Opening <- MCOpening
  MaxCodes = 2
  MaxCrashes = 1
  PublicPorts = {1, 2}
  RelayTargets = {t1, t2}
  NoTarget = NoTarget
  MaxWishes = 3
  MaxTrouble = 2
SPECIFICATION MCSpec
INVARIANTS
  TypeOK
  LedgerFollowsStatus
  OneWithdrawalPerCode
  CodeMatchesWithdrawal
  BooksFollowProvider
  OverdraftNeedsOverlap
  FundsConserved
  ReconcileExact
PROPERTIES
  ImplementsLifecycle
  RelaysConverge
CHECK_DEADLOCK FALSE
