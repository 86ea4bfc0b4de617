CONSTANTS
  Requests = {r1, r2}
  WithdrawalIds = {w1, w2}
  NoWithdrawal = NoWithdrawal
  Amounts = {1}
  MinimumWithdrawal = 1
  Opening <- MCOpening
  MaxCodes = 1
  MaxCrashes = 1
  Purchases = {p1}
  NoPurchase = NoPurchase
  CommissionBps = 1000
  WalletIds = {1, 2}
SPECIFICATION MCSpec
PROPERTIES
  ReferencedSettles
  PaidIsDelivered
CHECK_DEADLOCK FALSE
