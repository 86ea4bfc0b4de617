CONSTANTS
  Requests = {r1, r2}
  WithdrawalIds = {w1, w2}
  NoWithdrawal = NoWithdrawal
  Amounts = {1, 2}
  MinimumWithdrawal = 1
  Opening <- MCOpening
  MaxCodes = 2
  MaxCrashes = 1
SPECIFICATION Spec
SYMMETRY Symmetry
INVARIANT
  MerchantNeverOverdrawn
CHECK_DEADLOCK FALSE
