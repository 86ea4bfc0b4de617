CONSTANTS
  Requests = {r1}
  Purchases = {p1}
  NoPurchase = NoPurchase
  Price <- MCPrice
  Says <- MCNegated
  CommissionBps = 1000
  WalletIds = {1, 2}
  MaxCrashes = 1
SPECIFICATION Spec
INVARIANT VoucherAfterPayment
CHECK_DEADLOCK FALSE
