CONSTANTS
  Requests = {r1, r2}
  Vouchers = {v1}
  Devices = {d1, d2}
  NoDevice = NoDevice
  NoVoucher = NoVoucher
  MaxInt = 200000
  Word = 256
  Tick = 4
  Minutes <- MCMinutes
  Values <- MCValues
  Times <- MCTimes
  Sizes <- MCSizes
  Lengths <- MCLengths
  Packets <- MCPackets
SPECIFICATION MCSpec
SYMMETRY Symmetry
INVARIANTS
  TypeOK
  BindingEnforced
  OverLeavesRadius
  NoForeignDevice
  ShownIsSold
  PatchKeepsTerms
  RadiusAnswersExact
PROPERTY KeepsPromise
CHECK_DEADLOCK FALSE
