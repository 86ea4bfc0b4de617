------------------------ MODULE MCWalletWithdrawals ------------------------
(***************************************************************************)
(* WalletWithdrawals on a small instance.                                  *)
(***************************************************************************)
EXTENDS WalletWithdrawals, TLC

MCOpening == [x \in Wallets |-> IF x = "merchant" THEN 2 ELSE 1]

Symmetry == Permutations(Requests) \union Permutations(WithdrawalIds)
=============================================================================
