---------------------------- MODULE MCWalletRelays ----------------------------
(***************************************************************************)
(* Values for the model checker.  Withdrawals and the relays of the VPS    *)
(* share no state, so they are explored one after the other: each moves    *)
(* only while the other is as it was at the beginning.                     *)
(***************************************************************************)
EXTENDS MCWalletWithdrawals, RelayFirewall

RelaysAtRest == /\ ~dual /\ pass = Waiting /\ targets = NoTargets /\ rules = <<Foreign>>
                /\ wishes = 0 /\ trouble = 0

WithdrawalsAtRest == /\ codes = << >> /\ crashes = 0
                     /\ \A w \in WithdrawalIds : withdrawals[w] = NoRow
                     /\ \A r \in Requests : At(r, "idle")

MCInit == Init /\ RelayInit

MCNext == \/ RelaysAtRest /\ Next /\ UNCHANGED relayVars
          \/ WithdrawalsAtRest /\ RelayNext /\ UNCHANGED vars

MCSpec == MCInit /\ [][MCNext]_<<vars, relayVars>> /\ RelayFairness
=============================================================================
