----------------------------- MODULE MCMoneyLive -----------------------------
(***************************************************************************)
(* Withdrawals and hotspot sales under the fairness of each.  They share   *)
(* no state the liveness of either depends on, so they are explored one    *)
(* after the other: each moves only while the other is as it was at the    *)
(* beginning, where none of its fair actions is enabled.                   *)
(***************************************************************************)
EXTENDS MCWalletWithdrawals

CONSTANTS Purchases, NoPurchase, CommissionBps, WalletIds

VARIABLES purchases, provider, voucher, sales, wallets, radius, portalReq, portalCrashes, raced

portalVars == <<purchases, provider, voucher, sales, wallets, radius, portalReq, portalCrashes, raced>>

MCPrice == [p \in Purchases |-> 333]

\* A collection that succeeded is soon called so.
MCPrompt == [pending |-> {{}}, paid |-> {{"success"}}, failed |-> {{"failed"}, {}},
             reversed |-> {{"reversed"}, {"paid", "reversed"}, {}}]

Portal == INSTANCE HotspotSettlement
            WITH Price <- MCPrice, Says <- MCPrompt, req <- portalReq, crashes <- portalCrashes

WithdrawalsAtRest == /\ codes = << >> /\ crashes = 0
                     /\ \A w \in WithdrawalIds : withdrawals[w] = NoRow
                     /\ \A r \in Requests : At(r, "idle")

PortalAtRest == /\ wallets = [k \in Portal!Kinds |-> {}] /\ portalCrashes = 0
                /\ \A p \in Purchases : purchases[p] = Portal!NoRow
                /\ \A r \in Requests : Portal!At(r, "idle")

MCInit == Init /\ Portal!Init

MCNext == \/ PortalAtRest /\ Next /\ UNCHANGED portalVars
          \/ WithdrawalsAtRest /\ Portal!Next /\ UNCHANGED vars

MCSpec == /\ MCInit
          /\ [][MCNext]_<<vars, portalVars>>
          /\ Fairness /\ Portal!Fairness

\* Of HotspotSettlement: a customer whose money was taken under a known reference is let in, unless
\* the voucher is deleted or the money is given back.
PaidIsDelivered == Portal!PaidIsDelivered
=============================================================================
