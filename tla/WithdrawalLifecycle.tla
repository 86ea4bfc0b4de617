------------------------ MODULE WithdrawalLifecycle ------------------------
(***************************************************************************)
(* What a withdrawal promises, without requests, codes, locks or a payout  *)
(* provider: the money is reserved when the withdrawal appears, goes back  *)
(* to the wallet exactly when the withdrawal fails, and never moves again. *)
(* WalletWithdrawals implements this (finance.Service in                   *)
(* src/internal/finance/service.go).                                       *)
(***************************************************************************)
CONSTANT WithdrawalIds

VARIABLES status,   \* where the withdrawal stands
          funds     \* where its money is: "free", "reserved" or "released"

vars == <<status, funds>>

Init == /\ status = [w \in WithdrawalIds |-> "absent"]
        /\ funds = [w \in WithdrawalIds |-> "free"]

Request(w) == /\ status[w] = "absent"
              /\ status' = [status EXCEPT ![w] = "requested"]
              /\ funds' = [funds EXCEPT ![w] = "reserved"]

Process(w) == /\ status[w] = "requested"
              /\ status' = [status EXCEPT ![w] = "processing"]
              /\ UNCHANGED funds

Pay(w) == /\ status[w] \in {"requested", "processing"}
          /\ status' = [status EXCEPT ![w] = "paid"]
          /\ UNCHANGED funds

Refund(w) == /\ status[w] \in {"requested", "processing"}
             /\ status' = [status EXCEPT ![w] = "failed"]
             /\ funds' = [funds EXCEPT ![w] = "released"]

Next == \E w \in WithdrawalIds : Request(w) \/ Process(w) \/ Pay(w) \/ Refund(w)

Spec == Init /\ [][Next]_vars
=============================================================================
