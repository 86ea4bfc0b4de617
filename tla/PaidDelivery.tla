---------------------------- MODULE PaidDelivery ----------------------------
(***************************************************************************)
(* What an online hotspot sale promises: a purchase is delivered (voucher, *)
(* sale and wallet credits, as one step) at most once and only after the   *)
(* customer has been charged, and the voucher can log in only after that.  *)
(***************************************************************************)
CONSTANT Purchases

VARIABLES charged,    \* purchases ioTec has taken the money for
          delivered,  \* purchases with a voucher and a booked sale
          online      \* purchases whose voucher FreeRADIUS knows

vars == <<charged, delivered, online>>

Init == charged = {} /\ delivered = {} /\ online = {}

Charge(p) == /\ p \notin charged
             /\ charged' = charged \union {p}
             /\ UNCHANGED <<delivered, online>>

Deliver(p) == /\ p \in charged \ delivered
              /\ delivered' = delivered \union {p}
              /\ UNCHANGED <<charged, online>>

Connect(p) == /\ p \in delivered \ online
              /\ online' = online \union {p}
              /\ UNCHANGED <<charged, delivered>>

Next == \E p \in Purchases : Charge(p) \/ Deliver(p) \/ Connect(p)

Spec == Init /\ [][Next]_vars
=============================================================================
