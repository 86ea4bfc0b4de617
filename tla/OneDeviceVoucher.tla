-------------------------- MODULE OneDeviceVoucher --------------------------
(***************************************************************************)
(* What a voucher promises: it is issued once, and belongs for ever to the *)
(* first device it is bound to, by its purchase or later; once over it is  *)
(* never usable again.  Before it is bound, any device gets online with    *)
(* it; once it is, only its own, except while the credentials are loose.   *)
(***************************************************************************)
CONSTANTS Vouchers, Devices, NoDevice

VARIABLES phase,  \* "none", "usable" or "over"
          owner,  \* the device the voucher belongs to, or NoDevice
          loose,  \* vouchers whose credentials are not kept with the voucher
          served  \* devices that got online with it

vars == <<phase, owner, loose, served>>

Init == /\ phase = [v \in Vouchers |-> "none"]
        /\ owner = [v \in Vouchers |-> NoDevice]
        /\ loose = {}
        /\ served = [v \in Vouchers |-> {}]

\* Vouchers are issued together, to one device or to none.
Issue(S, d) == /\ \A v \in S : phase[v] = "none"
               /\ phase' = [v \in Vouchers |-> IF v \in S THEN "usable" ELSE phase[v]]
               /\ owner' = [v \in Vouchers |-> IF v \in S THEN d ELSE owner[v]]
               /\ UNCHANGED <<loose, served>>

\* Binding may put the credentials right.
Bind(v, d) == /\ phase[v] = "usable"
              /\ owner[v] = NoDevice
              /\ owner' = [owner EXCEPT ![v] = d]
              /\ loose' \in {loose, loose \ {v}}
              /\ UNCHANGED <<phase, served>>

End(v) == /\ phase[v] = "usable"
          /\ phase' = [phase EXCEPT ![v] = "over"]
          /\ loose' \in {loose, loose \ {v}}
          /\ UNCHANGED <<owner, served>>

\* Credentials written late, and credentials put right.
Loosen(v) == /\ phase[v] # "none"
             /\ loose' = loose \union {v}
             /\ UNCHANGED <<phase, owner, served>>

Mend(v) == /\ loose' = loose \ {v}
           /\ UNCHANGED <<phase, owner, served>>

Serve(v, d) == /\ phase[v] # "none"
               /\ owner[v] \in {NoDevice, d} \/ v \in loose
               /\ served' = [served EXCEPT ![v] = @ \union {d}]
               /\ UNCHANGED <<phase, owner, loose>>

Next == \/ \E S \in SUBSET Vouchers, d \in Devices \union {NoDevice} : Issue(S, d)
        \/ \E v \in Vouchers, d \in Devices : Bind(v, d) \/ Serve(v, d)
        \/ \E v \in Vouchers : End(v) \/ Loosen(v) \/ Mend(v)

Spec == Init /\ [][Next]_vars
=============================================================================
