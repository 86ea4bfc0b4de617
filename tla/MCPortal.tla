------------------------------- MODULE MCPortal -------------------------------
(***************************************************************************)
(* Values for the model checker.  The sale of vouchers by the portal and   *)
(* the installation of the portal on a router share no state, so they are  *)
(* explored one after the other: each moves only while the other is as it  *)
(* was at the beginning.                                                   *)
(***************************************************************************)
EXTENDS MCHotspotSettlement, HotspotInstall

Layout(a, b, c, d) ==
  [p \in Sockets |-> CASE p = "e1" -> a [] p = "e2" -> b [] p = "e3" -> c [] OTHER -> d]

Home == Layout("WAN", "HOTSPOT_LAN", "HOTSPOT_LAN", "FREE_LAN")

MCRoleChoices == {Home, Layout("HOTSPOT_LAN", "WAN", "FREE_LAN", "DISABLED"),
                  Layout("WAN", "HOTSPOT_LAN", "HOTSPOT_LAN", "HOTSPOT_LAN")}

InstallAtRest == /\ saved = Home /\ fasttrack /\ hotspotMode /\ staged = {}
                 /\ saves = 0 /\ faults = 0
                 /\ \A s \in Sessions : session[s] = NoImport

SalesAtRest == /\ wallets = [k \in Kinds |-> {}] /\ crashes = 0
               /\ \A p \in Purchases : purchases[p] = NoRow
               /\ \A r \in Requests : At(r, "idle")

\* A new router as it is delivered, or an emptied one whose device mode forbids HotSpot.
MCInit == Init /\ InstallInit /\ saved = Home /\ hotspotMode = fasttrack

MCNext == \/ InstallAtRest /\ Next /\ UNCHANGED installVars
          \/ SalesAtRest /\ InstallNext /\ UNCHANGED vars

MCSpec == MCInit /\ [][MCNext]_<<vars, installVars>>
=============================================================================
