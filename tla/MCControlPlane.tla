---------------------------- MODULE MCControlPlane ----------------------------
(***************************************************************************)
(* Values for the model checker.  A router's records, the remote access of *)
(* several routers and an account share no state, so they are explored one *)
(* after the other: each moves only while the others are as they were at   *)
(* the beginning.  The three have the same requests.  Where a history      *)
(* notes a stale save, crossed batches or an undone removal, the           *)
(* exploration stops, and where two choices of a port or an address        *)
(* overlapped unless the unique indexes exist.  Remote access is explored  *)
(* while a router is left, at most one job is waiting, and then one of the *)
(* handlers is choosing, saving or gone.                                   *)
(***************************************************************************)
EXTENDS RouterRecords, RemoteAccess, MerchantAccounts, TLC

MCLayouts == {{<<"e1", "WAN">>, <<"e2", "HOTSPOT_LAN">>, <<"e3", "FREE_LAN">>},
              {<<"e1", "HOTSPOT_LAN">>, <<"e2", "WAN">>, <<"e3", "FREE_LAN">>},
              {<<"e1", "WAN">>, <<"e2", "HOTSPOT_LAN">>, <<"e2", "FREE_LAN">>}}

MCReports == {{<<"e1", TRUE>>, <<"e2", TRUE>>, <<"e3", TRUE>>}, {<<"e2", FALSE>>}}

MCPlain == [pending |-> {{}}, paid |-> {{"success"}}, failed |-> {{"failed"}}, reversed |-> {{"reversed"}}]

RecordsAtRest == row = Absent

AccessAtRest == /\ indexed /\ ~outdated /\ enables = 0 /\ queue = {} /\ work = NoWork
                /\ \A r \in Routers : routers[r] = NewRouter
                /\ \A h \in Handlers : handler[h] = Free

AccountAtRest == /\ user = NoUser /\ codes = << >> /\ packaged = {} /\ passwords = 0
                 /\ \A q \in Calls : call[q] = NoRequest

RecordsExplored == ~overtaken /\ ~crossed

AccessExplored == /\ ~outdated /\ ~undone /\ ~(overlapped /\ ~indexed)
                  /\ LiveRouters # {}
                  /\ Cardinality(queue) <= 1
                  /\ \/ queue = {}
                     \/ \E h \in Handlers : handler[h].pc \in {"free", "save", "saveAddress", "assign"}

AccountExplored == ~stale

MCInit == RecordsInit /\ AccessInit /\ AccountsInit

MCNext ==
  \/ /\ AccessAtRest /\ AccountAtRest /\ RecordsExplored
     /\ RecordsNext /\ UNCHANGED <<access, accountVars>>
  \/ /\ RecordsAtRest /\ AccountAtRest /\ AccessExplored
     /\ AccessNext /\ UNCHANGED <<records, accountVars>>
  \/ /\ RecordsAtRest /\ AccessAtRest /\ AccountExplored
     /\ AccountsNext /\ UNCHANGED <<records, access>>

MCSpec == MCInit /\ [][MCNext]_<<records, access, accountVars>>

Symmetry == Permutations(Requests) \union Permutations(Routers)
=============================================================================
