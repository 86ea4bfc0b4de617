----------------------------- MODULE Edge_proofs -----------------------------
(***************************************************************************)
(* Theorems about the two ends of the tunnel: HotspotInstall, for every    *)
(* set of ports, roles and imports, and RelayFirewall, for every set of    *)
(* public ports and targets.                                               *)
(***************************************************************************)
EXTENDS RelayFirewall, HotspotInstall, FiniteSetTheorems, SequenceTheorems, WellFoundedInduction, TLAPS

-----------------------------------------------------------------------------
(* The captive portal.                                                     *)

Import == [pc : 0 .. 17, roles : [Sockets -> Roles], todo : SUBSET Sockets, before : SUBSET Sockets,
           skipped : SUBSET Sockets, alone : BOOLEAN]

InstallTypes ==
  /\ saved \in [Sockets -> Roles]
  /\ bridge \in [Sockets -> {"none", "bridge", "br-hotspot"}]
  /\ wanList \subseteq Sockets
  /\ staged \subseteq Upserts
  /\ fasttrack \in BOOLEAN
  /\ session \in [Sessions -> Import]
  /\ recast \subseteq Sockets

\* The roles an import has are those of the moment, but for the ports whose role changed.
RolesCurrent ==
  \A p \in Sockets \ recast :
    /\ p \in wanList => saved[p] = "WAN"
    /\ bridge[p] = "br-hotspot" => saved[p] = "HOTSPOT_LAN"
    /\ \A s \in Sessions : session[s].roles[p] = saved[p]

TodoClients == \A s \in Sessions : session[s].todo \subseteq With(session[s].roles, "HOTSPOT_LAN")

\* An import has staged whatever stands before the command group it is at.
StagedInOrder ==
  \A s \in Sessions, i \in DOMAIN Script :
    i < session[s].pc /\ Script[i] \in Portal => Script[i] \in staged \union removed

ServedBeforeAttached == Attached # {} => Portal \subseteq staged \union removed

Aloneness ==
  \A s, o \in Sessions : (Running(s) \/ Complete(s)) /\ session[s].alone /\ s # o => ~Running(o)

\* What an import that runs alone has done to the ports.
LonePorts(s) ==
  LET kept == session[s].before \ (With(session[s].roles, "FREE_LAN") \ session[s].skipped)
      clients == With(session[s].roles, "HOTSPOT_LAN")
  IN  /\ session[s].pc \in 1 .. 13 => Attached = session[s].before /\ session[s].todo = clients
      /\ session[s].pc >= 14 => Attached = kept \union (clients \ session[s].todo)
      /\ session[s].pc >= 15 => session[s].todo = {}
      /\ session[s].pc >= 2 => With(session[s].roles, "WAN") \subseteq wanList
      /\ session[s].pc = 17 => Verified \subseteq staged /\ ~fasttrack

InstallInv ==
  /\ InstallTypes /\ RolesCurrent /\ TodoClients /\ StagedInOrder /\ ServedBeforeAttached /\ Aloneness
  /\ \A s \in Sessions : session[s].alone => LonePorts(s)

\* Where the groups stand in the script.
LEMMA ScriptOrder ==
  /\ DOMAIN Script = 1 .. 16 /\ Len(Script) = 16
  /\ \A i \in 1 .. 16 : /\ Script[i] = "wan" <=> i = 1
                        /\ Script[i] = "mode" <=> i = 5
                        /\ Script[i] = "shaping" <=> i = 7
                        /\ Script[i] = "pages" <=> i = 9
                        /\ Script[i] = "free" <=> i = 13
                        /\ Script[i] = "ports" <=> i = 14
                        /\ Script[i] = "activate" <=> i = 15
                        /\ Script[i] = "verify" <=> i = 16
                        /\ Script[i] \in Upserts => i \in (2 .. 4) \union {6} \union (8 .. 12)
  /\ \A x \in Portal : \E i \in 2 .. 12 : Script[i] = x
<1>1. DOMAIN Script = 1 .. 16 /\ Len(Script) = 16
  BY DEF Script
<1>2. /\ Script[1] = "wan" /\ Script[2] = "bridge" /\ Script[3] = "pool" /\ Script[4] = "dhcp"
      /\ Script[5] = "mode" /\ Script[6] = "nat" /\ Script[7] = "shaping" /\ Script[8] = "radius"
      /\ Script[9] = "pages" /\ Script[10] = "profile" /\ Script[11] = "login" /\ Script[12] = "server"
      /\ Script[13] = "free" /\ Script[14] = "ports" /\ Script[15] = "activate" /\ Script[16] = "verify"
  BY DEF Script
<1>3. \A i \in 1 .. 16 : \/ i = 1 \/ i = 2 \/ i = 3 \/ i = 4 \/ i = 5 \/ i = 6 \/ i = 7 \/ i = 8
                         \/ i = 9 \/ i = 10 \/ i = 11 \/ i = 12 \/ i = 13 \/ i = 14 \/ i = 15 \/ i = 16
  OBVIOUS
<1>4. \A i \in 1 .. 16 : /\ Script[i] = "wan" <=> i = 1
                         /\ Script[i] = "mode" <=> i = 5
                         /\ Script[i] = "shaping" <=> i = 7
                         /\ Script[i] = "pages" <=> i = 9
                         /\ Script[i] = "free" <=> i = 13
                         /\ Script[i] = "ports" <=> i = 14
                         /\ Script[i] = "activate" <=> i = 15
                         /\ Script[i] = "verify" <=> i = 16
                         /\ Script[i] \in Upserts => i \in (2 .. 4) \union {6} \union (8 .. 12)
  BY <1>2, <1>3 DEF Upserts
<1>5. \A x \in Portal : \E i \in 2 .. 12 : Script[i] = x
  BY <1>2 DEF Portal, Upserts
<1> QED BY <1>1, <1>4, <1>5

\* Running and complete in terms of the position.
LEMMA Positions ==
  ASSUME InstallTypes, NEW s \in Sessions
  PROVE  /\ session[s] \in Import
         /\ Running(s) <=> session[s].pc \in 1 .. 16
         /\ Complete(s) <=> session[s].pc = 17
BY ScriptOrder DEF InstallTypes, Import, Running, Complete

\* What a step may do to an import: nothing, end it, or move it on.
Moved(t) ==
  \/ session'[t] = session[t]
  \/ session'[t] = NoImport
  \/ /\ Running(t)
     /\ session'[t].pc \in {session[t].pc, session[t].pc + 1}
     /\ session'[t].roles = session[t].roles
     /\ session'[t].before = session[t].before
     /\ session'[t].alone = session[t].alone
     /\ session'[t].todo \subseteq session[t].todo
     /\ session'[t].pc # session[t].pc /\ Script[session[t].pc] \in Portal =>
          Script[session[t].pc] \in staged' \union removed'

\* A step of the imports keeps everything but, perhaps, LonePorts.
LEMMA ImportsMove ==
  ASSUME InstallInv, InstallTypes', UNCHANGED <<saved, recast>>,
         \A t \in Sessions : Moved(t),
         staged \union removed \subseteq staged' \union removed',
         \A p \in Sockets \ recast : /\ p \in wanList' => p \in wanList \/ saved[p] = "WAN"
                                     /\ p \in Attached' => p \in Attached \/ saved[p] = "HOTSPOT_LAN",
         Attached' \subseteq Attached \/ Portal \subseteq staged \union removed
  PROVE  RolesCurrent' /\ TodoClients' /\ StagedInOrder' /\ ServedBeforeAttached' /\ Aloneness'
<1>1. \A t \in Sessions : session[t].pc \in 0 .. 17 /\ session'[t].pc \in 0 .. 17
  BY DEF InstallInv, InstallTypes, Import
<1>2. NoImport.pc = 0 /\ NoImport.todo = {} /\ NoImport.roles = saved
  BY DEF NoImport
<1>3. RolesCurrent'
  <2> SUFFICES ASSUME NEW p \in Sockets \ recast
               PROVE  /\ p \in wanList' => saved[p] = "WAN"
                      /\ bridge'[p] = "br-hotspot" => saved[p] = "HOTSPOT_LAN"
                      /\ \A s \in Sessions : session'[s].roles[p] = saved[p]
    BY DEF RolesCurrent
  <2>1. p \in wanList' => saved[p] = "WAN"
    BY DEF InstallInv, RolesCurrent
  <2>2. bridge'[p] = "br-hotspot" => saved[p] = "HOTSPOT_LAN"
    BY DEF InstallInv, RolesCurrent, Attached
  <2>3. ASSUME NEW s \in Sessions
        PROVE  session'[s].roles[p] = saved[p]
    <3>1. session'[s].roles \in {session[s].roles, saved}
      BY <1>2 DEF Moved
    <3> QED BY <3>1 DEF InstallInv, RolesCurrent
  <2> QED BY <2>1, <2>2, <2>3
<1>4. TodoClients'
  <2> SUFFICES ASSUME NEW s \in Sessions
               PROVE  session'[s].todo \subseteq With(session'[s].roles, "HOTSPOT_LAN")
    BY DEF TodoClients
  <2>1. session'[s].todo = {} \/ (session'[s].todo \subseteq session[s].todo /\ session'[s].roles = session[s].roles)
    BY <1>2 DEF Moved
  <2> QED BY <2>1 DEF InstallInv, TodoClients
<1>5. StagedInOrder'
  <2> SUFFICES ASSUME NEW s \in Sessions, NEW i \in DOMAIN Script, i < session'[s].pc, Script[i] \in Portal
               PROVE  Script[i] \in staged' \union removed'
    BY DEF StagedInOrder
  <2>1. i \in 1 .. 16
    BY ScriptOrder
  <2>2. CASE i < session[s].pc
    BY <2>2 DEF InstallInv, StagedInOrder
  <2>3. CASE ~(i < session[s].pc)
    <3>1. session'[s].pc = session[s].pc + 1 /\ i = session[s].pc /\ session'[s] # session[s] /\ session'[s] # NoImport
      BY <1>1, <1>2, <2>1, <2>3 DEF Moved
    <3> QED BY <1>1, <3>1 DEF Moved
  <2> QED BY <2>2, <2>3
<1>6. ServedBeforeAttached'
  BY DEF InstallInv, ServedBeforeAttached
<1>7. Aloneness'
  <2> SUFFICES ASSUME NEW s \in Sessions, NEW o \in Sessions, (Running(s) \/ Complete(s))',
                      session'[s].alone, s # o
               PROVE  ~Running(o)'
    BY DEF Aloneness
  <2>1. session'[s].pc \in 1 .. 17
    BY <1>1, ScriptOrder DEF Running, Complete
  <2>2. session[s].alone /\ session[s].pc \in 1 .. 17
    BY <1>1, <1>2, <2>1, ScriptOrder DEF Moved, Running
  <2>3. ~Running(o)
    BY <2>2, ScriptOrder DEF InstallInv, Aloneness, Running, Complete
  <2> QED BY <1>2, <2>3, ScriptOrder DEF Moved, Running
<1> QED BY <1>3, <1>4, <1>5, <1>6, <1>7

\* Imports beside a running one are not alone, or they are over.
LEMMA OthersLone ==
  ASSUME InstallInv, NEW s \in Sessions, Running(s), NEW t \in Sessions, t # s,
         session'[t] = session[t], session'[t].alone
  PROVE  LonePorts(t)'
<1>1. ~Running(t) /\ ~Complete(t)
  BY DEF InstallInv, Aloneness
<1>2. session[t].pc = 0
  BY <1>1, Positions DEF InstallInv, Import
<1> QED BY <1>2 DEF LonePorts

LEMMA EndedLone ==
  ASSUME NEW t \in Sessions, session'[t] = NoImport
  PROVE  LonePorts(t)'
BY DEF LonePorts, NoImport

\* An import moves on, and the ports stay as they are.
LEMMA PastLone ==
  ASSUME InstallInv, NEW s \in Sessions, Running(s), session'[s] = [session[s] EXCEPT !.pc = @ + 1],
         session'[s].alone, UNCHANGED bridge, wanList \subseteq wanList',
         Script[session[s].pc] \notin {"free", "verify"},
         Script[session[s].pc] = "ports" => session[s].todo = {},
         Script[session[s].pc] = "wan" => With(session[s].roles, "WAN") \subseteq wanList'
  PROVE  LonePorts(s)'
<1>1. session[s] \in Import /\ session[s].pc \in 1 .. 16
  BY Positions DEF InstallInv
<1>2. session'[s].pc = session[s].pc + 1 /\ session'[s].roles = session[s].roles /\ session'[s].todo = session[s].todo
      /\ session'[s].before = session[s].before /\ session'[s].skipped = session[s].skipped
      /\ session'[s].alone = session[s].alone
  BY <1>1 DEF Import
<1>3. session[s].pc # 13 /\ session[s].pc # 16 /\ (session[s].pc = 14 => session[s].todo = {})
      /\ (session[s].pc = 1 => With(session[s].roles, "WAN") \subseteq wanList')
  BY <1>1, ScriptOrder
<1>4. LonePorts(s) /\ Attached' = Attached
  BY <1>2 DEF InstallInv, Attached
<1>5. session[s].pc = 1 \/ With(session[s].roles, "WAN") \subseteq wanList
  BY <1>1, <1>4 DEF LonePorts
<1>6. With(session'[s].roles, "WAN") \subseteq wanList'
  BY <1>2, <1>3, <1>5
<1>7. CASE session[s].pc <= 12
  <2>1. session'[s].pc \in 2 .. 13 /\ Attached = session[s].before
        /\ session[s].todo = With(session[s].roles, "HOTSPOT_LAN")
    BY <1>1, <1>2, <1>4, <1>7 DEF LonePorts
  <2> QED BY <1>2, <1>4, <1>6, <2>1 DEF LonePorts
<1>8. CASE session[s].pc >= 14
  <2>1. session[s].todo = {} /\ session'[s].pc \in 15 .. 16
    BY <1>1, <1>2, <1>3, <1>4, <1>8 DEF LonePorts
  <2>2. Attached = (session[s].before \ (With(session[s].roles, "FREE_LAN") \ session[s].skipped))
                     \union (With(session[s].roles, "HOTSPOT_LAN") \ session[s].todo)
    BY <1>1, <1>4, <1>8 DEF LonePorts
  <2> QED BY <1>2, <1>4, <1>6, <2>1, <2>2 DEF LonePorts
<1> QED BY <1>1, <1>3, <1>7, <1>8

LEMMA NoImportTyped == InstallTypes => NoImport \in Import
BY DEF InstallTypes, NoImport, Import

\* One import moves on or ends, the others stay.
LEMMA ImportSteps ==
  ASSUME InstallInv, NEW s \in Sessions, Running(s), InstallTypes', UNCHANGED <<saved, recast>>,
         \A t \in Sessions \ {s} : session'[t] = session[t],
         Moved(s), session'[s].alone => LonePorts(s)',
         staged \union removed \subseteq staged' \union removed',
         \A p \in Sockets \ recast : /\ p \in wanList' => p \in wanList \/ saved[p] = "WAN"
                                     /\ p \in Attached' => p \in Attached \/ saved[p] = "HOTSPOT_LAN",
         Attached' \subseteq Attached \/ Portal \subseteq staged \union removed
  PROVE  InstallInv'
<1>1. \A t \in Sessions : Moved(t)
  BY DEF Moved
<1>2. RolesCurrent' /\ TodoClients' /\ StagedInOrder' /\ ServedBeforeAttached' /\ Aloneness'
  BY <1>1, ImportsMove
<1>3. \A t \in Sessions : session'[t].alone => LonePorts(t)'
  BY OthersLone
<1> QED BY <1>2, <1>3 DEF InstallInv

\* An import that ends: what it did stays, and at most one port is left outside of every bridge.
LEMMA ImportEnds ==
  ASSUME InstallInv, NEW s \in Sessions, Running(s), session' = Ended(s),
         UNCHANGED <<saved, wanList, staged, removed, recast>>,
         fasttrack' \in BOOLEAN, bridge' \in [Sockets -> {"none", "bridge", "br-hotspot"}],
         Attached' \subseteq Attached
  PROVE  InstallInv'
<1>1. session \in [Sessions -> Import] /\ NoImport \in Import
  BY NoImportTyped DEF InstallInv, InstallTypes
<1>2. session'[s] = NoImport /\ \A t \in Sessions \ {s} : session'[t] = session[t]
  BY <1>1 DEF Ended
<1>3. InstallTypes'
  BY <1>1 DEF InstallInv, InstallTypes, Ended
<1>4. Moved(s) /\ LonePorts(s)'
  BY <1>2, EndedLone DEF Moved
<1> QED BY <1>2, <1>3, <1>4, ImportSteps

\* An import that moves on from a group that leaves the ports alone.
LEMMA ImportPast ==
  ASSUME InstallInv, NEW s \in Sessions, Running(s), session' = Past(s),
         UNCHANGED <<saved, bridge, recast>>,
         staged' \subseteq Upserts, fasttrack' \in BOOLEAN, wanList' \subseteq Sockets, wanList \subseteq wanList',
         staged \union removed \subseteq staged' \union removed',
         Script[session[s].pc] \in Portal => Script[session[s].pc] \in staged' \union removed',
         Script[session[s].pc] = "wan" => With(session[s].roles, "WAN") \subseteq wanList',
         \A p \in Sockets \ recast : p \in wanList' => p \in wanList \/ saved[p] = "WAN",
         Script[session[s].pc] # "free",
         Script[session[s].pc] = "ports" => session[s].todo = {},
         Script[session[s].pc] = "verify" =>
           /\ With(session[s].roles, "HOTSPOT_LAN") \subseteq Attached
           /\ Verified \subseteq staged' /\ ~fasttrack'
  PROVE  InstallInv'
<1>1. session \in [Sessions -> Import]
  BY DEF InstallInv, InstallTypes
<1>2. session[s] \in Import /\ session[s].pc \in 1 .. 16
  BY Positions DEF InstallInv
<1>3. session'[s] = [session[s] EXCEPT !.pc = @ + 1] /\ \A t \in Sessions \ {s} : session'[t] = session[t]
  BY <1>1 DEF Past
<1>4. session'[s] \in Import /\ session'[s].pc = session[s].pc + 1 /\ session'[s].roles = session[s].roles
      /\ session'[s].todo = session[s].todo /\ session'[s].before = session[s].before
      /\ session'[s].skipped = session[s].skipped /\ session'[s].alone = session[s].alone
  BY <1>2, <1>3 DEF Import
<1>5. InstallTypes'
  <2>1. session' \in [Sessions -> Import]
    BY <1>1, <1>3, <1>4 DEF Past
  <2> QED BY <2>1 DEF InstallInv, InstallTypes
<1>6. Moved(s)
  BY <1>4 DEF Moved
<1>7. Attached' = Attached
  BY DEF Attached
<1>8. ASSUME session'[s].alone
      PROVE  LonePorts(s)'
  <2>1. CASE Script[session[s].pc] # "verify"
    BY <1>3, <1>8, <2>1, PastLone
  <2>2. CASE Script[session[s].pc] = "verify"
    <3>1. session[s].pc = 16
      BY <1>2, <2>2, ScriptOrder
    <3>2. LonePorts(s)
      BY <1>4, <1>8 DEF InstallInv
    <3>3. /\ Attached = (session[s].before \ (With(session[s].roles, "FREE_LAN") \ session[s].skipped))
                          \union (With(session[s].roles, "HOTSPOT_LAN") \ session[s].todo)
          /\ session[s].todo = {} /\ With(session[s].roles, "WAN") \subseteq wanList
      BY <3>1, <3>2 DEF LonePorts
    <3> QED BY <1>4, <1>7, <2>2, <3>1, <3>3 DEF LonePorts
  <2> QED BY <2>1, <2>2
<1> QED BY <1>3, <1>5, <1>6, <1>7, <1>8, ImportSteps

LEMMA SaveRolesPreserves ==
  ASSUME InstallInv, SaveRoles
  PROVE  InstallInv'
<1>1. /\ saved' \in [Sockets -> Roles]
      /\ recast' = recast \union {p \in Sockets : saved'[p] # saved[p]}
      /\ UNCHANGED <<bridge, wanList, staged, fasttrack, session, removed>>
  BY InstallAssumption DEF SaveRoles, Renderable
<1>2. InstallTypes'
  BY <1>1 DEF InstallInv, InstallTypes
<1>3. RolesCurrent'
  BY <1>1 DEF InstallInv, RolesCurrent
<1>4. TodoClients' /\ StagedInOrder' /\ ServedBeforeAttached' /\ Aloneness'
  BY <1>1 DEF InstallInv, TodoClients, StagedInOrder, ServedBeforeAttached, Aloneness, Attached, Running, Complete
<1>5. \A s \in Sessions : session'[s].alone => LonePorts(s)'
  BY <1>1 DEF InstallInv, LonePorts, Attached
<1> QED BY <1>2, <1>3, <1>4, <1>5 DEF InstallInv

LEMMA BeginImportPreserves ==
  ASSUME InstallInv, NEW s \in Sessions, BeginImport(s)
  PROVE  InstallInv'
<1> DEFINE x == [NoImport EXCEPT !.pc = 1, !.todo = With(saved, "HOTSPOT_LAN"), !.before = Attached,
                                 !.alone = Alone(s)]
<1>1. /\ session \in [Sessions -> Import] /\ NoImport \in Import
      /\ session' = [r \in Sessions |-> IF r = s THEN x ELSE [session[r] EXCEPT !.alone = FALSE]]
      /\ UNCHANGED <<saved, bridge, wanList, staged, fasttrack, removed, recast>>
  <2>1. session \in [Sessions -> Import] /\ NoImport \in Import
    BY NoImportTyped DEF InstallInv, InstallTypes
  <2> QED BY <2>1 DEF BeginImport
<1>2. With(saved, "HOTSPOT_LAN") \subseteq Sockets /\ Attached \subseteq Sockets /\ Alone(s) \in BOOLEAN
  BY DEF With, Attached, Alone
<1>3. x \in Import /\ x.pc = 1 /\ x.todo = With(saved, "HOTSPOT_LAN") /\ x.before = Attached /\ x.roles = saved
      /\ x.alone = Alone(s)
  <2>1. NoImport.roles = saved
    BY DEF NoImport
  <2>2. PICK t \in SUBSET Sockets, b \in SUBSET Sockets, a \in BOOLEAN :
          t = With(saved, "HOTSPOT_LAN") /\ b = Attached /\ a = Alone(s)
    BY <1>2
  <2>3. x = [NoImport EXCEPT !.pc = 1, !.todo = t, !.before = b, !.alone = a]
    BY <2>2
  <2>4. NoImport \in Import
    BY <1>1
  <2> HIDE DEF x
  <2>5. x.pc = 1 /\ x.todo = t /\ x.before = b /\ x.roles = NoImport.roles /\ x.alone = a
    BY <2>3, <2>4 DEF Import
  <2>6. 1 \in 0 .. 17
    OBVIOUS
  <2>7. x \in Import
    BY <2>3, <2>4, <2>6 DEF Import
  <2> QED BY <2>1, <2>2, <2>5, <2>7
<1> HIDE DEF x
<1>4. /\ session'[s] = x
      /\ \A t \in Sessions \ {s} : /\ session'[t] \in Import /\ session'[t].alone = FALSE
                                   /\ session'[t].pc = session[t].pc /\ session'[t].roles = session[t].roles
                                   /\ session'[t].todo = session[t].todo
  BY <1>1 DEF Import
<1>5. session' \in [Sessions -> Import]
  BY <1>1, <1>3, <1>4
<1>6. InstallTypes'
  BY <1>1, <1>5 DEF InstallInv, InstallTypes
<1>7. RolesCurrent'
  BY <1>1, <1>3, <1>4 DEF InstallInv, RolesCurrent
<1>8. TodoClients'
  BY <1>1, <1>3, <1>4 DEF InstallInv, TodoClients
<1>9. StagedInOrder'
  <2> SUFFICES ASSUME NEW t \in Sessions, NEW i \in DOMAIN Script, i < session'[t].pc, Script[i] \in Portal
               PROVE  Script[i] \in staged' \union removed'
    BY DEF StagedInOrder
  <2>1. t # s
    BY <1>3, <1>4, ScriptOrder
  <2> QED BY <1>1, <1>4, <2>1 DEF InstallInv, StagedInOrder
<1>10. ServedBeforeAttached'
  BY <1>1 DEF InstallInv, ServedBeforeAttached, Attached
<1>11. Aloneness'
  BY <1>3, <1>4 DEF Aloneness, Running, Alone
<1>12. \A t \in Sessions : session'[t].alone => LonePorts(t)'
  <2>1. LonePorts(s)'
    BY <1>1, <1>3, <1>4 DEF LonePorts, Attached
  <2> QED BY <1>4, <2>1
<1> QED BY <1>6, <1>7, <1>8, <1>9, <1>10, <1>11, <1>12 DEF InstallInv

\* What ImportEnds and ImportPast ask of what a step leaves unchanged.
LEMMA InstallValues ==
  ASSUME InstallInv
  PROVE  /\ staged \subseteq Upserts /\ wanList \subseteq Sockets /\ fasttrack \in BOOLEAN
         /\ bridge \in [Sockets -> {"none", "bridge", "br-hotspot"}]
BY DEF InstallInv, InstallTypes

\* The group a running import is at.
LEMMA AtGroup ==
  ASSUME InstallInv, NEW s \in Sessions, Running(s)
  PROVE  /\ session[s] \in Import /\ session[s].pc \in 1 .. 16
         /\ Script[session[s].pc] \in Portal => Script[session[s].pc] \in Upserts
BY Positions DEF InstallInv, Portal

LEMMA StagePreserves ==
  ASSUME InstallInv, NEW s \in Sessions, Stage(s)
  PROVE  InstallInv'
<1>1. PICK x \in Upserts : x = Script[session[s].pc]
  BY DEF Stage
<1>2. Running(s) /\ UNCHANGED <<saved, bridge, wanList, fasttrack, recast>>
  BY DEF Stage
<1>3. x \notin {"wan", "free", "ports", "verify"}
  BY DEF Upserts
<1>4. CASE ~(Needs(x) \subseteq staged)
  <2>1. session' = Ended(s) /\ UNCHANGED <<staged, removed>>
    BY <1>1, <1>4 DEF Stage
  <2> QED BY <1>2, <2>1, InstallValues, ImportEnds DEF Attached
<1>5. CASE Needs(x) \subseteq staged
  <2>1. staged' = staged \union {x} /\ removed' = removed \ {x} /\ session' = Past(s)
    BY <1>1, <1>5 DEF Stage
  <2>2. staged' \subseteq Upserts /\ staged \union removed \subseteq staged' \union removed' /\ x \in staged'
    BY <2>1, InstallValues
  <2> QED BY <1>1, <1>2, <1>3, <2>1, <2>2, InstallValues, ImportPast
<1> QED BY <1>4, <1>5

LEMMA JoinWanPreserves ==
  ASSUME InstallInv, NEW s \in Sessions, JoinWan(s)
  PROVE  InstallInv'
<1>1. /\ Running(s) /\ Script[session[s].pc] = "wan" /\ session' = Past(s)
      /\ wanList' = wanList \union With(session[s].roles, "WAN")
      /\ UNCHANGED <<saved, bridge, staged, fasttrack, removed, recast>>
  BY DEF JoinWan, Doing
<1>2. "wan" \notin Portal
  BY DEF Portal, Upserts
<1>3. wanList' \subseteq Sockets
  BY <1>1, InstallValues DEF With
<1>4. \A p \in Sockets \ recast : p \in wanList' => p \in wanList \/ saved[p] = "WAN"
  BY <1>1 DEF InstallInv, RolesCurrent, With
<1> QED BY <1>1, <1>2, <1>3, <1>4, InstallValues, ImportPast

LEMMA CheckDeviceModePreserves ==
  ASSUME InstallInv, NEW s \in Sessions, CheckDeviceMode(s)
  PROVE  InstallInv'
<1>1. /\ Running(s) /\ Script[session[s].pc] = "mode" /\ session' \in {Past(s), Ended(s)}
      /\ UNCHANGED <<saved, bridge, wanList, staged, fasttrack, removed, recast>>
  BY DEF CheckDeviceMode, Doing
<1>2. "mode" \notin Portal
  BY DEF Portal, Upserts
<1>3. CASE session' = Ended(s)
  BY <1>1, <1>3, InstallValues, ImportEnds DEF Attached
<1>4. CASE session' = Past(s)
  BY <1>1, <1>2, <1>4, InstallValues, ImportPast
<1> QED BY <1>1, <1>3, <1>4

LEMMA DisableFastTrackPreserves ==
  ASSUME InstallInv, NEW s \in Sessions, DisableFastTrack(s)
  PROVE  InstallInv'
<1>1. /\ Running(s) /\ Script[session[s].pc] = "shaping" /\ session' = Past(s) /\ fasttrack' = FALSE
      /\ UNCHANGED <<saved, bridge, wanList, staged, removed, recast>>
  BY DEF DisableFastTrack, Doing
<1>2. "shaping" \notin Portal
  BY DEF Portal, Upserts
<1> QED BY <1>1, <1>2, InstallValues, ImportPast

\* Taking out the ports of the free network: of an import that runs alone, nothing else left the bridge.
LEMMA FreePortsPreserves ==
  ASSUME InstallInv, NEW s \in Sessions, NEW kept \in SUBSET Sockets, FreePorts(s, kept)
  PROVE  InstallInv'
<1> DEFINE free == With(session[s].roles, "FREE_LAN")
<1>1. /\ Running(s) /\ Script[session[s].pc] = "free"
      /\ kept \subseteq free \intersect Attached
      /\ bridge' = [p \in Sockets |-> IF p \in (free \intersect Attached) \ kept THEN "none" ELSE bridge[p]]
      /\ session' = [session EXCEPT ![s].pc = @ + 1, ![s].skipped = kept]
      /\ UNCHANGED <<saved, wanList, staged, fasttrack, removed, recast>>
  BY DEF FreePorts, Doing
<1> HIDE DEF free
<1>2. session \in [Sessions -> Import] /\ session[s] \in Import /\ session[s].pc = 13
  BY <1>1, AtGroup, ScriptOrder DEF InstallInv, InstallTypes
<1>3. /\ session' \in [Sessions -> Import] /\ session'[s].pc = 14 /\ session'[s].skipped = kept
      /\ session'[s].roles = session[s].roles /\ session'[s].todo = session[s].todo
      /\ session'[s].before = session[s].before /\ session'[s].alone = session[s].alone
      /\ \A t \in Sessions \ {s} : session'[t] = session[t]
  <2> DEFINE x == [session[s] EXCEPT !.pc = 14, !.skipped = kept]
  <2>1. session' = [session EXCEPT ![s] = x]
    <3>1. session' = [session EXCEPT ![s] = [session[s] EXCEPT !.pc = session[s].pc + 1, !.skipped = kept]]
      BY <1>1, <1>2 DEF Import
    <3>2. session[s].pc + 1 = 14
      BY <1>2
    <3> QED BY <3>1, <3>2
  <2>2. 14 \in 0 .. 17
    OBVIOUS
  <2>3. /\ x.pc = 14 /\ x.skipped = kept /\ x.roles = session[s].roles /\ x.todo = session[s].todo
        /\ x.before = session[s].before /\ x.alone = session[s].alone
    BY <1>2 DEF Import
  <2>4. x \in Import
    BY <1>2, <2>2 DEF Import
  <2> HIDE DEF x
  <2> QED BY <1>2, <2>1, <2>3, <2>4
<1>4. bridge' \in [Sockets -> {"none", "bridge", "br-hotspot"}] /\ Attached' = Attached \ (free \ kept)
  BY <1>1, InstallValues DEF Attached
<1>5. InstallTypes'
  BY <1>1, <1>3, <1>4 DEF InstallInv, InstallTypes
<1>6. Moved(s)
  <2>1. "free" \notin Portal
    BY DEF Portal, Upserts
  <2> QED BY <1>1, <1>2, <1>3, <2>1 DEF Moved
<1>7. ASSUME session'[s].alone
      PROVE  LonePorts(s)'
  <2>1. LonePorts(s)
    BY <1>3, <1>7 DEF InstallInv
  <2>2. /\ Attached = session[s].before /\ session[s].todo = With(session[s].roles, "HOTSPOT_LAN")
        /\ With(session[s].roles, "WAN") \subseteq wanList
    BY <1>2, <2>1 DEF LonePorts
  <2>3. Attached' = session'[s].before \ (With(session'[s].roles, "FREE_LAN") \ session'[s].skipped)
    BY <1>3, <1>4, <2>2 DEF free
  <2> QED BY <1>1, <1>3, <2>2, <2>3 DEF LonePorts
<1> QED BY <1>1, <1>3, <1>4, <1>5, <1>6, <1>7, ImportSteps

\* Attaching a port: everything that serves it was staged before.
LEMMA AttachPortPreserves ==
  ASSUME InstallInv, NEW s \in Sessions, NEW p \in Sockets, AttachPort(s, p)
  PROVE  InstallInv'
<1>1. /\ Running(s) /\ Script[session[s].pc] = "ports" /\ p \in session[s].todo
      /\ bridge' = [bridge EXCEPT ![p] = IF "bridge" \in staged THEN "br-hotspot" ELSE "none"]
      /\ session' = IF bridge'[p] = "none" THEN Ended(s) ELSE [session EXCEPT ![s].todo = @ \ {p}]
      /\ UNCHANGED <<saved, wanList, staged, fasttrack, removed, recast>>
  BY DEF AttachPort, Doing
<1>2. session \in [Sessions -> Import] /\ session[s] \in Import /\ session[s].pc = 14
  BY <1>1, AtGroup, ScriptOrder DEF InstallInv, InstallTypes
<1>3. p \in With(session[s].roles, "HOTSPOT_LAN")
  BY <1>1 DEF InstallInv, TodoClients
<1>4. CASE "bridge" \notin staged
  <2>1. bridge' = [bridge EXCEPT ![p] = "none"] /\ session' = Ended(s)
    BY <1>1, <1>4, InstallValues
  <2>2. bridge' \in [Sockets -> {"none", "bridge", "br-hotspot"}] /\ Attached' \subseteq Attached
    BY <2>1, InstallValues DEF Attached
  <2> QED BY <1>1, <2>1, <2>2, InstallValues, ImportEnds
<1>5. CASE "bridge" \in staged
  <2>1. bridge' = [bridge EXCEPT ![p] = "br-hotspot"] /\ session' = [session EXCEPT ![s].todo = @ \ {p}]
    BY <1>1, <1>5, InstallValues
  <2>2. bridge' \in [Sockets -> {"none", "bridge", "br-hotspot"}] /\ Attached' = Attached \union {p}
    BY <2>1, InstallValues DEF Attached
  <2>3. /\ session' \in [Sessions -> Import] /\ session'[s].pc = 14 /\ session'[s].skipped = session[s].skipped
        /\ session'[s].roles = session[s].roles /\ session'[s].todo = session[s].todo \ {p}
        /\ session'[s].before = session[s].before /\ session'[s].alone = session[s].alone
        /\ \A t \in Sessions \ {s} : session'[t] = session[t]
    BY <1>2, <2>1 DEF Import
  <2>4. InstallTypes'
    BY <1>1, <2>2, <2>3 DEF InstallInv, InstallTypes
  <2>5. Moved(s)
    BY <1>1, <1>2, <2>3 DEF Moved
  <2>6. Portal \subseteq staged \union removed
    <3> SUFFICES ASSUME NEW x \in Portal
                 PROVE  x \in staged \union removed
      OBVIOUS
    <3>1. PICK i \in 2 .. 12 : Script[i] = x
      BY ScriptOrder
    <3>2. i \in DOMAIN Script /\ i < session[s].pc
      BY <1>2, <3>1, ScriptOrder
    <3> QED BY <3>1, <3>2 DEF InstallInv, StagedInOrder
  <2>7. p \notin recast => saved[p] = "HOTSPOT_LAN"
    BY <1>3 DEF InstallInv, RolesCurrent, With
  <2>8. ASSUME session'[s].alone
        PROVE  LonePorts(s)'
    <3>1. LonePorts(s)
      BY <2>3, <2>8 DEF InstallInv
    <3>2. /\ Attached = (session[s].before \ (With(session[s].roles, "FREE_LAN") \ session[s].skipped))
                          \union (With(session[s].roles, "HOTSPOT_LAN") \ session[s].todo)
          /\ With(session[s].roles, "WAN") \subseteq wanList
      BY <1>2, <3>1 DEF LonePorts
    <3>3. Attached' = (session'[s].before \ (With(session'[s].roles, "FREE_LAN") \ session'[s].skipped))
                        \union (With(session'[s].roles, "HOTSPOT_LAN") \ session'[s].todo)
      BY <1>1, <1>3, <2>2, <2>3, <3>2
    <3> QED BY <1>1, <2>3, <3>2, <3>3 DEF LonePorts
  <2> QED BY <1>1, <2>2, <2>3, <2>4, <2>5, <2>6, <2>7, <2>8, ImportSteps
<1> QED BY <1>4, <1>5

LEMMA PortsAttachedPreserves ==
  ASSUME InstallInv, NEW s \in Sessions, PortsAttached(s)
  PROVE  InstallInv'
<1>1. /\ Running(s) /\ Script[session[s].pc] = "ports" /\ session[s].todo = {} /\ session' = Past(s)
      /\ UNCHANGED <<saved, bridge, wanList, staged, fasttrack, removed, recast>>
  BY DEF PortsAttached, Doing
<1>2. "ports" \notin Portal
  BY DEF Portal, Upserts
<1> QED BY <1>1, <1>2, InstallValues, ImportPast

LEMMA ActivatePreserves ==
  ASSUME InstallInv, NEW s \in Sessions, Activate(s)
  PROVE  InstallInv'
<1>1. /\ Running(s) /\ Script[session[s].pc] = "activate" /\ session' \in {Past(s), Ended(s)}
      /\ UNCHANGED <<saved, bridge, wanList, staged, fasttrack, removed, recast>>
  BY DEF Activate, Doing
<1>2. "activate" \notin Portal
  BY DEF Portal, Upserts
<1>3. CASE session' = Ended(s)
  BY <1>1, <1>3, InstallValues, ImportEnds DEF Attached
<1>4. CASE session' = Past(s)
  BY <1>1, <1>2, <1>4, InstallValues, ImportPast
<1> QED BY <1>1, <1>3, <1>4

LEMMA VerifyPreserves ==
  ASSUME InstallInv, NEW s \in Sessions, Verify(s)
  PROVE  InstallInv'
<1> DEFINE passed == /\ Verified \subseteq staged
                     /\ With(session[s].roles, "HOTSPOT_LAN") \subseteq Attached
                     /\ ~fasttrack
<1>1. /\ Running(s) /\ Script[session[s].pc] = "verify"
      /\ UNCHANGED <<saved, bridge, wanList, staged, fasttrack, removed, recast>>
  BY DEF Verify, Doing
<1>2. "verify" \notin Portal
  BY DEF Portal, Upserts
<1>3. CASE ~passed
  <2>1. session' = Ended(s)
    BY <1>3 DEF Verify
  <2> QED BY <1>1, <2>1, InstallValues, ImportEnds DEF Attached
<1>4. CASE passed
  <2>1. session' = Past(s)
    BY <1>4 DEF Verify
  <2> QED BY <1>1, <1>2, <1>4, <2>1, InstallValues, ImportPast
<1> QED BY <1>3, <1>4

LEMMA SkipPagesPreserves ==
  ASSUME InstallInv, NEW s \in Sessions, SkipPages(s)
  PROVE  InstallInv'
<1>1. /\ Running(s) /\ Script[session[s].pc] = "pages" /\ session' = Past(s)
      /\ UNCHANGED <<saved, bridge, wanList, staged, fasttrack, removed, recast>>
  BY DEF SkipPages, Doing
<1>2. "pages" \notin Portal
  BY DEF Portal
<1> QED BY <1>1, <1>2, InstallValues, ImportPast

LEMMA CommandFailsPreserves ==
  ASSUME InstallInv, NEW s \in Sessions, CommandFails(s)
  PROVE  InstallInv'
<1>1. /\ Running(s) /\ session' = Ended(s)
      /\ UNCHANGED <<saved, wanList, staged, fasttrack, removed, recast>>
  BY DEF CommandFails
<1>2. bridge' = bridge \/ \E p \in Sockets : bridge' = [bridge EXCEPT ![p] = "none"]
  <2>1. \A p : p \in (IF Doing(s, "ports") THEN session[s].todo \ Attached ELSE {}) => p \in Sockets
    BY <1>1, AtGroup DEF Import
  <2> QED BY <2>1 DEF CommandFails
<1>3. bridge' \in [Sockets -> {"none", "bridge", "br-hotspot"}] /\ Attached' \subseteq Attached
  BY <1>2, InstallValues DEF Attached
<1> QED BY <1>1, <1>3, InstallValues, ImportEnds

\* A reboot ends the running imports, other hands the report of the complete ones.
LEMMA ImportsEnd ==
  ASSUME InstallInv, session' \in [Sessions -> Import],
         \A s \in Sessions : session'[s] = NoImport \/ (session'[s] = session[s] /\ ~Complete(s))
                               \/ (session'[s] = session[s] /\ UNCHANGED <<staged, fasttrack>>),
         UNCHANGED <<saved, bridge, wanList, recast>>,
         staged' \subseteq Upserts, fasttrack' \in BOOLEAN,
         staged \union removed \subseteq staged' \union removed'
  PROVE  InstallInv'
<1>1. InstallTypes'
  BY DEF InstallInv, InstallTypes
<1>2. \A s \in Sessions : Moved(s)
  BY DEF Moved
<1>3. Attached' = Attached
  BY DEF Attached
<1>4. RolesCurrent' /\ TodoClients' /\ StagedInOrder' /\ ServedBeforeAttached' /\ Aloneness'
  BY <1>1, <1>2, <1>3, ImportsMove
<1>5. ASSUME NEW s \in Sessions, session'[s].alone
      PROVE  LonePorts(s)'
  <2>1. CASE session'[s] = NoImport
    BY <2>1, EndedLone
  <2>2. CASE session'[s] = session[s] /\ ~Complete(s)
    <3>1. session[s].pc # 17 /\ LonePorts(s)
      BY <1>5, <2>2, Positions DEF InstallInv
    <3> QED BY <1>3, <2>2, <3>1 DEF LonePorts
  <2>3. CASE session'[s] = session[s] /\ UNCHANGED <<staged, fasttrack>>
    BY <1>3, <1>5, <2>3 DEF InstallInv, LonePorts
  <2> QED BY <2>1, <2>2, <2>3
<1> QED BY <1>1, <1>4, <1>5 DEF InstallInv

LEMMA RebootPreserves ==
  ASSUME InstallInv, Reboot
  PROVE  InstallInv'
<1>1. session \in [Sessions -> Import] /\ NoImport \in Import
  BY NoImportTyped DEF InstallInv, InstallTypes
<1>2. /\ session' = [s \in Sessions |-> IF Running(s) THEN NoImport ELSE session[s]]
      /\ UNCHANGED <<saved, bridge, wanList, staged, fasttrack, removed, recast>>
  BY DEF Reboot
<1> QED BY <1>1, <1>2, InstallValues, ImportsEnd

LEMMA OtherHandsPreserves ==
  ASSUME InstallInv, OtherHands
  PROVE  InstallInv'
<1>1. session \in [Sessions -> Import] /\ NoImport \in Import
  BY NoImportTyped DEF InstallInv, InstallTypes
<1>2. /\ session' = [s \in Sessions |-> IF Complete(s) THEN NoImport ELSE session[s]]
      /\ UNCHANGED <<saved, bridge, wanList, recast>>
  BY DEF OtherHands
<1>3. \A s \in Sessions : session'[s] = NoImport \/ (session'[s] = session[s] /\ ~Complete(s))
  BY <1>2
<1>4. session' \in [Sessions -> Import]
  BY <1>1, <1>2
<1>5. staged' \subseteq Upserts /\ fasttrack' \in BOOLEAN /\ staged \union removed \subseteq staged' \union removed'
  BY InstallValues DEF OtherHands
<1> QED BY <1>2, <1>3, <1>4, <1>5, ImportsEnd

LEMMA InstallInitially == InstallInit => InstallInv
<1> SUFFICES ASSUME InstallInit
             PROVE  InstallInv
  OBVIOUS
<1>1. saved \in [Sockets -> Roles]
  BY InstallAssumption DEF InstallInit, Renderable
<1>2. PICK factory \in BOOLEAN :
        /\ bridge = [p \in Sockets |-> IF factory /\ saved[p] # "WAN" THEN "bridge" ELSE "none"]
        /\ wanList = IF factory THEN With(saved, "WAN") ELSE {}
        /\ fasttrack = factory
  BY DEF InstallInit
<1>3. NoImport \in Import /\ NoImport.pc = 0 /\ NoImport.todo = {} /\ NoImport.roles = saved
  BY <1>1 DEF NoImport, Import
<1>4. session = [s \in Sessions |-> NoImport] /\ recast = {} /\ staged = {}
  BY DEF InstallInit
<1>5. InstallTypes
  <2>1. session \in [Sessions -> Import]
    BY <1>3, <1>4
  <2>2. bridge \in [Sockets -> {"none", "bridge", "br-hotspot"}] /\ fasttrack \in BOOLEAN
    BY <1>2
  <2>3. wanList \subseteq Sockets
    BY <1>2 DEF With
  <2> QED BY <1>1, <1>4, <2>1, <2>2, <2>3 DEF InstallTypes
<1>6. Attached = {}
  BY <1>2 DEF Attached
<1>7. RolesCurrent
  BY <1>2, <1>3, <1>4 DEF RolesCurrent, With
<1>8. TodoClients /\ ServedBeforeAttached
  BY <1>3, <1>4, <1>6 DEF TodoClients, ServedBeforeAttached
<1>9. StagedInOrder
  BY <1>3, <1>4, ScriptOrder DEF StagedInOrder
<1>10. Aloneness
  BY <1>3, <1>4, ScriptOrder DEF Aloneness, Running, Complete
<1>11. \A s \in Sessions : LonePorts(s)
  BY <1>3, <1>4 DEF LonePorts
<1> QED BY <1>5, <1>7, <1>8, <1>9, <1>10, <1>11 DEF InstallInv

LEMMA InstallStill ==
  ASSUME InstallInv, UNCHANGED installVars
  PROVE  InstallInv'
<1>1. InstallTypes' /\ (\A s \in Sessions : Moved(s)) /\ Attached' = Attached
  BY DEF InstallInv, InstallTypes, installVars, Moved, Attached
<1>2. session' \in [Sessions -> Import]
  BY DEF InstallInv, InstallTypes, installVars
<1> QED BY <1>2, InstallValues, ImportsEnd DEF installVars

LEMMA InstallPreserved == InstallInv /\ [InstallNext]_installVars => InstallInv'
<1> SUFFICES ASSUME InstallInv, [InstallNext]_installVars
             PROVE  InstallInv'
  OBVIOUS
<1>1. CASE UNCHANGED installVars
  BY <1>1, InstallStill
<1>2. CASE SaveRoles \/ Reboot \/ OtherHands
  BY <1>2, SaveRolesPreserves, RebootPreserves, OtherHandsPreserves
<1>3. ASSUME NEW s \in Sessions, ImportStep(s)
      PROVE  InstallInv'
  <2>1. CASE BeginImport(s) \/ Stage(s) \/ JoinWan(s) \/ CheckDeviceMode(s) \/ DisableFastTrack(s)
    BY <2>1, BeginImportPreserves, StagePreserves, JoinWanPreserves, CheckDeviceModePreserves,
       DisableFastTrackPreserves
  <2>2. CASE (\E kept \in SUBSET Sockets : FreePorts(s, kept)) \/ \E p \in Sockets : AttachPort(s, p)
    BY <2>2, FreePortsPreserves, AttachPortPreserves
  <2>3. CASE PortsAttached(s) \/ Activate(s) \/ Verify(s) \/ SkipPages(s) \/ CommandFails(s)
    BY <2>3, PortsAttachedPreserves, ActivatePreserves, VerifyPreserves, SkipPagesPreserves,
       CommandFailsPreserves
  <2> QED BY <1>3, <2>1, <2>2, <2>3 DEF ImportStep
<1> QED BY <1>1, <1>2, <1>3 DEF InstallNext

\* However imports of the script fail, repeat and overlap: a port of clients is attached only once
\* what serves it is there, an import that reports success did what its roles say, and a port is on
\* both sides of the NAT only if its role was changed.
THEOREM Install == InstallSpec => []InstallSound
<1>1. InstallInit => InstallInv
  BY InstallInitially
<1>2. InstallInv /\ [InstallNext]_installVars => InstallInv'
  BY InstallPreserved
<1>3. InstallInv => InstallSound
  <2> SUFFICES ASSUME InstallInv
               PROVE  InstallSound
    OBVIOUS
  <2>1. Attached # {} => Portal \subseteq staged \union removed
    BY DEF InstallInv, ServedBeforeAttached
  <2>2. ASSUME NEW s \in Sessions, Complete(s), session[s].alone
        PROVE  /\ Attached = With(session[s].roles, "HOTSPOT_LAN")
                               \union (session[s].before \ (With(session[s].roles, "FREE_LAN") \ session[s].skipped))
               /\ Verified \subseteq staged /\ ~fasttrack
               /\ With(session[s].roles, "WAN") \subseteq wanList
    <3>1. session[s].pc = 17 /\ LonePorts(s)
      BY <2>2, Positions DEF InstallInv
    <3> QED BY <3>1 DEF LonePorts
  <2>3. Attached \intersect wanList \subseteq recast
    BY DEF InstallInv, RolesCurrent, Attached
  <2> QED BY <2>1, <2>2, <2>3 DEF InstallSound
<1> QED BY <1>1, <1>2, <1>3, PTL DEF InstallSpec

-----------------------------------------------------------------------------
(* The relays and the firewall of the VPS.                                 *)

Goals == [PublicPorts -> RelayTargets \union {NoTarget}]

Pass == [pc : {"wait", "relays", "list", "delete", "done"}, want : Goals, todo : SUBSET PublicPorts,
         numbers : SUBSET Nat, missing : SUBSET PublicPorts]

RelayTypes ==
  /\ targets \in Goals
  /\ relays \in Goals
  /\ rules \in Seq(PublicPorts \union {Foreign})
  /\ dual \in BOOLEAN
  /\ pass \in Pass
  /\ foreign \in Nat
  /\ shifted \in BOOLEAN

ForeignAt == {n \in DOMAIN rules : rules[n] = Foreign}

\* The ports of the rules, but for those about to be deleted.
OpenBut(N) == {rules[n] : n \in DOMAIN rules \ N} \ {Foreign}

ForeignKept == ~shifted => Cardinality(ForeignAt) = foreign

\* The relays of the ports that were looked at are those wanted.
RelaysSoFar ==
  /\ pass.todo \subseteq Wanted(pass.want)
  /\ pass.pc = "relays" => \A p \in Wanted(pass.want) \ pass.todo : relays[p] = pass.want[p]
  /\ pass.pc \in {"list", "delete", "done"} => relays = pass.want

\* What is left after the deletions, with what is still to be allowed, is what was wanted.
RulesSoFar ==
  /\ pass.pc # "delete" => pass.numbers = {}
  /\ ~shifted /\ pass.pc = "delete" =>
       /\ pass.numbers \subseteq DOMAIN rules
       /\ \A n \in pass.numbers : rules[n] # Foreign
       /\ OpenBut(pass.numbers) \union pass.missing = Wanted(pass.want)
  /\ ~shifted /\ pass.pc = "done" => OpenBut({}) = Wanted(pass.want)

RelayInv == RelayTypes /\ ForeignKept /\ RelaysSoFar /\ RulesSoFar

\* A set of natural numbers has a least member.
LEMMA LeastNumber ==
  ASSUME NEW T \in SUBSET Nat, T # {}
  PROVE  \E m \in T : \A n \in T : m <= n
<1>1. PICK t \in T : TRUE
  OBVIOUS
<1> DEFINE S == 0 .. t
           Z == {0 .. n : n \in {m \in T : m <= t}}
<1>2. IsFiniteSet(S)
  BY FS_Interval
<1>3. Z \subseteq SUBSET S /\ Z # {}
  <2>1. \A n \in Nat : n <= t => 0 .. n \subseteq 0 .. t
    OBVIOUS
  <2>2. t \in {m \in T : m <= t}
    OBVIOUS
  <2> QED BY <2>1, <2>2
<1>4. IsWellFoundedOn(StrictSubsetOrdering(S), SUBSET S)
  BY <1>2, FS_FiniteSubsetsOfFinite, FS_StrictSubsetOrderingWellFounded
<1> HIDE DEF S, Z
<1>5. PICK x \in Z : \A y \in Z : ~ (<<y, x>> \in StrictSubsetOrdering(S))
  BY <1>3, <1>4, WFMin
<1>6. PICK m \in T : m <= t /\ x = 0 .. m
  BY <1>5 DEF Z
<1>7. ASSUME NEW n \in T, n < m PROVE FALSE
  <2>1. 0 .. n \in Z
    BY <1>1, <1>6, <1>7 DEF Z
  <2>2. 0 .. n \subseteq 0 .. m /\ 0 .. n # 0 .. m
    BY <1>7
  <2>3. <<0 .. n, x>> \in StrictSubsetOrdering(S)
    BY <1>3, <1>6, <2>1, <2>2 DEF StrictSubsetOrdering
  <2> QED BY <1>5, <2>1, <2>3
<1> QED BY <1>7

LEMMA SameSize ==
  ASSUME NEW S, NEW T, IsFiniteSet(S), NEW f \in [S -> T],
         \A x, y \in S : f[x] = f[y] => x = y,
         \A z \in T : \E x \in S : f[x] = z
  PROVE  IsFiniteSet(T) /\ Cardinality(T) = Cardinality(S)
<1>1. f \in Bijection(S, T)
  BY DEF Bijection, Injection, Surjection, IsInjective
<1>2. ExistsBijection(S, T)
  BY <1>1 DEF ExistsBijection
<1> QED BY <1>2, FS_Bijection

LEMMA RemoveAtProperties ==
  ASSUME NEW S, NEW s \in Seq(S), NEW i \in 1 .. Len(s)
  PROVE  /\ RemoveAt(s, i) \in Seq(S)
         /\ Len(RemoveAt(s, i)) = Len(s) - 1
         /\ \A j \in 1 .. Len(s) - 1 : RemoveAt(s, i)[j] = IF j < i THEN s[j] ELSE s[j + 1]
<1> DEFINE a == SubSeq(s, 1, i - 1)
           b == SubSeq(s, i + 1, Len(s))
<1>1. a \in Seq(S) /\ Len(a) = i - 1 /\ \A j \in 1 .. i - 1 : a[j] = s[j]
  BY SubSeqProperties
<1>2. b \in Seq(S) /\ Len(b) = Len(s) - i /\ \A j \in 1 .. Len(s) - i : b[j] = s[i + j]
  <2>1. i + 1 \in Int /\ Len(s) \in Int /\ \A j \in i + 1 .. Len(s) : s[j] \in S
    OBVIOUS
  <2>2. /\ b \in Seq(S) /\ Len(b) = IF i + 1 <= Len(s) THEN Len(s) - (i + 1) + 1 ELSE 0
        /\ \A j \in 1 .. Len(s) - (i + 1) + 1 : b[j] = s[i + 1 + j - 1]
    BY <2>1, SubSeqProperties
  <2> HIDE DEF b
  <2> QED BY <2>2
<1> HIDE DEF a, b
<1>3. /\ a \o b \in Seq(S)
      /\ Len(a \o b) = Len(s) - 1
      /\ \A j \in 1 .. Len(s) - 1 : (a \o b)[j] = IF j < i THEN s[j] ELSE s[j + 1]
  <2>1. /\ a \o b \in Seq(S)
        /\ Len(a \o b) = Len(a) + Len(b)
        /\ \A j \in 1 .. Len(a) + Len(b) : (a \o b)[j] = IF j <= Len(a) THEN a[j] ELSE b[j - Len(a)]
    BY <1>1, <1>2, ConcatProperties
  <2>2. Len(s) \in Nat
    OBVIOUS
  <2>3. ASSUME NEW j \in 1 .. Len(s) - 1
        PROVE  (a \o b)[j] = IF j < i THEN s[j] ELSE s[j + 1]
    <3>1. j \in 1 .. Len(a) + Len(b)
      BY <1>1, <1>2, <2>2
    <3>2. CASE j < i
      BY <1>1, <2>1, <3>1, <3>2
    <3>3. CASE ~(j < i)
      <4>1. j - Len(a) \in 1 .. Len(s) - i /\ i + (j - Len(a)) = j + 1 /\ ~(j <= Len(a))
        BY <1>1, <2>2, <3>3
      <4> QED BY <1>2, <2>1, <3>1, <3>3, <4>1
    <3> QED BY <3>2, <3>3
  <2>4. Len(a \o b) = Len(s) - 1
    BY <1>1, <1>2, <2>1, <2>2
  <2> QED BY <2>1, <2>3, <2>4
<1> QED BY <1>3 DEF RemoveAt, a, b

\* t is s with e at position i, and with e at both ends.
Inserted(t, s, i, e) ==
  /\ Len(t) = Len(s) + 1
  /\ \A j \in 1 .. Len(s) + 1 : t[j] = IF j < i THEN s[j] ELSE IF j = i THEN e ELSE s[j - 1]

Enclosed(t, s, e) ==
  /\ Len(t) = Len(s) + 2
  /\ \A j \in 1 .. Len(s) + 2 : t[j] = IF j = 1 \/ j = Len(s) + 2 THEN e ELSE s[j - 1]

LEMMA InsertAtProperties ==
  ASSUME NEW S, NEW s \in Seq(S), NEW i \in 1 .. Len(s) + 1, NEW e \in S
  PROVE  InsertAt(s, i, e) \in Seq(S) /\ Inserted(InsertAt(s, i, e), s, i, e)
<1> DEFINE a == SubSeq(s, 1, i - 1)
           b == SubSeq(s, i, Len(s))
           c == a \o <<e>>
<1>1. a \in Seq(S) /\ Len(a) = i - 1 /\ \A j \in 1 .. i - 1 : a[j] = s[j]
  BY SubSeqProperties
<1>2. b \in Seq(S) /\ Len(b) = Len(s) - i + 1 /\ \A j \in 1 .. Len(s) - i + 1 : b[j] = s[i + j - 1]
  BY SubSeqProperties
<1> HIDE DEF a, b
<1>3. c \in Seq(S) /\ Len(c) = i /\ c[i] = e /\ \A j \in 1 .. i - 1 : c[j] = s[j]
  <2>1. <<e>> \in Seq(S) /\ Len(<<e>>) = 1 /\ <<e>>[1] = e
    OBVIOUS
  <2> QED BY <1>1, <2>1, ConcatProperties
<1> HIDE DEF c
<1>4. /\ c \o b \in Seq(S)
      /\ Len(c \o b) = Len(s) + 1
      /\ \A j \in 1 .. Len(s) + 1 : (c \o b)[j] = IF j < i THEN s[j] ELSE IF j = i THEN e ELSE s[j - 1]
  BY <1>2, <1>3, ConcatProperties
<1>5. InsertAt(s, i, e) = c \o b
  BY DEF InsertAt, a, b, c
<1> QED BY <1>4, <1>5 DEF Inserted

\* A rule before the IPv4 rules and one behind the IPv6 rules.
LEMMA AroundProperties ==
  ASSUME NEW S, NEW s \in Seq(S), NEW e \in S
  PROVE  <<e>> \o s \o <<e>> \in Seq(S) /\ Enclosed(<<e>> \o s \o <<e>>, s, e)
<1> DEFINE u == <<e>>
           a == u \o s
           c == a \o u
<1>1. u \in Seq(S) /\ Len(u) = 1 /\ u[1] = e
  OBVIOUS
<1> HIDE DEF u
<1>2. a \in Seq(S) /\ Len(a) = Len(s) + 1 /\ a[1] = e /\ \A j \in 2 .. Len(s) + 1 : a[j] = s[j - 1]
  <2>1. /\ a \in Seq(S)
        /\ Len(a) = Len(u) + Len(s)
        /\ \A i \in 1 .. Len(u) + Len(s) : a[i] = IF i <= Len(u) THEN u[i] ELSE s[i - Len(u)]
    BY <1>1, ConcatProperties
  <2> HIDE DEF a
  <2>2. Len(s) \in Nat
    OBVIOUS
  <2> QED BY <1>1, <2>1, <2>2
<1> HIDE DEF a
<1>3. /\ c \in Seq(S)
      /\ Len(c) = Len(s) + 2
      /\ c[Len(s) + 2] = e
      /\ \A j \in 1 .. Len(s) + 1 : c[j] = a[j]
  <2>1. /\ c \in Seq(S)
        /\ Len(c) = Len(a) + Len(u)
        /\ \A i \in 1 .. Len(a) + Len(u) : c[i] = IF i <= Len(a) THEN a[i] ELSE u[i - Len(a)]
    BY <1>1, <1>2, ConcatProperties
  <2> HIDE DEF c
  <2>2. Len(s) \in Nat
    OBVIOUS
  <2> QED BY <1>1, <1>2, <2>1, <2>2
<1> HIDE DEF c
<1>4. \A j \in 1 .. Len(s) + 2 : c[j] = IF j = 1 \/ j = Len(s) + 2 THEN e ELSE s[j - 1]
  BY <1>2, <1>3
<1>5. c \in Seq(S) /\ Enclosed(c, s, e)
  BY <1>3, <1>4 DEF Enclosed
<1> QED BY <1>5 DEF a, c, u

LEMMA WaitingTyped == Waiting \in Pass /\ Waiting.pc = "wait" /\ Waiting.numbers = {} /\ Waiting.todo = {}
                      /\ Waiting.want = NoTargets /\ NoTargets \in Goals /\ Waiting.missing = {}
BY DEF Waiting, Pass, Goals, NoTargets

\* A pass that has ended says nothing of relays and rules.
LEMMA PassGivenUp ==
  ASSUME RelayInv, pass' = Waiting, relays' \in Goals, targets' \in Goals, UNCHANGED <<rules, dual, foreign, shifted>>
  PROVE  RelayInv'
<1>1. RelayTypes'
  BY WaitingTyped DEF RelayInv, RelayTypes
<1>2. ForeignKept'
  BY DEF RelayInv, ForeignKept, ForeignAt
<1>3. RelaysSoFar' /\ RulesSoFar'
  BY WaitingTyped DEF RelaysSoFar, RulesSoFar, Wanted
<1> QED BY <1>1, <1>2, <1>3 DEF RelayInv

LEMMA FetchPreserves ==
  ASSUME RelayInv, Fetch
  PROVE  RelayInv'
<1>1. /\ pass' = [Waiting EXCEPT !.pc = "relays", !.want = targets, !.todo = Wanted(targets)]
      /\ UNCHANGED <<targets, relays, rules, dual, foreign, shifted>>
  BY DEF Fetch
<1>2. Wanted(targets) \in SUBSET PublicPorts /\ targets \in Goals
  BY DEF Wanted, RelayInv, RelayTypes
<1>3. /\ pass' \in Pass /\ pass'.pc = "relays" /\ pass'.want = targets /\ pass'.todo = Wanted(targets)
      /\ pass'.numbers = {}
  BY <1>1, <1>2, WaitingTyped DEF Pass
<1>4. RelayTypes'
  BY <1>1, <1>3 DEF RelayInv, RelayTypes
<1>5. ForeignKept'
  BY <1>1 DEF RelayInv, ForeignKept, ForeignAt
<1>6. RelaysSoFar' /\ RulesSoFar'
  BY <1>1, <1>3 DEF RelaysSoFar, RulesSoFar, Wanted
<1> QED BY <1>4, <1>5, <1>6 DEF RelayInv

LEMMA UpsertPreserves ==
  ASSUME RelayInv, NEW p \in PublicPorts, Upsert(p)
  PROVE  RelayInv'
<1>1. /\ pass.pc = "relays" /\ p \in pass.todo
      /\ relays' = [relays EXCEPT ![p] = UpsertedRelay(p)]
      /\ pass' = IF relays'[p] = NoTarget THEN Waiting ELSE [pass EXCEPT !.todo = @ \ {p}]
      /\ UNCHANGED <<targets, rules, dual, foreign, shifted>>
  BY DEF Upsert
<1>2. relays \in Goals /\ targets \in Goals /\ pass \in Pass /\ pass.want \in Goals
  BY DEF RelayInv, RelayTypes, Pass
<1>3. UpsertedRelay(p) \in {NoTarget, pass.want[p]} /\ pass.want[p] \in RelayTargets \union {NoTarget}
  BY <1>2 DEF UpsertedRelay, Goals
<1>4. relays' \in Goals /\ relays'[p] = UpsertedRelay(p) /\ \A o \in PublicPorts \ {p} : relays'[o] = relays[o]
  BY <1>1, <1>2, <1>3 DEF Goals
<1>5. CASE relays'[p] = NoTarget
  BY <1>1, <1>2, <1>4, <1>5, PassGivenUp
<1>6. CASE relays'[p] # NoTarget
  <2>1. /\ pass' \in Pass /\ pass'.pc = "relays" /\ pass'.want = pass.want /\ pass'.todo = pass.todo \ {p}
        /\ pass'.numbers = pass.numbers
    BY <1>1, <1>2, <1>6 DEF Pass
  <2>2. RelayTypes'
    BY <1>1, <1>4, <2>1 DEF RelayInv, RelayTypes
  <2>3. ForeignKept'
    BY <1>1 DEF RelayInv, ForeignKept, ForeignAt
  <2>4. relays'[p] = pass.want[p]
    BY <1>3, <1>4, <1>6
  <2>5. RelaysSoFar'
    <3>1. pass'.todo \subseteq Wanted(pass'.want)
      BY <2>1 DEF RelayInv, RelaysSoFar
    <3>2. \A o \in Wanted(pass'.want) \ pass'.todo : relays'[o] = pass'.want[o]
      BY <1>1, <1>4, <2>1, <2>4 DEF RelayInv, RelaysSoFar, Wanted
    <3> QED BY <2>1, <3>1, <3>2 DEF RelaysSoFar
  <2>6. RulesSoFar'
    BY <1>1, <2>1 DEF RelayInv, RulesSoFar
  <2> QED BY <2>2, <2>3, <2>5, <2>6 DEF RelayInv
<1> QED BY <1>5, <1>6

LEMMA RemoveStalePreserves ==
  ASSUME RelayInv, RemoveStale
  PROVE  RelayInv'
<1>1. /\ pass.pc = "relays" /\ pass.todo = {}
      /\ relays' = [p \in PublicPorts |-> IF pass.want[p] = NoTarget THEN NoTarget ELSE relays[p]]
      /\ pass' = [pass EXCEPT !.pc = "list"]
      /\ UNCHANGED <<targets, rules, dual, foreign, shifted>>
  BY DEF RemoveStale
<1>2. relays \in Goals /\ pass \in Pass /\ pass.want \in Goals
  BY DEF RelayInv, RelayTypes, Pass
<1>3. /\ pass' \in Pass /\ pass'.pc = "list" /\ pass'.want = pass.want /\ pass'.todo = {}
      /\ pass'.numbers = pass.numbers
  BY <1>1, <1>2 DEF Pass
<1>4. relays' \in Goals
  BY <1>1, <1>2 DEF Goals
<1>5. relays' = pass.want
  <2>1. \A p \in PublicPorts : relays'[p] = pass.want[p]
    BY <1>1 DEF RelayInv, RelaysSoFar, Wanted
  <2> QED BY <1>2, <1>4, <2>1 DEF Goals
<1>6. RelayTypes'
  BY <1>1, <1>3, <1>4 DEF RelayInv, RelayTypes
<1>7. ForeignKept'
  BY <1>1 DEF RelayInv, ForeignKept, ForeignAt
<1>8. RelaysSoFar'
  BY <1>3, <1>5 DEF RelaysSoFar
<1>9. RulesSoFar'
  BY <1>1, <1>3 DEF RelayInv, RulesSoFar
<1> QED BY <1>6, <1>7, <1>8, <1>9 DEF RelayInv

\* The first rule of a wanted port stays, and every other managed rule of it goes.
LEMMA ListRulesPreserves ==
  ASSUME RelayInv, ListRules
  PROVE  RelayInv'
<1> DEFINE stale == StaleRules(pass.want)
           missing == {p \in Wanted(pass.want) : \A n \in DOMAIN rules : rules[n] # p}
<1>1. /\ pass.pc = "list"
      /\ pass' = [pass EXCEPT !.pc = "delete", !.numbers = stale, !.missing = missing]
      /\ UNCHANGED <<targets, relays, rules, dual, foreign, shifted>>
  BY DEF ListRules
<1>2. relays \in Goals /\ pass \in Pass /\ pass.want \in Goals /\ rules \in Seq(PublicPorts \union {Foreign})
  BY DEF RelayInv, RelayTypes, Pass
<1>3. stale \in SUBSET Nat /\ stale \subseteq DOMAIN rules /\ missing \in SUBSET PublicPorts
  BY <1>2 DEF StaleRules, Wanted
<1>4. (\A n \in stale : rules[n] # Foreign) /\ OpenBut(stale) \union missing = Wanted(pass.want)
  <2>1. \A n \in stale : rules[n] # Foreign
    BY DEF StaleRules
  <2>2. OpenBut(stale) \subseteq Wanted(pass.want)
    <3> SUFFICES ASSUME NEW n \in DOMAIN rules \ stale, rules[n] # Foreign
                 PROVE  rules[n] \in Wanted(pass.want)
      BY DEF OpenBut
    <3>1. rules[n] \in PublicPorts
      BY <1>2
    <3> QED BY <3>1 DEF StaleRules, Wanted
  <2>3. ASSUME NEW p \in Wanted(pass.want), p \notin missing
        PROVE  p \in OpenBut(stale)
    <3> DEFINE has == {n \in DOMAIN rules : rules[n] = p}
    <3>1. has \in SUBSET Nat /\ has # {}
      BY <1>2, <2>3
    <3>2. PICK n \in has : \A m \in has : n <= m
      BY <3>1, LeastNumber
    <3>3. p \in PublicPorts /\ p # Foreign /\ pass.want[p] # NoTarget
      BY RelayAssumption DEF Wanted
    <3>4. ASSUME NEW m \in 1 .. n - 1, rules[m] = p
          PROVE  FALSE
      <4>1. m \in has /\ ~(n <= m)
        BY <1>2, <3>4
      <4> QED BY <3>2, <4>1
    <3>5. n \notin stale
      BY <3>2, <3>3, <3>4 DEF StaleRules
    <3> QED BY <3>2, <3>3, <3>5 DEF OpenBut
  <2> QED BY <2>1, <2>2, <2>3
<1> HIDE DEF stale, missing
<1>5. /\ pass' \in Pass /\ pass'.pc = "delete" /\ pass'.want = pass.want /\ pass'.todo = pass.todo
      /\ pass'.numbers = stale /\ pass'.missing = missing
  BY <1>1, <1>2, <1>3 DEF Pass
<1>6. RelayTypes'
  BY <1>1, <1>5 DEF RelayInv, RelayTypes
<1>7. ForeignKept'
  BY <1>1 DEF RelayInv, ForeignKept, ForeignAt
<1>8. RelaysSoFar'
  BY <1>1, <1>5 DEF RelayInv, RelaysSoFar
<1>9. RulesSoFar'
  BY <1>1, <1>3, <1>4, <1>5 DEF RulesSoFar, OpenBut
<1> QED BY <1>6, <1>7, <1>8, <1>9 DEF RelayInv

LEMMA EndPassPreserves ==
  ASSUME RelayInv, EndPass
  PROVE  RelayInv'
<1>1. /\ pass.pc = "delete" /\ pass.numbers = {} /\ pass.missing = {}
      /\ pass' = [pass EXCEPT !.pc = "done"]
      /\ UNCHANGED <<targets, relays, rules, dual, foreign, shifted>>
  BY DEF EndPass
<1>2. pass \in Pass
  BY DEF RelayInv, RelayTypes
<1>3. /\ pass' \in Pass /\ pass'.pc = "done" /\ pass'.want = pass.want /\ pass'.todo = pass.todo
      /\ pass'.numbers = {}
  BY <1>1, <1>2 DEF Pass
<1>4. RelayTypes'
  BY <1>1, <1>3 DEF RelayInv, RelayTypes
<1>5. ForeignKept'
  BY <1>1 DEF RelayInv, ForeignKept, ForeignAt
<1>6. RelaysSoFar'
  BY <1>1, <1>3 DEF RelayInv, RelaysSoFar
<1>7. RulesSoFar'
  BY <1>1, <1>3 DEF RelayInv, RulesSoFar, OpenBut
<1> QED BY <1>4, <1>5, <1>6, <1>7 DEF RelayInv

LEMMA ForeignFinite ==
  ASSUME RelayTypes
  PROVE  IsFiniteSet(ForeignAt) /\ Cardinality(ForeignAt) \in Nat
<1>1. DOMAIN rules = 1 .. Len(rules) /\ Len(rules) \in Nat
  BY DEF RelayTypes
<1>2. IsFiniteSet(1 .. Len(rules))
  BY <1>1, FS_Interval
<1>3. ForeignAt \in SUBSET (1 .. Len(rules))
  BY <1>1 DEF ForeignAt
<1> QED BY <1>2, <1>3, FS_Subset, FS_CardinalityType

\* The last of the stale rules goes, so the numbers of the others stay what they were.
LEMMA DeleteRulePreserves ==
  ASSUME RelayInv, DeleteRule
  PROVE  RelayInv'
<1>1. PICK n \in pass.numbers :
        /\ NextNumber(n)
        /\ IF n \in DOMAIN rules
           THEN rules' = RemoveAt(rules, n) /\ pass' = [pass EXCEPT !.numbers = @ \ {n}]
           ELSE pass' = Waiting /\ UNCHANGED rules
  BY DEF DeleteRule
<1>2. pass.pc = "delete" /\ UNCHANGED <<targets, relays, dual, foreign, shifted>>
  BY DEF DeleteRule
<1>3. /\ relays \in Goals /\ targets \in Goals /\ pass \in Pass /\ pass.numbers \in SUBSET Nat
      /\ rules \in Seq(PublicPorts \union {Foreign})
  BY DEF RelayInv, RelayTypes, Pass
<1>4. CASE n \notin DOMAIN rules
  BY <1>1, <1>2, <1>3, <1>4, PassGivenUp
<1>5. CASE n \in DOMAIN rules
  <2>1. rules' = RemoveAt(rules, n) /\ pass' = [pass EXCEPT !.numbers = @ \ {n}]
    BY <1>1, <1>5
  <2>2. /\ pass' \in Pass /\ pass'.pc = "delete" /\ pass'.want = pass.want /\ pass'.todo = pass.todo
        /\ pass'.numbers = pass.numbers \ {n} /\ pass'.missing = pass.missing
    BY <1>2, <1>3, <2>1 DEF Pass
  <2>3. DOMAIN rules = 1 .. Len(rules) /\ Len(rules) \in Nat /\ n \in 1 .. Len(rules)
    BY <1>3, <1>5
  <2>4. /\ rules' \in Seq(PublicPorts \union {Foreign})
        /\ Len(rules') = Len(rules) - 1
        /\ \A j \in 1 .. Len(rules) - 1 : rules'[j] = IF j < n THEN rules[j] ELSE rules[j + 1]
    <3>1. rules \in Seq(PublicPorts \union {Foreign}) /\ n \in 1 .. Len(rules)
      BY <1>3, <2>3
    <3>2. /\ RemoveAt(rules, n) \in Seq(PublicPorts \union {Foreign})
          /\ Len(RemoveAt(rules, n)) = Len(rules) - 1
          /\ \A j \in 1 .. Len(rules) - 1 : RemoveAt(rules, n)[j] = IF j < n THEN rules[j] ELSE rules[j + 1]
      BY <3>1, RemoveAtProperties, Zenon
    <3> QED BY <2>1, <3>2
  <2>5. DOMAIN rules' = 1 .. Len(rules) - 1
    BY <2>4
  <2>6. RelayTypes'
    BY <1>2, <2>2, <2>4 DEF RelayInv, RelayTypes
  <2>7. \A m \in pass.numbers : m <= n
    BY <1>1 DEF NextNumber
  <2>8. ForeignKept'
    <3> SUFFICES ASSUME ~shifted
                 PROVE  Cardinality(ForeignAt') = foreign
      BY <1>2 DEF ForeignKept
    <3>1. rules[n] # Foreign
      BY <1>1, <1>2 DEF RelayInv, RulesSoFar
    <3> DEFINE f == [j \in ForeignAt |-> IF j < n THEN j ELSE j - 1]
    <3>2. f \in [ForeignAt -> ForeignAt']
      <4> SUFFICES ASSUME NEW j \in ForeignAt
                   PROVE  (IF j < n THEN j ELSE j - 1) \in ForeignAt'
        OBVIOUS
      <4>1. j \in 1 .. Len(rules) /\ rules[j] = Foreign /\ j # n
        BY <2>3, <3>1 DEF ForeignAt
      <4>2. CASE j < n
        BY <2>3, <2>4, <2>5, <4>1, <4>2 DEF ForeignAt
      <4>3. CASE ~(j < n)
        <5>1. j - 1 \in 1 .. Len(rules) - 1 /\ ~(j - 1 < n) /\ (j - 1) + 1 = j
          BY <2>3, <4>1, <4>3
        <5> QED BY <2>4, <2>5, <4>1, <4>3, <5>1 DEF ForeignAt
      <4> QED BY <4>2, <4>3
    <3>3. \A i, j \in ForeignAt : f[i] = f[j] => i = j
      <4>1. \A j \in ForeignAt : j \in 1 .. Len(rules) /\ j # n
        BY <2>3, <3>1 DEF ForeignAt
      <4> QED BY <2>3, <4>1
    <3>4. ASSUME NEW z \in ForeignAt'
          PROVE  \E j \in ForeignAt : f[j] = z
      <4>1. z \in 1 .. Len(rules) - 1 /\ rules'[z] = Foreign
        BY <2>5 DEF ForeignAt
      <4>2. CASE z < n
        <5>1. z \in ForeignAt
          BY <2>3, <2>4, <4>1, <4>2 DEF ForeignAt
        <5> QED BY <4>2, <5>1
      <4>3. CASE ~(z < n)
        <5>1. z + 1 \in ForeignAt
          BY <2>3, <2>4, <4>1, <4>3 DEF ForeignAt
        <5>2. ~(z + 1 < n) /\ (z + 1) - 1 = z
          BY <2>3, <4>1, <4>3
        <5> QED BY <5>1, <5>2
      <4> QED BY <4>2, <4>3
    <3> HIDE DEF f
    <3>5. Cardinality(ForeignAt') = Cardinality(ForeignAt)
      BY <3>2, <3>3, <3>4, ForeignFinite, SameSize DEF RelayInv
    <3> QED BY <3>5 DEF RelayInv, ForeignKept
  <2>9. RelaysSoFar'
    BY <1>2, <2>2 DEF RelayInv, RelaysSoFar
  <2>10. RulesSoFar'
    <3> SUFFICES ASSUME ~shifted
                 PROVE  /\ pass'.numbers \subseteq DOMAIN rules'
                        /\ \A m \in pass'.numbers : rules'[m] # Foreign
                        /\ ({rules'[j] : j \in DOMAIN rules' \ pass'.numbers} \ {Foreign}) \union pass'.missing
                             = Wanted(pass'.want)
      BY <1>2, <2>2 DEF RulesSoFar, OpenBut
    <3>1. /\ pass.numbers \subseteq DOMAIN rules
          /\ \A m \in pass.numbers : rules[m] # Foreign
          /\ ({rules[j] : j \in DOMAIN rules \ pass.numbers} \ {Foreign}) \union pass.missing = Wanted(pass.want)
      BY <1>2 DEF RelayInv, RulesSoFar, OpenBut
    <3>2. \A m \in pass'.numbers : m \in 1 .. Len(rules) - 1 /\ m < n /\ rules'[m] = rules[m]
      <4> TAKE m \in pass'.numbers
      <4>1. m \in 1 .. Len(rules) /\ m <= n /\ m # n
        BY <2>2, <2>3, <2>7, <3>1
      <4> QED BY <2>3, <2>4, <4>1
    <3>3. ASSUME NEW j \in DOMAIN rules' \ pass'.numbers
          PROVE  \E i \in DOMAIN rules \ pass.numbers : rules[i] = rules'[j]
      <4>1. j \in 1 .. Len(rules) - 1
        BY <2>5
      <4>2. CASE j < n
        BY <2>2, <2>3, <2>4, <4>1, <4>2
      <4>3. CASE ~(j < n)
        <5>1. j + 1 \in DOMAIN rules /\ ~(j + 1 <= n) /\ rules'[j] = rules[j + 1]
          BY <2>3, <2>4, <4>1, <4>3
        <5> QED BY <2>7, <5>1
      <4> QED BY <4>2, <4>3
    <3>4. ASSUME NEW i \in DOMAIN rules \ pass.numbers
          PROVE  \E j \in DOMAIN rules' \ pass'.numbers : rules'[j] = rules[i]
      <4>1. i \in 1 .. Len(rules) /\ i # n
        BY <1>1, <2>3
      <4>2. CASE i < n
        <5>1. i \in DOMAIN rules' /\ i \notin pass'.numbers /\ rules'[i] = rules[i]
          BY <2>2, <2>3, <2>4, <2>5, <4>1, <4>2
        <5> QED BY <5>1
      <4>3. CASE ~(i < n)
        <5>1. i - 1 \in 1 .. Len(rules) - 1 /\ ~(i - 1 < n) /\ (i - 1) + 1 = i
          BY <2>3, <4>1, <4>3
        <5>2. rules'[i - 1] = rules[i] /\ i - 1 \in DOMAIN rules'
          BY <2>4, <2>5, <5>1
        <5>3. i - 1 \notin pass'.numbers
          BY <3>2, <5>1
        <5> QED BY <5>2, <5>3
      <4> QED BY <4>2, <4>3
    <3>5. {rules'[j] : j \in DOMAIN rules' \ pass'.numbers} = {rules[i] : i \in DOMAIN rules \ pass.numbers}
      BY <3>3, <3>4
    <3> QED BY <2>2, <2>5, <3>1, <3>2, <3>5
  <2> QED BY <2>6, <2>8, <2>9, <2>10 DEF RelayInv
<1> QED BY <1>4, <1>5

\* A rule is allowed behind the others, or an IPv4 rule before them and an IPv6 rule behind them.
LEMMA AllowRulePreserves ==
  ASSUME RelayInv, AllowRule
  PROVE  RelayInv'
<1>1. PICK p \in pass.missing :
        /\ rules' = IF dual THEN <<p>> \o rules \o <<p>> ELSE Append(rules, p)
        /\ pass' = [pass EXCEPT !.missing = @ \ {p}]
  BY DEF AllowRule
<1>2. pass.pc = "delete" /\ pass.numbers = {} /\ UNCHANGED <<targets, relays, dual, foreign, shifted>>
  BY DEF AllowRule
<1>3. /\ relays \in Goals /\ pass \in Pass /\ pass.missing \in SUBSET PublicPorts
      /\ rules \in Seq(PublicPorts \union {Foreign}) /\ dual \in BOOLEAN
  BY DEF RelayInv, RelayTypes, Pass
<1>4. p \in PublicPorts /\ p # Foreign /\ p \in PublicPorts \union {Foreign}
  BY <1>1, <1>3, RelayAssumption
<1>5. /\ pass' \in Pass /\ pass'.pc = "delete" /\ pass'.want = pass.want /\ pass'.todo = pass.todo
      /\ pass'.numbers = {} /\ pass'.missing = pass.missing \ {p}
  BY <1>1, <1>2, <1>3 DEF Pass
<1>6. DOMAIN rules = 1 .. Len(rules) /\ Len(rules) \in Nat
  BY <1>3
\* By how much the numbers of the earlier rules move.
<1> DEFINE d == IF dual THEN 1 ELSE 0
<1>7. d \in {0, 1}
  OBVIOUS
<1>8. /\ rules' \in Seq(PublicPorts \union {Foreign})
      /\ Len(rules') = Len(rules) + 1 + d
      /\ \A j \in 1 .. Len(rules) : rules'[j + d] = rules[j]
      /\ \A j \in DOMAIN rules' : rules'[j] = p \/ (j - d \in 1 .. Len(rules) /\ rules'[j] = rules[j - d])
      /\ \E j \in DOMAIN rules' : rules'[j] = p
  <2>1. CASE dual
    <3>1. rules' = <<p>> \o rules \o <<p>> /\ d = 1
      BY <1>1, <2>1
    <3>2. rules' \in Seq(PublicPorts \union {Foreign}) /\ Enclosed(rules', rules, p)
      <4>1. rules \in Seq(PublicPorts \union {Foreign}) /\ p \in PublicPorts \union {Foreign}
        BY <1>3, <1>4
      <4>2. /\ <<p>> \o rules \o <<p>> \in Seq(PublicPorts \union {Foreign})
            /\ Enclosed(<<p>> \o rules \o <<p>>, rules, p)
        BY <4>1, AroundProperties, Zenon
      <4> QED BY <3>1, <4>2
    <3>3. /\ rules' \in Seq(PublicPorts \union {Foreign}) /\ Len(rules') = Len(rules) + 2
          /\ \A j \in 1 .. Len(rules) + 2 : rules'[j] = IF j = 1 \/ j = Len(rules) + 2 THEN p ELSE rules[j - 1]
      BY <3>2 DEF Enclosed
    <3>4. DOMAIN rules' = 1 .. Len(rules) + 2
      BY <3>3
    <3>5. \A j \in 1 .. Len(rules) : rules'[j + 1] = rules[j]
      BY <1>6, <3>3
    <3>6. \A j \in DOMAIN rules' : rules'[j] = p \/ (j - 1 \in 1 .. Len(rules) /\ rules'[j] = rules[j - 1])
      BY <1>6, <3>3, <3>4
    <3>7. 1 \in DOMAIN rules' /\ rules'[1] = p
      BY <1>6, <3>3, <3>4
    <3> HIDE DEF d
    <3> QED BY <1>6, <3>1, <3>3, <3>5, <3>6, <3>7
  <2>2. CASE ~dual
    <3>1. rules' = Append(rules, p) /\ d = 0
      BY <1>1, <2>2
    <3>2. /\ rules' \in Seq(PublicPorts \union {Foreign}) /\ Len(rules') = Len(rules) + 1
          /\ \A j \in 1 .. Len(rules) : rules'[j] = rules[j]
          /\ rules'[Len(rules) + 1] = p
      BY <1>3, <1>4, <3>1, AppendProperties
    <3>3. DOMAIN rules' = 1 .. Len(rules) + 1
      BY <3>2
    <3> HIDE DEF d
    <3> QED BY <1>6, <3>1, <3>2, <3>3
  <2> QED BY <2>1, <2>2
<1> HIDE DEF d
<1>9. RelayTypes'
  BY <1>2, <1>5, <1>8 DEF RelayInv, RelayTypes
<1>10. DOMAIN rules' = 1 .. Len(rules) + 1 + d
  BY <1>8
<1>11. ForeignKept'
  <2> DEFINE f == [j \in ForeignAt |-> j + d]
  <2>1. f \in [ForeignAt -> ForeignAt']
    <3> SUFFICES ASSUME NEW j \in ForeignAt
                 PROVE  j + d \in ForeignAt'
      OBVIOUS
    <3>1. j \in 1 .. Len(rules) /\ rules[j] = Foreign
      BY <1>6 DEF ForeignAt
    <3>2. j + d \in 1 .. Len(rules) + 1 + d /\ rules'[j + d] = Foreign
      BY <1>6, <1>7, <1>8, <3>1
    <3> QED BY <1>10, <3>2 DEF ForeignAt
  <2>2. \A i, j \in ForeignAt : f[i] = f[j] => i = j
    BY <1>6, <1>7 DEF ForeignAt
  <2>3. ASSUME NEW z \in ForeignAt'
        PROVE  \E j \in ForeignAt : f[j] = z
    <3>1. z \in DOMAIN rules' /\ rules'[z] = Foreign /\ z \in Int
      BY <1>10, <1>6, <1>7 DEF ForeignAt
    <3>2. z - d \in 1 .. Len(rules) /\ rules[z - d] = Foreign
      BY <1>4, <1>8, <3>1
    <3>3. z - d \in ForeignAt /\ (z - d) + d = z
      BY <1>6, <1>7, <3>1, <3>2 DEF ForeignAt
    <3> QED BY <3>3
  <2> HIDE DEF f
  <2>4. Cardinality(ForeignAt') = Cardinality(ForeignAt)
    BY <2>1, <2>2, <2>3, ForeignFinite, SameSize DEF RelayInv
  <2> QED BY <1>2, <2>4 DEF RelayInv, ForeignKept
<1>12. RelaysSoFar'
  BY <1>2, <1>5 DEF RelayInv, RelaysSoFar
<1>13. RulesSoFar'
  <2> SUFFICES ASSUME ~shifted
               PROVE  ({rules'[j] : j \in DOMAIN rules' \ pass'.numbers} \ {Foreign}) \union pass'.missing
                        = Wanted(pass'.want)
    BY <1>2, <1>5 DEF RulesSoFar, OpenBut
  <2>1. ({rules[j] : j \in DOMAIN rules} \ {Foreign}) \union pass.missing = Wanted(pass.want)
    BY <1>2 DEF RelayInv, RulesSoFar, OpenBut
  <2>2. {rules'[j] : j \in DOMAIN rules'} = {rules[j] : j \in DOMAIN rules} \union {p}
    <3>1. ASSUME NEW j \in DOMAIN rules'
          PROVE  rules'[j] \in {rules[i] : i \in DOMAIN rules} \union {p}
      BY <1>6, <1>8
    <3>2. ASSUME NEW i \in DOMAIN rules
          PROVE  \E j \in DOMAIN rules' : rules'[j] = rules[i]
      <4>1. i + d \in DOMAIN rules' /\ rules'[i + d] = rules[i]
        BY <1>6, <1>7, <1>8, <1>10
      <4> QED BY <4>1
    <3> QED BY <1>8, <3>1, <3>2
  <2>3. DOMAIN rules' \ pass'.numbers = DOMAIN rules'
    BY <1>5
  <2> QED BY <1>1, <1>4, <1>5, <2>1, <2>2, <2>3
<1> QED BY <1>9, <1>11, <1>12, <1>13 DEF RelayInv

\* A rule of the administrator moves the numbers behind it; a deletion under way is marked.
LEMMA AdminAddsRulePreserves ==
  ASSUME RelayInv, AdminAddsRule
  PROVE  RelayInv'
<1>1. PICK n \in 1 .. Len(rules) + 1 : rules' = InsertAt(rules, n, Foreign)
  BY DEF AdminAddsRule
<1>2. /\ foreign' = foreign + 1 /\ shifted' = (shifted \/ pass.numbers # {})
      /\ UNCHANGED <<targets, relays, dual, pass>>
  BY DEF AdminAddsRule
<1>3. /\ rules \in Seq(PublicPorts \union {Foreign}) /\ Foreign \in PublicPorts \union {Foreign}
      /\ foreign \in Nat /\ pass \in Pass
  BY DEF RelayInv, RelayTypes
<1>4. /\ rules' \in Seq(PublicPorts \union {Foreign})
      /\ Len(rules') = Len(rules) + 1
      /\ \A j \in 1 .. Len(rules) + 1 :
           rules'[j] = IF j < n THEN rules[j] ELSE IF j = n THEN Foreign ELSE rules[j - 1]
  <2>1. /\ InsertAt(rules, n, Foreign) \in Seq(PublicPorts \union {Foreign})
        /\ Inserted(InsertAt(rules, n, Foreign), rules, n, Foreign)
    <3>1. /\ rules \in Seq(PublicPorts \union {Foreign}) /\ Foreign \in PublicPorts \union {Foreign}
          /\ n \in 1 .. Len(rules) + 1
      BY <1>3
    <3> QED BY <3>1, InsertAtProperties, Zenon
  <2>2. rules' \in Seq(PublicPorts \union {Foreign}) /\ Inserted(rules', rules, n, Foreign)
    BY <1>1, <2>1
  <2> QED BY <2>2 DEF Inserted
<1>5. /\ DOMAIN rules = 1 .. Len(rules) /\ Len(rules) \in Nat /\ n \in 1 .. Len(rules) + 1
      /\ DOMAIN rules' = 1 .. Len(rules) + 1
  BY <1>3, <1>4
<1>6. RelayTypes'
  BY <1>2, <1>3, <1>4 DEF RelayInv, RelayTypes
<1> DEFINE moved(j) == IF j < n THEN j ELSE j + 1
<1>7. \A j \in DOMAIN rules : moved(j) \in DOMAIN rules' /\ moved(j) # n /\ rules'[moved(j)] = rules[j]
  <2> TAKE j \in DOMAIN rules
  <2>1. CASE j < n
    BY <1>4, <1>5, <2>1
  <2>2. CASE ~(j < n)
    <3>1. j + 1 \in 1 .. Len(rules) + 1 /\ ~(j + 1 < n) /\ j + 1 # n /\ (j + 1) - 1 = j
      BY <1>5, <2>2
    <3> QED BY <1>4, <1>5, <2>2, <3>1
  <2> QED BY <2>1, <2>2
<1>8. ASSUME NEW z \in DOMAIN rules', z # n
      PROVE  \E j \in DOMAIN rules : moved(j) = z
  <2>1. CASE z < n
    BY <1>5, <1>8, <2>1
  <2>2. CASE ~(z < n)
    <3>1. z - 1 \in DOMAIN rules /\ ~(z - 1 < n) /\ (z - 1) + 1 = z
      BY <1>5, <1>8, <2>2
    <3> QED BY <3>1
  <2> QED BY <2>1, <2>2
<1>9. n \in DOMAIN rules' /\ rules'[n] = Foreign
  BY <1>4, <1>5
<1>10. \A i, j \in DOMAIN rules : moved(i) = moved(j) => i = j
  BY <1>5
<1> HIDE DEF moved
<1>11. ForeignKept'
  <2> DEFINE T == ForeignAt' \ {n}
             f == [j \in ForeignAt |-> moved(j)]
  <2>1. f \in [ForeignAt -> T]
    BY <1>7 DEF ForeignAt
  <2>2. \A i, j \in ForeignAt : f[i] = f[j] => i = j
    BY <1>10 DEF ForeignAt
  <2>3. ASSUME NEW z \in T
        PROVE  \E j \in ForeignAt : f[j] = z
    <3>1. z \in DOMAIN rules' /\ z # n /\ rules'[z] = Foreign
      BY DEF ForeignAt
    <3>2. PICK j \in DOMAIN rules : moved(j) = z
      BY <1>8, <3>1
    <3>3. j \in ForeignAt
      BY <1>7, <3>1, <3>2 DEF ForeignAt
    <3> QED BY <3>2, <3>3
  <2> HIDE DEF f
  <2>4. n \notin T /\ ForeignAt' = T \union {n}
    BY <1>9 DEF ForeignAt
  <2> HIDE DEF T
  <2>5. IsFiniteSet(ForeignAt) /\ Cardinality(ForeignAt) \in Nat
    BY ForeignFinite DEF RelayInv
  <2>6. IsFiniteSet(T) /\ Cardinality(T) = Cardinality(ForeignAt)
    BY <2>1, <2>2, <2>3, <2>5, SameSize
  <2>7. Cardinality(T \union {n}) = Cardinality(T) + 1
    BY <2>4, <2>6, FS_AddElement
  <2>8. Cardinality(ForeignAt') = Cardinality(ForeignAt) + 1
    BY <2>4, <2>6, <2>7
  <2> QED BY <1>2, <2>8 DEF RelayInv, ForeignKept
<1>12. RelaysSoFar'
  BY <1>2 DEF RelayInv, RelaysSoFar
<1>13. {rules'[j] : j \in DOMAIN rules'} \ {Foreign} = {rules[j] : j \in DOMAIN rules} \ {Foreign}
  <2>1. ASSUME NEW z \in DOMAIN rules', rules'[z] # Foreign
        PROVE  \E j \in DOMAIN rules : rules[j] = rules'[z]
    <3>1. z # n
      BY <1>9, <2>1
    <3>2. PICK j \in DOMAIN rules : moved(j) = z
      BY <1>8, <3>1
    <3> QED BY <1>7, <3>2
  <2>2. \A j \in DOMAIN rules : \E z \in DOMAIN rules' : rules'[z] = rules[j]
    BY <1>7
  <2> QED BY <2>1, <2>2
<1>14. RulesSoFar'
  <2>1. pass.pc # "delete" => pass.numbers = {}
    BY DEF RelayInv, RulesSoFar
  <2>2. ASSUME ~shifted', pass.pc = "delete"
        PROVE  /\ pass.numbers = {}
               /\ ({rules'[j] : j \in DOMAIN rules'} \ {Foreign}) \union pass.missing = Wanted(pass.want)
    <3>1. ~shifted /\ pass.numbers = {}
      BY <1>2, <2>2
    <3>2. ({rules[j] : j \in DOMAIN rules} \ {Foreign}) \union pass.missing = Wanted(pass.want)
      BY <2>2, <3>1 DEF RelayInv, RulesSoFar, OpenBut
    <3> QED BY <1>13, <3>1, <3>2
  <2>3. ASSUME ~shifted', pass.pc = "done"
        PROVE  {rules'[j] : j \in DOMAIN rules'} \ {Foreign} = Wanted(pass.want)
    <3>1. ~shifted
      BY <1>2, <2>3
    <3>2. {rules[j] : j \in DOMAIN rules} \ {Foreign} = Wanted(pass.want)
      BY <2>3, <3>1 DEF RelayInv, RulesSoFar, OpenBut
    <3> QED BY <1>13, <3>2
  <2>4. DOMAIN rules' \ {} = DOMAIN rules'
    OBVIOUS
  <2> QED BY <1>2, <2>1, <2>2, <2>3, <2>4 DEF RulesSoFar, OpenBut
<1> QED BY <1>6, <1>11, <1>12, <1>14 DEF RelayInv

\* What happens around a pass.
LEMMA AroundPassPreserves ==
  ASSUME RelayInv, ChangeTargets \/ UNCHANGED relayVars
                     \/ \E p \in PublicPorts : PortTakenElsewhere(p) \/ PortGivenBack(p)
  PROVE  RelayInv'
<1>1. targets' \in Goals
  <2>1. targets \in Goals
    BY DEF RelayInv, RelayTypes
  <2> QED BY <2>1 DEF ChangeTargets, PortTakenElsewhere, PortGivenBack, relayVars, Goals
<1>2. UNCHANGED <<relays, rules, dual, pass, foreign, shifted>>
  BY DEF ChangeTargets, PortTakenElsewhere, PortGivenBack, relayVars
<1>3. RelayTypes'
  BY <1>1, <1>2 DEF RelayInv, RelayTypes
<1>4. ForeignKept' /\ RelaysSoFar' /\ RulesSoFar'
  BY <1>2 DEF RelayInv, ForeignKept, ForeignAt, RelaysSoFar, RulesSoFar, OpenBut
<1> QED BY <1>3, <1>4 DEF RelayInv

LEMMA PassEnds ==
  ASSUME RelayInv, AgentRestarts \/ StepFails
  PROVE  RelayInv'
<1>1. relays \in Goals /\ targets \in Goals
  BY DEF RelayInv, RelayTypes
<1>2. pass' = Waiting /\ relays' \in Goals /\ targets' \in Goals /\ UNCHANGED <<rules, dual, foreign, shifted>>
  BY <1>1, WaitingTyped DEF AgentRestarts, StepFails
<1> QED BY <1>2, PassGivenUp

LEMMA RelayInitially == RelayInit => RelayInv
<1> SUFFICES ASSUME RelayInit
             PROVE  RelayInv
  OBVIOUS
<1>1. /\ targets = NoTargets /\ relays = NoTargets /\ rules = <<Foreign>> /\ dual \in BOOLEAN
      /\ pass = Waiting /\ foreign = 1 /\ shifted = FALSE
  BY DEF RelayInit
<1>2. rules \in Seq(PublicPorts \union {Foreign}) /\ DOMAIN rules = {1} /\ rules[1] = Foreign
  BY <1>1
<1>3. RelayTypes
  BY <1>1, <1>2, WaitingTyped DEF RelayTypes
<1>4. ForeignKept
  <2>1. ForeignAt = {1}
    BY <1>2 DEF ForeignAt
  <2>2. Cardinality({1}) = 1
    BY FS_Singleton
  <2> QED BY <1>1, <2>1, <2>2 DEF ForeignKept
<1>5. RelaysSoFar /\ RulesSoFar
  BY <1>1, WaitingTyped DEF RelaysSoFar, RulesSoFar
<1> QED BY <1>3, <1>4, <1>5 DEF RelayInv

LEMMA RelayPreserved == RelayInv /\ [RelayNext]_relayVars => RelayInv'
<1> SUFFICES ASSUME RelayInv, [RelayNext]_relayVars
             PROVE  RelayInv'
  OBVIOUS
<1>1. CASE AgentStep
  BY <1>1, FetchPreserves, UpsertPreserves, RemoveStalePreserves, ListRulesPreserves, DeleteRulePreserves,
     AllowRulePreserves, EndPassPreserves DEF AgentStep
<1>2. CASE AgentRestarts \/ StepFails
  BY <1>2, PassEnds
<1>3. CASE AdminAddsRule
  BY <1>3, AdminAddsRulePreserves
<1>4. CASE ChangeTargets \/ UNCHANGED relayVars \/ \E p \in PublicPorts : PortTakenElsewhere(p) \/ PortGivenBack(p)
  BY <1>4, AroundPassPreserves
<1> QED BY <1>1, <1>2, <1>3, <1>4 DEF RelayNext

\* After a pass exactly the wanted ports are relayed, each to its target, and exactly they are open;
\* however many rules the administrator has, none is ever deleted, unless one was inserted between
\* the listing of the rules and a deletion by number.
THEOREM Reconciled == RelaySpec => []ReconcileExact
<1>1. RelayInit => RelayInv
  BY RelayInitially
<1>2. RelayInv /\ [RelayNext]_relayVars => RelayInv'
  BY RelayPreserved
<1>3. RelayInv => ReconcileExact
  <2> SUFFICES ASSUME RelayInv, ~shifted
               PROVE  /\ Cardinality({n \in DOMAIN rules : rules[n] = Foreign}) = foreign
                      /\ pass.pc = "done" =>
                           /\ Wanted(relays) \subseteq Wanted(pass.want)
                           /\ \A p \in Wanted(pass.want) : relays[p] = pass.want[p]
                           /\ {rules[n] : n \in DOMAIN rules} \ {Foreign} = Wanted(pass.want)
    BY DEF ReconcileExact
  <2>1. Cardinality({n \in DOMAIN rules : rules[n] = Foreign}) = foreign
    BY DEF RelayInv, ForeignKept, ForeignAt
  <2>2. ASSUME pass.pc = "done"
        PROVE  relays = pass.want /\ {rules[n] : n \in DOMAIN rules} \ {Foreign} = Wanted(pass.want)
    <3>1. relays = pass.want
      BY <2>2 DEF RelayInv, RelaysSoFar
    <3>2. OpenBut({}) = Wanted(pass.want)
      BY <2>2 DEF RelayInv, RulesSoFar
    <3>3. DOMAIN rules \ {} = DOMAIN rules
      OBVIOUS
    <3> QED BY <3>1, <3>2, <3>3 DEF OpenBut
  <2> QED BY <2>1, <2>2
<1> QED BY <1>1, <1>2, <1>3, PTL DEF RelaySpec
=============================================================================
