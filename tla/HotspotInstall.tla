---------------------------- MODULE HotspotInstall ----------------------------
(***************************************************************************)
(* The installation of the captive portal: the roles of ports saved in the *)
(* dashboard (src/internal/portprofiles/validator.go) and a MikroTik that  *)
(* imports the script rendered from them (renderer.go), command group by   *)
(* command group.  A failing critical command ends the import, a failing   *)
(* safe one is skipped; what was done stays.  Imports are started by hand  *)
(* or by configure_router jobs, so two can run at once, each with the      *)
(* roles of the moment its script was fetched.                             *)
(***************************************************************************)
EXTENDS Integers, SequencesExt

CONSTANTS Sockets,     \* ports of the router
          RoleChoices, \* assignments of roles to ports that the dashboard may save
          Sessions,    \* imports that can run together
          MaxSaves, MaxFaults    \* bounds: changes of the roles; failures, reboots, other hands

Roles == {"WAN", "HOTSPOT_LAN", "FREE_LAN", "DISABLED"}

With(roles, role) == {p \in Sockets : roles[p] = role}

\* Validate, of a map: names occur once.
ValidRoles(roles) == /\ Cardinality(With(roles, "WAN")) = 1
                     /\ With(roles, "HOTSPOT_LAN") # {}
                     /\ With(roles, "FREE_LAN") # {}

Renderable == {roles \in RoleChoices : ValidRoles(roles)}

ASSUME InstallAssumption == /\ RoleChoices \subseteq [Sockets -> Roles]
                            /\ Renderable # {}
                            /\ MaxSaves \in Nat /\ MaxFaults \in Nat

VARIABLES saved,      \* the roles in the dashboard
          bridge,     \* the bridge of each port
          wanList,    \* members of the WAN list, each with a DHCP client
          staged,     \* what the script has installed
          fasttrack,  \* whether a FastTrack rule is enabled
          hotspotMode,\* whether the device mode allows HotSpot
          session,    \* imports
          removed,    \* history: what other hands took away and no import restored
          recast,     \* history: ports whose role changed
          saves, faults

installVars == <<saved, bridge, wanList, staged, fasttrack, hotspotMode, session, removed, recast, saves, faults>>

Attached == {p \in Sockets : bridge[p] = "br-hotspot"}

\* Mutant: ports are attached as soon as the bridge exists.
PortsFirst == <<"wan", "bridge", "free", "ports", "pool", "dhcp", "mode", "nat", "shaping", "radius",
                "pages", "profile", "login", "server", "activate", "verify">>

\* The order of RenderRouterOSWithOptions and writeHotspotServices.
Script == <<"wan", "bridge", "pool", "dhcp", "mode", "nat", "shaping", "radius",
            "pages", "profile", "login", "server", "free", "ports", "activate", "verify">>

\* Groups that create what is missing and correct what is there: bridge; gateway address and pool; DHCP
\* server and network; DNS and NAT; RADIUS client; local pages; profiles; login page; scheduler and server.
Upserts == {"bridge", "pool", "dhcp", "nat", "radius", "pages", "profile", "login", "server"}

\* RouterOS refuses an address, server or HotSpot on what does not exist.
Needs(x) == CASE x = "pool"   -> {"bridge"}
              [] x = "dhcp"   -> {"bridge", "pool"}
              [] x = "server" -> {"bridge", "pool", "profile"}
              [] OTHER        -> {}

NoImport == [pc |-> 0, roles |-> saved, todo |-> {}, before |-> {}, skipped |-> {}, alone |-> TRUE]

Running(s) == session[s].pc \in DOMAIN Script

Complete(s) == session[s].pc = Len(Script) + 1

Doing(s, x) == Running(s) /\ Script[session[s].pc] = x

Past(s) == [session EXCEPT ![s].pc = @ + 1]

Ended(s) == [session EXCEPT ![s] = NoImport]

InstallInit ==
  /\ saved \in Renderable
  /\ \E factory \in BOOLEAN :
       /\ bridge = [p \in Sockets |-> IF factory /\ saved[p] # "WAN" THEN "bridge" ELSE "none"]
       /\ wanList = IF factory THEN With(saved, "WAN") ELSE {}
       /\ fasttrack = factory
  /\ staged = {}
  /\ hotspotMode \in BOOLEAN
  /\ session = [s \in Sessions |-> NoImport]
  /\ removed = {}
  /\ recast = {}
  /\ saves = 0
  /\ faults = 0

-----------------------------------------------------------------------------
(* The import.                                                             *)

\* SavePortAssignments.
SaveRoles ==
  /\ saves < MaxSaves
  /\ saves' = saves + 1
  /\ saved' \in Renderable \ {saved}
  /\ recast' = recast \union {p \in Sockets : saved'[p] # saved[p]}
  /\ UNCHANGED <<bridge, wanList, staged, fasttrack, hotspotMode, session, removed, faults>>

Alone(s) == \A o \in Sessions \ {s} : ~Running(o)

\* ClaimConfig renders the saved roles, and the router imports the file.
BeginImport(s) ==
  /\ ~Running(s)
  /\ session' = [r \in Sessions |->
                   IF r = s THEN [NoImport EXCEPT !.pc = 1, !.todo = With(saved, "HOTSPOT_LAN"), !.before = Attached,
                                               !.alone = Alone(s)]
                   ELSE [session[r] EXCEPT !.alone = FALSE]]
  /\ UNCHANGED <<saved, bridge, wanList, staged, fasttrack, hotspotMode, removed, recast, saves, faults>>

\* writeCritical and the upserts.
Stage(s) ==
  /\ Running(s)
  /\ LET x == Script[session[s].pc]
     IN  /\ x \in Upserts
         /\ IF Needs(x) \subseteq staged
            THEN /\ staged' = staged \union {x}
                 /\ removed' = removed \ {x}
                 /\ session' = Past(s)
            ELSE /\ session' = Ended(s)
                 /\ UNCHANGED <<staged, removed>>
  /\ UNCHANGED <<saved, bridge, wanList, fasttrack, hotspotMode, recast, saves, faults>>

\* The WAN port becomes a member of the list with a DHCP client; an earlier one stays.
JoinWan(s) ==
  /\ Doing(s, "wan")
  /\ wanList' = wanList \union With(session[s].roles, "WAN")
  /\ session' = Past(s)
  /\ UNCHANGED <<saved, bridge, staged, fasttrack, hotspotMode, removed, recast, saves, faults>>

CheckDeviceMode(s) ==
  /\ Doing(s, "mode")
  /\ session' = IF hotspotMode THEN Past(s) ELSE Ended(s)
  /\ UNCHANGED <<saved, bridge, wanList, staged, fasttrack, hotspotMode, removed, recast, saves, faults>>

\* writeHotspotShaping: the rules are disabled and none may be left.
DisableFastTrack(s) ==
  /\ Doing(s, "shaping")
  /\ fasttrack' = FALSE
  /\ session' = Past(s)
  /\ UNCHANGED <<saved, bridge, wanList, staged, hotspotMode, removed, recast, saves, faults>>

\* writeFreeLAN.
FreePorts(s, kept) ==
  /\ Doing(s, "free")
  /\ kept \subseteq With(session[s].roles, "FREE_LAN") \intersect Attached
  /\ IF kept = {} THEN UNCHANGED faults ELSE faults < MaxFaults /\ faults' = faults + 1
  /\ bridge' = [p \in Sockets |->
                  IF p \in (With(session[s].roles, "FREE_LAN") \intersect Attached) \ kept THEN "none" ELSE bridge[p]]
  /\ session' = [session EXCEPT ![s].pc = @ + 1, ![s].skipped = kept]
  /\ UNCHANGED <<saved, wanList, staged, fasttrack, hotspotMode, removed, recast, saves>>

\* writeHotspotPortAssignments, one port: out of its bridge and into br-hotspot.
AttachPort(s, p) ==
  /\ Doing(s, "ports")
  /\ p \in session[s].todo
  /\ bridge' = [bridge EXCEPT ![p] = IF "bridge" \in staged THEN "br-hotspot" ELSE "none"]
  /\ session' = IF bridge'[p] = "none" THEN Ended(s) ELSE [session EXCEPT ![s].todo = @ \ {p}]
  /\ UNCHANGED <<saved, wanList, staged, fasttrack, hotspotMode, removed, recast, saves, faults>>

PortsAttached(s) ==
  /\ Doing(s, "ports")
  /\ session[s].todo = {}
  /\ session' = Past(s)
  /\ UNCHANGED <<saved, bridge, wanList, staged, fasttrack, hotspotMode, removed, recast, saves, faults>>

\* writeHotspotDHCPFinalization.
Activate(s) ==
  /\ Doing(s, "activate")
  /\ session' = IF {"dhcp", "pool"} \subseteq staged THEN Past(s) ELSE Ended(s)
  /\ UNCHANGED <<saved, bridge, wanList, staged, fasttrack, hotspotMode, removed, recast, saves, faults>>

Verified == {"bridge", "dhcp", "profile", "server", "pages", "login"}

\* writeHotspotVerification.
Verify(s) ==
  /\ Doing(s, "verify")
  /\ session' = IF /\ Verified \subseteq staged
                   /\ With(session[s].roles, "HOTSPOT_LAN") \subseteq Attached
                   /\ ~fasttrack
                THEN Past(s) ELSE Ended(s)
  /\ UNCHANGED <<saved, bridge, wanList, staged, fasttrack, hotspotMode, removed, recast, saves, faults>>

-----------------------------------------------------------------------------
(* What goes wrong.                                                        *)

Fault == faults < MaxFaults /\ faults' = faults + 1

\* writeSafe: the status and logout pages are left out.
SkipPages(s) ==
  /\ Fault
  /\ Doing(s, "pages")
  /\ session' = Past(s)
  /\ UNCHANGED <<saved, bridge, wanList, staged, fasttrack, hotspotMode, removed, recast, saves>>

\* A critical command fails; of the two commands of a port the second.
CommandFails(s) ==
  /\ Fault
  /\ Running(s)
  /\ bridge' \in {bridge} \union {[bridge EXCEPT ![p] = "none"] : p \in IF Doing(s, "ports") THEN session[s].todo \ Attached ELSE {}}
  /\ session' = Ended(s)
  /\ UNCHANGED <<saved, wanList, staged, fasttrack, hotspotMode, removed, recast, saves>>

Reboot ==
  /\ Fault
  /\ session' = [s \in Sessions |-> IF Running(s) THEN NoImport ELSE session[s]]
  /\ UNCHANGED <<saved, bridge, wanList, staged, fasttrack, hotspotMode, removed, recast, saves>>

\* Somebody takes something away, enables FastTrack or confirms the device mode at the router.
OtherHands ==
  /\ Fault
  /\ \/ /\ \E x \in staged : staged' = staged \ {x} /\ removed' = removed \union {x}
        /\ UNCHANGED <<fasttrack, hotspotMode>>
     \/ /\ fasttrack' = TRUE
        /\ UNCHANGED <<staged, removed, hotspotMode>>
     \/ /\ hotspotMode' = TRUE
        /\ UNCHANGED <<staged, removed, fasttrack>>
  /\ session' = [s \in Sessions |-> IF Complete(s) THEN NoImport ELSE session[s]]
  /\ UNCHANGED <<saved, bridge, wanList, recast, saves>>

ImportStep(s) ==
  \/ BeginImport(s) \/ Stage(s) \/ JoinWan(s) \/ CheckDeviceMode(s) \/ DisableFastTrack(s)
  \/ \E kept \in SUBSET Sockets : FreePorts(s, kept)
  \/ \E p \in Sockets : AttachPort(s, p)
  \/ PortsAttached(s) \/ Activate(s) \/ Verify(s) \/ SkipPages(s) \/ CommandFails(s)

InstallNext == SaveRoles \/ Reboot \/ OtherHands \/ \E s \in Sessions : ImportStep(s)

InstallSpec == InstallInit /\ [][InstallNext]_installVars

-----------------------------------------------------------------------------
(* Properties.                                                             *)

Portal == Upserts \ {"pages"}

\* However imports fail, repeat and overlap, a port of clients is attached only once everything that
\* serves it is there.  An import that reports success has attached its HotSpot ports, and of the
\* others only those no command takes out: ports attached before that are now WAN or disabled; the
\* management ports are outside, except those whose removal failed: "FREE_LAN ... must never join
\* br-hotspot" (renderer.go), but its removal is a safe command, so the import goes on and still
\* reports success; skipped excuses such a port here.  A port is on both sides of the NAT only if its
\* role was changed.
InstallSound ==
  /\ Attached # {} => Portal \subseteq staged \union removed
  /\ \A s \in Sessions : Complete(s) /\ session[s].alone =>
       LET free == With(session[s].roles, "FREE_LAN") \ session[s].skipped
       IN  /\ Attached = With(session[s].roles, "HOTSPOT_LAN") \union (session[s].before \ free)
           /\ Verified \subseteq staged /\ ~fasttrack
           /\ With(session[s].roles, "WAN") \subseteq wanList
  /\ Attached \intersect wanList \subseteq recast
=============================================================================
