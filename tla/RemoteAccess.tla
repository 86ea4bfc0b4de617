----------------------------- MODULE RemoteAccess -----------------------------
(***************************************************************************)
(* Tunnel addresses, remote ports and remote access of several routers:    *)
(* the dashboard's handlers (src/internal/routers), the jobs they queue    *)
(* and what their results write to the rows (src/internal/wireguard).      *)
(* Every other handler that saves a whole routers row is Touch: it brings  *)
(* back the address, ports and status it read.  The queue keeps, for a     *)
(* router and an operation, whether an active job exists; leases and       *)
(* retries are in WireGuardJobs, what the agent does in RelayFirewall.  A  *)
(* router's access is on (queued, active, ready, failed: the statuses the  *)
(* code treats alike) or off (disabled, revoked).                          *)
(***************************************************************************)
EXTENDS Integers, FiniteSets

CONSTANTS Routers,     \* router ids
          Handlers,    \* handlers of the server that can run together
          Ports,       \* the public ports from RemoteWinboxPortBase on
          Addresses,   \* the usable addresses of the tunnel subnet, as numbers
          MaxEnables   \* bound on accesses that are enabled

NoPort == 0

NoAddress == 0

ASSUME AccessAssumption == /\ Ports \subseteq Nat \ {NoPort}
                           /\ Addresses \subseteq Nat \ {NoAddress}
                           /\ MaxEnables \in Nat

VARIABLES routers,     \* columns of the routers rows
          handler,     \* handlers in flight
          queue,       \* <<router, operation>> of the active jobs
          work,        \* the job the agent applies, and whether it still holds it
          indexed,     \* whether the unique indexes of migrations 001 and 004 exist
          enables,
          asked,       \* history: routers whose access was enabled and not disabled since
          outdated,    \* history: a copy was saved over an address, port or status that had changed
          overlapped,  \* history: ports or addresses were chosen while another choice was in flight
          undone       \* history: a removal job finished after access was enabled again

access == <<routers, handler, queue, work, indexed, enables, asked, outdated, overlapped, undone>>

Kinds == {"web", "winbox"}

NewRouter == [live |-> TRUE, address |-> NoAddress, on |-> FALSE,
              port |-> [k \in Kinds |-> NoPort]]

Free == [pc |-> "free", router |-> 0, kind |-> "web", copy |-> NewRouter, port |-> NoPort]

NoWork == [job |-> << >>, held |-> FALSE, pc |-> "none"]

Does(h, p) == handler[h].pc = p

\* The row lock of EnableWinBoxAccess and EnableWebAccess.
RowLocked(r) == \E h \in Handlers : Does(h, "assign") /\ handler[h].router = r

AccessInit == /\ routers = [r \in Routers |-> NewRouter]
              /\ handler = [h \in Handlers |-> Free]
              /\ queue = {}
              /\ work = NoWork
              /\ indexed \in BOOLEAN
              /\ enables = 0
              /\ asked = {}
              /\ outdated = FALSE
              /\ overlapped = FALSE
              /\ undone = FALSE

-----------------------------------------------------------------------------
(* Rows.                                                                   *)

LiveRouters == {r \in Routers : routers[r].live}

\* UNIQUE on the address counts deleted rows, the index on the WinBox port does not.
IndexAllows(r, new) ==
  indexed => \A s \in Routers \ {r} :
               /\ new.address # NoAddress => routers[s].address # new.address
               /\ new.live /\ routers[s].live /\ new.port["winbox"] # NoPort =>
                    routers[s].port["winbox"] # new.port["winbox"]

\* Find and List see live rows only.
Seen(r) == routers[r].live

\* Mutant: an address counts as taken only while its router's access is on.
NextIdleAddress ==
  LET free == {a \in Addresses : \A r \in LiveRouters : routers[r].on => routers[r].address # a}
  IN  IF free = {} THEN NoAddress ELSE CHOOSE a \in free : \A b \in free : a <= b

\* AllocateWireGuardIP: the first address no live router has.
NextAddress ==
  LET free == {a \in Addresses : \A r \in LiveRouters : routers[r].address # a}
  IN  IF free = {} THEN NoAddress ELSE CHOOSE a \in free : \A b \in free : a <= b

\* Mutant: the ports of the other kind are not counted.
PortTakenSameKind(p, kind) == \E r \in LiveRouters : routers[r].port[kind] = p

PortTaken(p, kind) == \E r \in LiveRouters, k \in Kinds : routers[r].port[k] = p

\* allocateRemotePort: the current port, else the first one nobody has.
NextPort(r, kind) ==
  LET free == {p \in Ports : ~PortTaken(p, kind)}
  IN  IF routers[r].port[kind] # NoPort THEN routers[r].port[kind]
      ELSE IF free = {} THEN NoPort ELSE CHOOSE p \in free : \A b \in free : p <= b

Begin(h, p, r) == [handler EXCEPT ![h] = [Free EXCEPT !.pc = p, !.router = r]]

Copied(h, p, c, r) == [handler EXCEPT ![h] = [Free EXCEPT !.pc = p, !.router = r, !.copy = c]]

Done(h) == [handler EXCEPT ![h] = Free]

\* PrepareWireGuard and WireGuardScript of a router without an address: from here until the row is
\* saved others may choose the same one.
ReadForAddress(h, r) ==
  /\ Does(h, "free")
  /\ Seen(r)
  /\ routers[r].address = NoAddress
  /\ NextAddress # NoAddress
  /\ handler' = Copied(h, "saveAddress", [routers[r] EXCEPT !.address = NextAddress], r)
  /\ overlapped' = (overlapped \/ \E g \in Handlers \ {h} : Does(g, "saveAddress"))
  /\ UNCHANGED <<routers, queue, work, indexed, enables, asked, outdated, undone>>

\* The callbacks of a router and the other whole-row saves: RegenerateClaimToken, Deploy, direct API.
Touch(h, r) ==
  /\ Does(h, "free")
  /\ Seen(r)
  /\ handler' = Copied(h, "save", routers[r], r)
  /\ UNCHANGED <<routers, queue, work, indexed, enables, asked, outdated, overlapped, undone>>

\* Whether a copy, apart from the address it has just been given, is still what the row says.
UpToDate(h) ==
  LET now == routers[handler[h].router]
  IN  IF Does(h, "saveAddress") THEN [handler[h].copy EXCEPT !.address = NoAddress] = now
      ELSE handler[h].copy = now

SaveRow(h) ==
  LET r == handler[h].router
      c == handler[h].copy
  IN  /\ Does(h, "save") \/ Does(h, "saveAddress")
      /\ ~RowLocked(r)
      /\ IF IndexAllows(r, c)
         THEN /\ routers' = [routers EXCEPT ![r] = c]
              /\ outdated' = (outdated \/ ~UpToDate(h))
         ELSE UNCHANGED <<routers, outdated>>
      /\ handler' = Done(h)
      /\ UNCHANGED <<queue, work, indexed, enables, asked, overlapped, undone>>

-----------------------------------------------------------------------------
(* Enabling and disabling.                                                 *)

\* QueueJob: an active job is queued again, and whoever applies it loses it.
Queued(r, o) ==
  /\ queue' = queue \union {<<r, o>>}
  /\ work' = IF work.job = <<r, o>> THEN [work EXCEPT !.held = FALSE] ELSE work

\* Find, and inside the transaction the locked row and the count of routers with a port.
ChoosePort(h, r, kind) ==
  /\ Does(h, "free")
  /\ Seen(r) /\ ~RowLocked(r)
  /\ routers[r].address # NoAddress
  /\ NextPort(r, kind) # NoPort
  /\ enables < MaxEnables
  /\ enables' = enables + 1
  /\ handler' = [Begin(h, "assign", r) EXCEPT ![h].kind = kind, ![h].port = NextPort(r, kind)]
  /\ overlapped' = (overlapped \/ \E g \in Handlers \ {h} : Does(g, "assign"))
  /\ UNCHANGED <<routers, queue, work, indexed, asked, outdated, undone>>

\* The update and the commit.
AssignPort(h) ==
  LET r   == handler[h].router
      new == [routers[r] EXCEPT !.on = TRUE, !.port[handler[h].kind] = handler[h].port]
  IN  /\ Does(h, "assign")
      /\ IF IndexAllows(r, new)
         THEN /\ routers' = [routers EXCEPT ![r] = new]
              /\ asked' = asked \union {r}
              /\ handler' = Begin(h, "queue", r)
         ELSE /\ handler' = Done(h)
              /\ UNCHANGED <<routers, asked>>
      /\ UNCHANGED <<queue, work, indexed, enables, outdated, overlapped, undone>>

\* QueueRemoteAccess; when it fails the access is disabled again.
QueueEnable(h) ==
  LET r == handler[h].router
  IN  /\ Does(h, "queue")
      /\ \/ /\ Queued(r, "upsert")
            /\ handler' = Done(h)
         \/ /\ handler' = IF ~Seen(r) THEN Done(h)
                          ELSE Begin(h, IF routers[r].on THEN "disable" ELSE "revoke", r)
            /\ UNCHANGED <<queue, work>>
      /\ UNCHANGED <<routers, indexed, enables, asked, outdated, overlapped, undone>>

\* DisableRemoteAccess reads the router: a removal is queued if its access is on.
ReadForDisable(h, r) ==
  /\ Does(h, "free")
  /\ Seen(r)
  /\ handler' = Begin(h, IF routers[r].on THEN "disable" ELSE "revoke", r)
  /\ UNCHANGED <<routers, queue, work, indexed, enables, asked, outdated, overlapped, undone>>

\* A removal that cannot be queued is the end of it ...
QueueDisable(h) ==
  LET r == handler[h].router
  IN  /\ Does(h, "disable")
      /\ \/ /\ Queued(r, "removeAccess")
            /\ handler' = Begin(h, "revoke", r)
         \/ /\ handler' = Done(h)
            /\ UNCHANGED <<queue, work>>
      /\ UNCHANGED <<routers, indexed, enables, asked, outdated, overlapped, undone>>

\* Mutant: the web port survives.
RevokedWinboxOnly(row) == [row EXCEPT !.on = FALSE, !.port["winbox"] = NoPort]

Revoked(row) == [row EXCEPT !.on = FALSE, !.port = [k \in Kinds |-> NoPort]]

\* ... else the row is cleared, also one that was deleted meanwhile.
Disable(h) ==
  LET r == handler[h].router
  IN  /\ Does(h, "revoke")
      /\ ~RowLocked(r)
      /\ routers' = [routers EXCEPT ![r] = Revoked(@)]
      /\ asked' = asked \ {r}
      /\ handler' = Done(h)
      /\ UNCHANGED <<queue, work, indexed, enables, outdated, overlapped, undone>>

\* DeleteRouter reads the router, deletes it in a transaction and queues the clean-up of the copy it
\* read: the removal of the access only if it had a WinBox port.  A job that cannot be queued is logged.
ReadForDelete(h, r) ==
  /\ Does(h, "free")
  /\ Seen(r)
  /\ handler' = Begin(h, IF routers[r].port["winbox"] # NoPort THEN "deleteBoth" ELSE "delete", r)
  /\ UNCHANGED <<routers, queue, work, indexed, enables, asked, outdated, overlapped, undone>>

DeleteRow(h) ==
  LET r == handler[h].router
  IN  /\ Does(h, "delete") \/ Does(h, "deleteBoth")
      /\ ~RowLocked(r)
      /\ routers' = [routers EXCEPT ![r] = [Revoked(@) EXCEPT !.live = FALSE]]
      /\ asked' = asked \ {r}
      /\ handler' = Begin(h, IF Does(h, "deleteBoth") THEN "cleanUpAccess" ELSE "cleanUpPeer", r)
      /\ UNCHANGED <<queue, work, indexed, enables, outdated, overlapped, undone>>

CleanUp(h) ==
  LET r == handler[h].router
  IN  /\ \/ /\ Does(h, "cleanUpAccess")
            /\ handler' = Begin(h, "cleanUpPeer", r)
            /\ Queued(r, "removeAccess") \/ UNCHANGED <<queue, work>>
         \/ /\ Does(h, "cleanUpPeer")
            /\ handler' = Done(h)
            /\ Queued(r, "removePeer") \/ UNCHANGED <<queue, work>>
      /\ UNCHANGED <<routers, indexed, enables, asked, outdated, overlapped, undone>>

-----------------------------------------------------------------------------
(* The agent and what its results change.                                  *)

ClaimJob(j) ==
  /\ work = NoWork
  /\ j \in queue
  /\ queue' = queue \ {j}
  /\ work' = [job |-> j, held |-> TRUE, pc |-> IF j[2] = "upsert" THEN "apply" ELSE "applied"]
  /\ UNCHANGED <<routers, handler, indexed, enables, asked, outdated, overlapped, undone>>

Written(r, new) == routers' = [routers EXCEPT ![r] = new]

\* The targets were reconciled: RecordRemoteAccessReady, whatever has become of the router.
ApplyJob ==
  LET r == work.job[1]
  IN  /\ work.pc = "apply"
      /\ work' = [work EXCEPT !.pc = "applied"]
      /\ ~RowLocked(r)
      /\ Written(r, [routers[r] EXCEPT !.on = TRUE])
      /\ UNCHANGED <<handler, queue, indexed, enables, asked, outdated, overlapped, undone>>

\* applyRouterJobStatus of a success.
Succeeded(o, row) ==
  CASE o = "upsert"       -> [row EXCEPT !.on = TRUE]
    [] o = "removeAccess" -> Revoked(row)
    [] o = "removePeer"   -> [row EXCEPT !.live = FALSE, !.address = NoAddress]

\* CompleteJob: a job that was queued again, or taken over, is not this agent's any more.
CompleteJob ==
  LET r == work.job[1]
      o == work.job[2]
  IN  /\ work.pc = "applied"
      /\ work' = NoWork
      /\ IF work.held
         THEN /\ ~RowLocked(r)
              /\ Written(r, Succeeded(o, routers[r]))
              /\ undone' = (undone \/ (o # "upsert" /\ r \in asked))
         ELSE UNCHANGED <<routers, undone>>
      /\ UNCHANGED <<handler, queue, indexed, enables, asked, outdated, overlapped>>

\* FailJob: later attempts follow, or the last one is written down.
FailJob ==
  LET r == work.job[1]
      o == work.job[2]
  IN  /\ work.pc # "none"
      /\ work' = NoWork
      /\ \/ /\ queue' = IF work.held THEN queue \union {work.job} ELSE queue
            /\ UNCHANGED routers
         \/ /\ work.held
            /\ IF o = "upsert" THEN ~RowLocked(r) /\ Written(r, [routers[r] EXCEPT !.on = TRUE])
               ELSE UNCHANGED routers
            /\ UNCHANGED queue
      /\ UNCHANGED <<handler, indexed, enables, asked, outdated, overlapped, undone>>

\* RemoteAccessTargets: what the agent is told to relay, <<port, address, service>>.
Relayed(r, k) == routers[r].live /\ routers[r].address # NoAddress /\ routers[r].on /\ routers[r].port[k] # NoPort

Targets == {<<routers[x[1]].port[x[2]], routers[x[1]].address, x[2]>> :
              x \in {y \in Routers \X Kinds : Relayed(y[1], y[2])}}

AccessNext ==
  \/ \E h \in Handlers, r \in Routers : \/ ReadForAddress(h, r)
                                        \/ Touch(h, r)
                                        \/ \E kind \in Kinds : ChoosePort(h, r, kind)
                                        \/ ReadForDisable(h, r)
                                        \/ ReadForDelete(h, r)
  \/ \E h \in Handlers : SaveRow(h) \/ AssignPort(h) \/ QueueEnable(h) \/ QueueDisable(h)
                         \/ Disable(h) \/ DeleteRow(h) \/ CleanUp(h)
  \/ \E j \in queue : ClaimJob(j)
  \/ ApplyJob \/ CompleteJob \/ FailJob

AccessSpec == AccessInit /\ [][AccessNext]_access

-----------------------------------------------------------------------------
(* Properties.                                                             *)

\* Two relays never share a public port and two routers never share a tunnel address, unless choices
\* overlapped or an outdated copy was saved; where the indexes exist two addresses and two WinBox
\* ports differ even then.
EndpointsExclusive ==
  \A r, s \in LiveRouters :
    /\ r # s /\ routers[r].address # NoAddress /\ routers[r].address = routers[s].address =>
         ~indexed /\ (overlapped \/ outdated)
    /\ \A k, l \in Kinds :
         <<r, k>> # <<s, l>> /\ routers[r].port[k] # NoPort /\ routers[r].port[k] = routers[s].port[l] =>
           /\ overlapped \/ outdated
           /\ ~(indexed /\ k = "winbox" /\ l = "winbox")

\* A router is relayed if and only if access was enabled and neither disabled nor ended by deletion
\* since, unless an outdated copy was saved or a removal finished after the router was enabled again.
AccessFollowsRequests ==
  /\ \A t \in Targets : (\E r \in asked : routers[r].address = t[2]) \/ outdated
  /\ \A r \in asked : (\E t \in Targets : t[2] = routers[r].address) \/ outdated \/ undone
=============================================================================
