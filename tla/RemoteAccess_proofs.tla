------------------------ MODULE RemoteAccess_proofs ------------------------
(***************************************************************************)
(* Theorems about RemoteAccess, for every number of routers, handlers,     *)
(* ports and addresses.                                                    *)
(***************************************************************************)
EXTENDS RemoteAccess, FiniteSetTheorems, WellFoundedInduction, TLAPS

Row == [live : BOOLEAN, address : Addresses \union {NoAddress}, on : BOOLEAN,
        port : [Kinds -> Ports \union {NoPort}]]

HandlerState ==
  [pc : {"free", "save", "saveAddress", "assign", "queue", "disable", "revoke", "delete", "deleteBoth",
         "cleanUpAccess", "cleanUpPeer"},
   router : Routers \union {0}, kind : Kinds, copy : Row, port : Ports \union {NoPort}]

Job == Routers \X {"upsert", "removeAccess", "removePeer"}

Work == {NoWork} \union [job : Job, held : BOOLEAN, pc : {"apply", "applied"}]

AccessTypes ==
  /\ routers \in [Routers -> Row]
  /\ handler \in [Handlers -> HandlerState]
  /\ queue \subseteq Job
  /\ work \in Work
  /\ asked \subseteq Routers
  /\ indexed \in BOOLEAN /\ outdated \in BOOLEAN /\ overlapped \in BOOLEAN /\ undone \in BOOLEAN

\* What a handler knows: the row it has locked is one that can be given a port, the address it is going
\* to save is one.
HandlerWell(h) ==
  /\ ~Does(h, "free") => handler[h].router \in Routers
  /\ Does(h, "assign") =>
       /\ routers[handler[h].router].live
       /\ routers[handler[h].router].address # NoAddress
       /\ handler[h].port # NoPort
  /\ Does(h, "saveAddress") => handler[h].copy.address # NoAddress

OneLock ==
  \A g, h \in Handlers :
    Does(g, "assign") /\ Does(h, "assign") /\ handler[g].router = handler[h].router => g = h

\* What the unique indexes keep apart.
Indexed ==
  indexed =>
    \A r, s \in Routers : r # s =>
      /\ routers[r].address # NoAddress => routers[r].address # routers[s].address
      /\ routers[r].live /\ routers[s].live /\ routers[r].port["winbox"] # NoPort =>
           routers[r].port["winbox"] # routers[s].port["winbox"]

\* What is kept apart where nothing overlapped.
Apart ==
  ~overlapped /\ ~outdated =>
    /\ \A r, s \in Routers : r # s /\ routers[r].live /\ routers[s].live /\ routers[r].address # NoAddress =>
         routers[r].address # routers[s].address
    /\ \A r, s \in Routers, k, l \in Kinds :
         <<r, k>> # <<s, l>> /\ routers[r].live /\ routers[s].live /\ routers[r].port[k] # NoPort =>
           routers[r].port[k] # routers[s].port[l]

\* The port a handler has chosen is still nobody else's.
Chosen ==
  ~overlapped /\ ~outdated =>
    /\ \A g, h \in Handlers : Does(g, "assign") /\ Does(h, "assign") => g = h
    /\ \A h \in Handlers, s \in Routers, l \in Kinds :
         Does(h, "assign") /\ routers[s].live /\ <<s, l>> # <<handler[h].router, handler[h].kind>> =>
           routers[s].port[l] # handler[h].port

\* The address a handler is going to save is still nobody's.
AddressChosen ==
  ~overlapped /\ ~outdated =>
    /\ \A g, h \in Handlers : Does(g, "saveAddress") /\ Does(h, "saveAddress") => g = h
    /\ \A h \in Handlers, s \in Routers :
         Does(h, "saveAddress") /\ routers[s].live => routers[s].address # handler[h].copy.address

\* A port is only held by who asked for it, and who asked for one is relayed.
PortMeansAsked(r) == ~outdated /\ (\E k \in Kinds : routers[r].port[k] # NoPort) => r \in asked

AskedMeansRelayed(r) == r \in asked /\ ~outdated /\ ~undone => \E k \in Kinds : Relayed(r, k)

IInv == /\ AccessTypes
        /\ \A h \in Handlers : HandlerWell(h)
        /\ OneLock /\ Indexed /\ Apart /\ Chosen /\ AddressChosen
        /\ \A r \in Routers : PortMeansAsked(r) /\ AskedMeansRelayed(r)

-----------------------------------------------------------------------------
(* Values.                                                                 *)

\* A set of natural numbers has a least member.
LEMMA LeastNumber ==
  ASSUME NEW T \in SUBSET Nat, T # {}
  PROVE  \E m \in T : \A n \in T : m <= n
<1>1. PICK t \in T : TRUE
  OBVIOUS
<1> DEFINE S == 0 .. t
           Z == {0 .. n : n \in {m \in T : m <= t}}
<1>2. IsFiniteSet(S)
  BY FS_Interval
<1>3. Z \subseteq SUBSET S /\ Z # {}
  BY <1>1
<1>4. IsWellFoundedOn(StrictSubsetOrdering(S), SUBSET S)
  BY <1>2, FS_FiniteSubsetsOfFinite, FS_StrictSubsetOrderingWellFounded
<1> HIDE DEF S, Z
<1>5. PICK x \in Z : \A y \in Z : ~ (<<y, x>> \in StrictSubsetOrdering(S))
  BY <1>3, <1>4, WFMin
<1>6. PICK m \in T : m <= t /\ x = 0 .. m
  BY <1>5 DEF Z
<1>7. ASSUME NEW n \in T, n < m PROVE FALSE
  <2>1. 0 .. n \in Z
    BY <1>1, <1>6, <1>7 DEF Z
  <2>2. 0 .. n \subseteq 0 .. m /\ 0 .. n # 0 .. m
    BY <1>7
  <2>3. <<0 .. n, x>> \in StrictSubsetOrdering(S)
    BY <1>3, <1>6, <2>1, <2>2 DEF StrictSubsetOrdering
  <2> QED BY <1>5, <2>1, <2>3
<1> QED BY <1>7

LEMMA ValuesTyped == NewRouter \in Row /\ Free \in HandlerState /\ NoWork \in Work
BY DEF NewRouter, Row, Free, HandlerState, NoWork, Work, Kinds

\* AllocateWireGuardIP: an address no live router has, if there is one.
LEMMA NextAddressFree ==
  ASSUME NextAddress # NoAddress
  PROVE  NextAddress \in Addresses /\ \A r \in LiveRouters : routers[r].address # NextAddress
<1> DEFINE free == {a \in Addresses : \A r \in LiveRouters : routers[r].address # a}
<1>1. free # {}
  BY DEF NextAddress
<1>2. free \in SUBSET Nat
  BY AccessAssumption
<1>3. \E a \in free : \A b \in free : a <= b
  BY <1>1, <1>2, LeastNumber
<1>4. NextAddress \in free
  BY <1>1, <1>3 DEF NextAddress
<1> QED BY <1>4

\* allocateRemotePort: the port a router has, or one nobody has.
LEMMA NextPortFree ==
  ASSUME AccessTypes, NEW r \in Routers, NEW kind \in Kinds, NextPort(r, kind) # NoPort
  PROVE  /\ NextPort(r, kind) \in Ports
         /\ \/ NextPort(r, kind) = routers[r].port[kind]
            \/ \A s \in LiveRouters, k \in Kinds : routers[s].port[k] # NextPort(r, kind)
<1> DEFINE free == {p \in Ports : ~PortTaken(p, kind)}
<1>1. CASE routers[r].port[kind] # NoPort
  BY <1>1 DEF NextPort, AccessTypes, Row
<1>2. CASE routers[r].port[kind] = NoPort
  <2>1. free # {}
    BY <1>2 DEF NextPort
  <2>2. free \in SUBSET Nat
    BY AccessAssumption
  <2>3. \E p \in free : \A b \in free : p <= b
    BY <2>1, <2>2, LeastNumber
  <2>4. NextPort(r, kind) \in free
    BY <1>2, <2>1, <2>3 DEF NextPort
  <2> QED BY <2>4 DEF PortTaken
<1> QED BY <1>1, <1>2

-----------------------------------------------------------------------------
(* Steps that leave the rows alone, and steps that only take from a row.   *)

\* What every handler does to what the handlers know, unless it chooses a port or an address.
Moves == /\ handler' \in [Handlers -> HandlerState]
         /\ \A g \in Handlers : Does(g, "assign")' \/ Does(g, "saveAddress")' => handler'[g] = handler[g]
         /\ \A g \in Handlers : ~Does(g, "free")' => handler'[g].router \in Routers

LEMMA HandlersMove ==
  ASSUME IInv, Moves, queue' \subseteq Job, work' \in Work,
         UNCHANGED <<routers, indexed, asked, outdated, overlapped, undone>>
  PROVE  IInv'
<1>1. AccessTypes'
  BY DEF IInv, Moves, AccessTypes
<1>2. \A g \in Handlers : /\ Does(g, "assign")' => Does(g, "assign") /\ handler'[g] = handler[g]
                          /\ Does(g, "saveAddress")' => Does(g, "saveAddress") /\ handler'[g] = handler[g]
  BY DEF Moves, Does
<1>3. \A g \in Handlers : HandlerWell(g)'
  BY <1>2 DEF IInv, HandlerWell, Moves, Does
<1>4. OneLock'
  BY <1>2 DEF IInv, OneLock
<1>5. Indexed' /\ Apart'
  BY DEF IInv, Indexed, Apart
<1>6. Chosen' /\ AddressChosen'
  BY <1>2 DEF IInv, Chosen, AddressChosen
<1>7. \A r \in Routers : PortMeansAsked(r)' /\ AskedMeansRelayed(r)'
  BY DEF IInv, PortMeansAsked, AskedMeansRelayed, Relayed
<1> QED BY <1>1, <1>3, <1>4, <1>5, <1>6, <1>7 DEF IInv

\* A row nobody has locked loses its address, its ports or its life, or is marked on or off.
LEMMA RowLowered ==
  ASSUME IInv, Moves, queue' \subseteq Job, work' \in Work,
         NEW r \in Routers, NEW new \in Row, ~RowLocked(r), Written(r, new),
         UNCHANGED <<indexed, outdated, overlapped>>, undone' \in BOOLEAN,
         new.live => routers[r].live,
         new.address \in {routers[r].address, NoAddress},
         \A k \in Kinds : new.port[k] \in {routers[r].port[k], NoPort},
         asked' \subseteq asked, asked \ {r} \subseteq asked', undone => undone',
         asked' = asked \/ \A k \in Kinds : new.port[k] = NoPort,
         r \in asked' /\ ~undone' =>
           new = [routers[r] EXCEPT !.on = TRUE]
  PROVE  IInv'
<1>1. /\ routers \in [Routers -> Row] /\ routers' \in [Routers -> Row]
      /\ routers'[r] = new /\ \A s \in Routers \ {r} : routers'[s] = routers[s]
  BY DEF IInv, AccessTypes, Written
<1>2. AccessTypes'
  BY <1>1 DEF IInv, Moves, AccessTypes
<1>3. \A g \in Handlers : Does(g, "assign")' => Does(g, "assign") /\ handler'[g] = handler[g]
                                                /\ handler[g].router # r
  BY DEF Moves, Does, RowLocked
<1>12. \A g \in Handlers : Does(g, "saveAddress")' => Does(g, "saveAddress") /\ handler'[g] = handler[g]
  BY DEF Moves, Does
<1>4. \A g \in Handlers : HandlerWell(g)'
  <2> TAKE g \in Handlers
  <2>1. CASE Does(g, "assign")'
    <3>1. handler[g].router \in Routers \ {r} /\ handler'[g] = handler[g] /\ HandlerWell(g) /\ Does(g, "assign")
      BY <1>3, <2>1 DEF IInv, HandlerWell, Does
    <3> QED BY <1>1, <3>1 DEF HandlerWell, Does
  <2>2. CASE ~Does(g, "assign")'
    BY <1>12, <2>2 DEF IInv, HandlerWell, Moves
  <2> QED BY <2>1, <2>2
<1>5. OneLock'
  BY <1>3 DEF IInv, OneLock
<1>6. \A s \in Routers : /\ routers'[s].live => routers[s].live
                         /\ routers'[s].address \in {routers[s].address, NoAddress}
                         /\ \A k \in Kinds : routers'[s].port[k] \in {routers[s].port[k], NoPort}
  BY <1>1
<1>7. Indexed'
  <2>1. "winbox" \in Kinds
    BY DEF Kinds
  <2> SUFFICES ASSUME indexed, NEW s \in Routers, NEW t \in Routers, s # t
               PROVE /\ routers'[s].address # NoAddress => routers'[s].address # routers'[t].address
                     /\ routers'[s].live /\ routers'[t].live /\ routers'[s].port["winbox"] # NoPort =>
                          routers'[s].port["winbox"] # routers'[t].port["winbox"]
    BY DEF Indexed
  <2> QED BY <1>6, <2>1 DEF IInv, Indexed
<1>8. Apart'
  <2> SUFFICES ASSUME ~overlapped, ~outdated
               PROVE Apart'
    BY DEF Apart
  <2>1. \A s, t \in Routers : s # t /\ routers'[s].live /\ routers'[t].live /\ routers'[s].address # NoAddress =>
          routers'[s].address # routers'[t].address
    BY <1>6 DEF IInv, Apart
  <2>2. \A s, t \in Routers, k, l \in Kinds :
          <<s, k>> # <<t, l>> /\ routers'[s].live /\ routers'[t].live /\ routers'[s].port[k] # NoPort =>
            routers'[s].port[k] # routers'[t].port[l]
    BY <1>6 DEF IInv, Apart
  <2> QED BY <2>1, <2>2 DEF Apart
<1>9. Chosen'
  <2> SUFFICES ASSUME ~overlapped, ~outdated
               PROVE Chosen'
    BY DEF Chosen
  <2>1. \A g, h \in Handlers : Does(g, "assign")' /\ Does(h, "assign")' => g = h
    BY <1>3 DEF IInv, Chosen
  <2>2. ASSUME NEW h \in Handlers, NEW s \in Routers, NEW l \in Kinds, Does(h, "assign")', routers'[s].live,
               <<s, l>> # <<handler'[h].router, handler'[h].kind>>
        PROVE  routers'[s].port[l] # handler'[h].port
    <3>1. Does(h, "assign") /\ handler'[h] = handler[h] /\ handler[h].port # NoPort /\ routers[s].live
      BY <1>3, <1>6, <2>2 DEF IInv, HandlerWell
    <3>2. routers[s].port[l] # handler[h].port
      BY <2>2, <3>1 DEF IInv, Chosen
    <3> QED BY <1>6, <3>1, <3>2
  <2> QED BY <2>1, <2>2 DEF Chosen
<1>13. AddressChosen'
  BY <1>6, <1>12 DEF IInv, HandlerWell, AddressChosen
<1>10. \A s \in Routers : PortMeansAsked(s)'
  BY <1>1, <1>6 DEF IInv, PortMeansAsked
<1>11. \A s \in Routers : AskedMeansRelayed(s)'
  <2> SUFFICES ASSUME NEW s \in Routers, s \in asked', ~outdated, ~undone'
               PROVE  \E k \in Kinds : Relayed(s, k)'
    BY DEF AskedMeansRelayed
  <2>1. PICK k \in Kinds : Relayed(s, k)
    BY DEF IInv, AskedMeansRelayed
  <2>2. routers'[s] = routers[s] \/ routers'[s] = [routers[s] EXCEPT !.on = TRUE]
    BY <1>1
  <2>3. routers[s] \in Row
    BY <1>1
  <2>4. Relayed(s, k)'
    BY <2>1, <2>2, <2>3 DEF Relayed, Row
  <2> QED BY <2>4
<1> QED BY <1>2, <1>4, <1>5, <1>7, <1>8, <1>9, <1>13, <1>10, <1>11 DEF IInv

-----------------------------------------------------------------------------
(* The steps of the handlers and of the agent.                             *)

\* What a handler is set to is again a state of a handler.
LEMMA HandlerSet ==
  ASSUME IInv, NEW h \in Handlers, NEW x \in HandlerState, handler' = [handler EXCEPT ![h] = x],
         x.pc \notin {"assign", "saveAddress"}, x.pc = "free" \/ x.router \in Routers
  PROVE  Moves
<1>1. handler \in [Handlers -> HandlerState]
  BY DEF IInv, AccessTypes
<1>2. handler'[h] = x /\ \A g \in Handlers \ {h} : handler'[g] = handler[g]
  BY <1>1
<1>3. handler' \in [Handlers -> HandlerState]
  BY <1>1
<1>4. \A g \in Handlers : HandlerWell(g)
  BY DEF IInv
<1> QED BY <1>2, <1>3, <1>4 DEF Moves, Does, HandlerWell

LEMMA Still ==
  ASSUME IInv, UNCHANGED handler
  PROVE  Moves
BY DEF IInv, AccessTypes, Moves, HandlerWell, Does

\* Begin, Copied and Done set one handler.
LEMMA Sets ==
  ASSUME IInv, NEW h \in Handlers, NEW r \in Routers
  PROVE  /\ \A p \in {"queue", "disable", "revoke", "delete", "deleteBoth", "cleanUpAccess", "cleanUpPeer"} :
              handler' = Begin(h, p, r) => Moves
         /\ \A c \in Row : handler' = Copied(h, "save", c, r) => Moves
         /\ handler' = Done(h) => Moves
<1>1. ASSUME NEW p \in {"queue", "disable", "revoke", "delete", "deleteBoth", "cleanUpAccess", "cleanUpPeer"},
             handler' = Begin(h, p, r)
      PROVE  Moves
  <2> DEFINE x == [Free EXCEPT !.pc = p, !.router = r]
  <2>1. x \in HandlerState /\ x.pc = p /\ x.router = r
    BY ValuesTyped DEF HandlerState
  <2>2. handler' = [handler EXCEPT ![h] = x]
    BY <1>1 DEF Begin
  <2> HIDE DEF x
  <2> QED BY <2>1, <2>2, HandlerSet
<1>2. ASSUME NEW c \in Row, handler' = Copied(h, "save", c, r)
      PROVE  Moves
  <2> DEFINE x == [Free EXCEPT !.pc = "save", !.router = r, !.copy = c]
  <2>1. x \in HandlerState /\ x.pc = "save" /\ x.router = r
    BY ValuesTyped DEF HandlerState
  <2>2. handler' = [handler EXCEPT ![h] = x]
    BY <1>2 DEF Copied
  <2> HIDE DEF x
  <2> QED BY <2>1, <2>2, HandlerSet
<1>3. ASSUME handler' = Done(h)
      PROVE  Moves
  BY <1>3, ValuesTyped, HandlerSet DEF Done, Free
<1> QED BY <1>1, <1>2, <1>3

\* QueueJob keeps the queue a set of jobs, and the agent at work on one.
LEMMA QueuedTyped ==
  ASSUME IInv, NEW r \in Routers, NEW o \in {"upsert", "removeAccess", "removePeer"}, Queued(r, o)
  PROVE  queue' \subseteq Job /\ work' \in Work
<1>1. queue' \subseteq Job
  BY DEF IInv, AccessTypes, Queued, Job
<1>2. CASE work.job = <<r, o>>
  <2>1. work # NoWork
    BY <1>2 DEF NoWork
  <2>2. work \in [job : Job, held : BOOLEAN, pc : {"apply", "applied"}]
    BY <2>1 DEF IInv, AccessTypes, Work
  <2> QED BY <1>1, <1>2, <2>2 DEF Queued, Work
<1>3. CASE work.job # <<r, o>>
  BY <1>1, <1>3 DEF IInv, AccessTypes, Queued
<1> QED BY <1>2, <1>3

LEMMA UnqueuedTyped ==
  ASSUME IInv, UNCHANGED <<queue, work>>
  PROVE  queue' \subseteq Job /\ work' \in Work
BY DEF IInv, AccessTypes

LEMMA ReadForAddressPreserves ==
  ASSUME IInv, NEW h \in Handlers, NEW r \in Routers, ReadForAddress(h, r)
  PROVE  IInv'
<1>1. NextAddress \in Addresses /\ \A s \in LiveRouters : routers[s].address # NextAddress
  BY NextAddressFree DEF ReadForAddress
<1> DEFINE c == [routers[r] EXCEPT !.address = NextAddress]
           x == [Free EXCEPT !.pc = "saveAddress", !.router = r, !.copy = c]
<1>2. c \in Row /\ c.address = NextAddress /\ NextAddress # NoAddress
  BY <1>1 DEF IInv, AccessTypes, Row, ReadForAddress
<1> HIDE DEF c
<1>3. x \in HandlerState /\ x.pc = "saveAddress" /\ x.router = r /\ x.copy = c
  BY <1>2, ValuesTyped DEF HandlerState
<1>4. handler' = [handler EXCEPT ![h] = x]
  BY DEF ReadForAddress, Copied, c
<1> HIDE DEF x
<1>5. /\ handler' \in [Handlers -> HandlerState]
      /\ handler'[h] = x /\ \A g \in Handlers \ {h} : handler'[g] = handler[g]
  BY <1>3, <1>4 DEF IInv, AccessTypes
<1>6. /\ overlapped' \in BOOLEAN
      /\ ~overlapped' => ~overlapped /\ \A g \in Handlers \ {h} : ~Does(g, "saveAddress")
      /\ UNCHANGED <<routers, queue, work, indexed, asked, outdated, undone>>
  BY DEF ReadForAddress, IInv, AccessTypes
<1>7. AccessTypes'
  BY <1>5, <1>6 DEF IInv, AccessTypes
<1>8. \A g \in Handlers : HandlerWell(g)'
  <2> TAKE g \in Handlers
  <2>1. CASE g = h
    BY <1>2, <1>3, <1>5, <2>1 DEF HandlerWell, Does
  <2>2. CASE g # h
    BY <1>5, <1>6, <2>2 DEF IInv, HandlerWell, Does
  <2> QED BY <2>1, <2>2
<1>9. \A g \in Handlers : Does(g, "assign")' => Does(g, "assign") /\ handler'[g] = handler[g]
  BY <1>3, <1>5 DEF Does
<1>10. OneLock' /\ Chosen'
  BY <1>6, <1>9 DEF IInv, OneLock, Chosen
<1>11. Indexed' /\ Apart'
  BY <1>6 DEF IInv, Indexed, Apart
<1>12. AddressChosen'
  <2> SUFFICES ASSUME ~overlapped', ~outdated'
               PROVE AddressChosen'
    BY DEF AddressChosen
  <2>1. \A g \in Handlers : Does(g, "saveAddress")' => g = h
    BY <1>5, <1>6 DEF Does
  <2>2. \A s \in Routers : routers[s].live => routers[s].address # x.copy.address
    BY <1>1, <1>2, <1>3 DEF LiveRouters
  <2> QED BY <1>5, <1>6, <2>1, <2>2 DEF AddressChosen
<1>13. \A s \in Routers : PortMeansAsked(s)' /\ AskedMeansRelayed(s)'
  BY <1>6 DEF IInv, PortMeansAsked, AskedMeansRelayed, Relayed
<1> QED BY <1>7, <1>8, <1>10, <1>11, <1>12, <1>13 DEF IInv

LEMMA TouchPreserves ==
  ASSUME IInv, NEW h \in Handlers, NEW r \in Routers, Touch(h, r)
  PROVE  IInv'
<1>1. routers[r] \in Row
  BY DEF IInv, AccessTypes
<1>2. Moves
  BY <1>1, Sets DEF Touch
<1> QED BY <1>2, UnqueuedTyped, HandlersMove DEF Touch

LEMMA ReadForDisablePreserves ==
  ASSUME IInv, NEW h \in Handlers, NEW r \in Routers, ReadForDisable(h, r)
  PROVE  IInv'
<1>1. Moves
  BY Sets DEF ReadForDisable
<1> QED BY <1>1, UnqueuedTyped, HandlersMove DEF ReadForDisable

LEMMA ReadForDeletePreserves ==
  ASSUME IInv, NEW h \in Handlers, NEW r \in Routers, ReadForDelete(h, r)
  PROVE  IInv'
<1>1. Moves
  BY Sets DEF ReadForDelete
<1> QED BY <1>1, UnqueuedTyped, HandlersMove DEF ReadForDelete

\* A handler that is not free has a router.
LEMMA HandlerRouter ==
  ASSUME IInv, NEW h \in Handlers, ~Does(h, "free")
  PROVE  handler[h].router \in Routers
BY DEF IInv, HandlerWell

LEMMA QueueEnablePreserves ==
  ASSUME IInv, NEW h \in Handlers, QueueEnable(h)
  PROVE  IInv'
<1>1. ~Does(h, "free")
  BY DEF QueueEnable, Does
<1>2. PICK r \in Routers : r = handler[h].router
  BY <1>1, HandlerRouter
<1>3. Moves
  BY <1>2, Sets DEF QueueEnable
<1>4. queue' \subseteq Job /\ work' \in Work
  BY <1>2, QueuedTyped, UnqueuedTyped DEF QueueEnable
<1> QED BY <1>3, <1>4, HandlersMove DEF QueueEnable

LEMMA QueueDisablePreserves ==
  ASSUME IInv, NEW h \in Handlers, QueueDisable(h)
  PROVE  IInv'
<1>1. ~Does(h, "free")
  BY DEF QueueDisable, Does
<1>2. PICK r \in Routers : r = handler[h].router
  BY <1>1, HandlerRouter
<1>3. Moves
  BY <1>2, Sets DEF QueueDisable
<1>4. queue' \subseteq Job /\ work' \in Work
  BY <1>2, QueuedTyped, UnqueuedTyped DEF QueueDisable
<1> QED BY <1>3, <1>4, HandlersMove DEF QueueDisable

LEMMA CleanUpPreserves ==
  ASSUME IInv, NEW h \in Handlers, CleanUp(h)
  PROVE  IInv'
<1>1. ~Does(h, "free")
  BY DEF CleanUp, Does
<1>2. PICK r \in Routers : r = handler[h].router
  BY <1>1, HandlerRouter
<1>3. Moves
  BY <1>2, Sets DEF CleanUp
<1>4. queue' \subseteq Job /\ work' \in Work
  BY <1>2, QueuedTyped, UnqueuedTyped DEF CleanUp
<1> QED BY <1>3, <1>4, HandlersMove DEF CleanUp

LEMMA ClaimJobPreserves ==
  ASSUME IInv, NEW j \in queue, ClaimJob(j)
  PROVE  IInv'
<1>1. queue \subseteq Job /\ j \in Job
  BY DEF IInv, AccessTypes
<1>2. queue' \subseteq Job /\ work' \in Work
  BY <1>1 DEF ClaimJob, Work
<1> QED BY <1>2, Still, HandlersMove DEF ClaimJob

\* Revoked takes the ports and the mark of a row, ApplyJob and the last failure only mark it.
LEMMA RevokedRow ==
  ASSUME NEW row \in Row
  PROVE  /\ Revoked(row) \in Row /\ [Revoked(row) EXCEPT !.live = FALSE] \in Row
         /\ \A new \in {Revoked(row), [Revoked(row) EXCEPT !.live = FALSE]} :
              /\ new.live => row.live
              /\ new.address = row.address
              /\ \A k \in Kinds : new.port[k] = NoPort
<1> DEFINE none == [k \in Kinds |-> NoPort]
           new == Revoked(row)
           gone == [new EXCEPT !.live = FALSE]
<1>1. none \in [Kinds -> Ports \union {NoPort}] /\ \A k \in Kinds : none[k] = NoPort
  OBVIOUS
<1>2. new = [row EXCEPT !.on = FALSE, !.port = none]
  BY DEF Revoked
<1> HIDE DEF none, new
<1>3. /\ new \in [live : BOOLEAN, address : Addresses \union {NoAddress}, on : BOOLEAN, port : {none}]
      /\ new.live = row.live /\ new.address = row.address /\ new.port = none
  BY <1>2 DEF Row
<1> HIDE DEF gone
<1>4. /\ gone \in [live : BOOLEAN, address : Addresses \union {NoAddress}, on : BOOLEAN, port : {none}]
      /\ gone.live = FALSE /\ gone.address = row.address /\ gone.port = none
  BY <1>3 DEF gone
<1>5. new \in Row /\ gone \in Row
  BY <1>1, <1>3, <1>4 DEF Row
<1> QED BY <1>1, <1>3, <1>4, <1>5 DEF new, gone

LEMMA DisablePreserves ==
  ASSUME IInv, NEW h \in Handlers, Disable(h)
  PROVE  IInv'
<1>1. ~Does(h, "free")
  BY DEF Disable, Does
<1>2. PICK r \in Routers : r = handler[h].router
  BY <1>1, HandlerRouter
<1>3. routers[r] \in Row
  BY <1>2 DEF IInv, AccessTypes
<1> DEFINE new == Revoked(routers[r])
<1>4. Moves
  BY <1>2, Sets DEF Disable
<1>5. /\ new \in Row /\ (new.live => routers[r].live) /\ new.address = routers[r].address
      /\ \A k \in Kinds : new.port[k] = NoPort
  BY <1>3, RevokedRow
<1>6. ~RowLocked(r) /\ Written(r, new) /\ asked' = asked \ {r} /\ UNCHANGED <<queue, work, indexed, outdated, overlapped, undone>>
  BY <1>2 DEF Disable, Written
<1>7. asked \subseteq Routers /\ undone \in BOOLEAN
  BY DEF IInv, AccessTypes
<1> HIDE DEF new
<1> QED BY <1>4, <1>5, <1>6, <1>7, UnqueuedTyped, RowLowered

LEMMA DeleteRowPreserves ==
  ASSUME IInv, NEW h \in Handlers, DeleteRow(h)
  PROVE  IInv'
<1>1. ~Does(h, "free")
  BY DEF DeleteRow, Does
<1>2. PICK r \in Routers : r = handler[h].router
  BY <1>1, HandlerRouter
<1>3. routers[r] \in Row
  BY <1>2 DEF IInv, AccessTypes
<1> DEFINE new == [Revoked(routers[r]) EXCEPT !.live = FALSE]
<1>4. Moves
  BY <1>2, Sets DEF DeleteRow
<1>5. /\ new \in Row /\ (new.live => routers[r].live) /\ new.address = routers[r].address
      /\ \A k \in Kinds : new.port[k] = NoPort
  BY <1>3, RevokedRow
<1>6. ~RowLocked(r) /\ Written(r, new) /\ asked' = asked \ {r} /\ UNCHANGED <<queue, work, indexed, outdated, overlapped, undone>>
  BY <1>2 DEF DeleteRow, Written
<1>7. asked \subseteq Routers /\ undone \in BOOLEAN
  BY DEF IInv, AccessTypes
<1> HIDE DEF new
<1> QED BY <1>4, <1>5, <1>6, <1>7, UnqueuedTyped, RowLowered

\* The job the agent is at.
LEMMA WorkJob ==
  ASSUME IInv, work.pc # "none"
  PROVE  /\ work.job \in Job /\ work.held \in BOOLEAN /\ work.pc \in {"apply", "applied"}
         /\ work.job[1] \in Routers /\ work.job[2] \in {"upsert", "removeAccess", "removePeer"}
<1>1. work # NoWork
  BY DEF NoWork
<1> QED BY <1>1 DEF IInv, AccessTypes, Work, Job

\* The row of a job marked on.
LEMMA RowMarked ==
  ASSUME IInv, Moves, queue' \subseteq Job, work' \in Work,
         NEW r \in Routers, ~RowLocked(r), Written(r, [routers[r] EXCEPT !.on = TRUE]),
         UNCHANGED <<indexed, asked, outdated, overlapped>>, undone' \in BOOLEAN, undone => undone'
  PROVE  IInv'
<1> DEFINE new == [routers[r] EXCEPT !.on = TRUE]
<1>1. routers[r] \in Row
  BY DEF IInv, AccessTypes
<1>2. /\ new \in Row /\ new.live = routers[r].live /\ new.address = routers[r].address
      /\ \A k \in Kinds : new.port[k] = routers[r].port[k]
  BY <1>1 DEF Row
<1>3. new = [routers[r] EXCEPT !.on = TRUE] /\ Written(r, new)
  OBVIOUS
<1> HIDE DEF new
<1> QED BY <1>2, <1>3, RowLowered

LEMMA ApplyJobPreserves ==
  ASSUME IInv, ApplyJob
  PROVE  IInv'
<1>1. work.pc = "apply"
  BY DEF ApplyJob
<1>2. PICK r \in Routers : r = work.job[1]
  BY <1>1, WorkJob
<1>3. work' \in Work /\ queue' \subseteq Job
  <2>1. work \in [job : Job, held : BOOLEAN, pc : {"apply", "applied"}]
    BY <1>1 DEF IInv, AccessTypes, Work, NoWork
  <2> QED BY <2>1 DEF ApplyJob, Work, IInv, AccessTypes
<1>4. Moves
  BY Still DEF ApplyJob
<1>5. undone \in BOOLEAN
  BY DEF IInv, AccessTypes
<1> QED BY <1>2, <1>3, <1>4, <1>5, RowMarked DEF ApplyJob

LEMMA FailJobPreserves ==
  ASSUME IInv, FailJob
  PROVE  IInv'
<1>1. work.pc # "none"
  BY DEF FailJob
<1>2. PICK r \in Routers : r = work.job[1]
  BY <1>1, WorkJob
<1>3. work' \in Work /\ queue' \subseteq Job
  BY <1>1, WorkJob, ValuesTyped DEF FailJob, IInv, AccessTypes
<1>4. Moves
  BY Still DEF FailJob
<1>5. undone \in BOOLEAN
  BY DEF IInv, AccessTypes
<1>6. CASE UNCHANGED routers
  BY <1>3, <1>4, <1>6, HandlersMove DEF FailJob
<1>7. CASE ~UNCHANGED routers
  <2>1. ~RowLocked(r) /\ Written(r, [routers[r] EXCEPT !.on = TRUE])
    BY <1>2, <1>7 DEF FailJob
  <2> QED BY <1>2, <1>3, <1>4, <1>5, <2>1, RowMarked DEF FailJob
<1> QED BY <1>6, <1>7

LEMMA CompleteJobPreserves ==
  ASSUME IInv, CompleteJob
  PROVE  IInv'
<1>1. work.pc # "none"
  BY DEF CompleteJob
<1>2. PICK r \in Routers, o \in {"upsert", "removeAccess", "removePeer"} : r = work.job[1] /\ o = work.job[2]
  BY <1>1, WorkJob
<1>3. work' \in Work /\ queue' \subseteq Job
  BY ValuesTyped DEF CompleteJob, IInv, AccessTypes
<1>4. Moves
  BY Still DEF CompleteJob
<1>5. undone \in BOOLEAN /\ undone' \in BOOLEAN /\ (undone => undone') /\ asked \subseteq Routers
  BY DEF IInv, AccessTypes, CompleteJob
<1>6. CASE ~work.held
  BY <1>3, <1>4, <1>6, HandlersMove DEF CompleteJob
<1>7. CASE work.held
  <2>1. /\ ~RowLocked(r) /\ Written(r, Succeeded(o, routers[r]))
        /\ undone' = (undone \/ (o # "upsert" /\ r \in asked))
        /\ UNCHANGED <<indexed, asked, outdated, overlapped>>
    BY <1>2, <1>7 DEF CompleteJob
  <2>2. routers[r] \in Row
    BY DEF IInv, AccessTypes
  <2>3. CASE o = "upsert"
    <3>1. Written(r, [routers[r] EXCEPT !.on = TRUE])
      BY <2>1, <2>3 DEF Succeeded
    <3> QED BY <1>3, <1>4, <1>5, <2>1, <3>1, RowMarked
  <2>4. CASE o # "upsert"
    <3> DEFINE new == Succeeded(o, routers[r])
    <3>1. new = Revoked(routers[r]) \/ new = [routers[r] EXCEPT !.live = FALSE, !.address = NoAddress]
      BY <2>4 DEF Succeeded
    <3>2. /\ new \in Row /\ (new.live => routers[r].live) /\ new.address \in {routers[r].address, NoAddress}
          /\ \A k \in Kinds : new.port[k] \in {routers[r].port[k], NoPort}
      <4>1. CASE new = Revoked(routers[r])
        <5>1. /\ Revoked(routers[r]) \in Row
              /\ (Revoked(routers[r]).live => routers[r].live) /\ Revoked(routers[r]).address = routers[r].address
              /\ \A k \in Kinds : Revoked(routers[r]).port[k] = NoPort
          BY <2>2, RevokedRow
        <5> HIDE DEF new
        <5> QED BY <4>1, <5>1
      <4>2. CASE new = [routers[r] EXCEPT !.live = FALSE, !.address = NoAddress]
        BY <2>2, <4>2 DEF Row
      <4> QED BY <3>1, <4>1, <4>2
    <3> HIDE DEF new
    <3>3. Written(r, new)
      BY <2>1 DEF new
    <3>4. asked' = asked /\ (r \in asked' => undone')
      BY <2>1, <2>4
    <3> QED BY <1>3, <1>4, <1>5, <2>1, <3>2, <3>3, <3>4, RowLowered
  <2> QED BY <2>3, <2>4
<1> QED BY <1>6, <1>7

LEMMA SaveRowPreserves ==
  ASSUME IInv, NEW h \in Handlers, SaveRow(h)
  PROVE  IInv'
<1>1. Does(h, "save") \/ Does(h, "saveAddress")
  BY DEF SaveRow
<1>2. PICK r \in Routers : r = handler[h].router
  BY <1>1, HandlerRouter DEF Does
<1>3. PICK c \in Row : c = handler[h].copy
  BY DEF IInv, AccessTypes, HandlerState
<1>4. Moves
  BY <1>2, Sets DEF SaveRow
<1>5. queue' \subseteq Job /\ work' \in Work
  BY UnqueuedTyped DEF SaveRow
<1>6. CASE ~IndexAllows(r, c)
  BY <1>2, <1>3, <1>4, <1>5, <1>6, HandlersMove DEF SaveRow
<1>7. CASE IndexAllows(r, c)
  <2> DEFINE new == Does(h, "saveAddress")
  <2>1. /\ ~RowLocked(r)
        /\ routers' = [routers EXCEPT ![r] = c]
        /\ outdated' = (outdated \/ ~UpToDate(h))
        /\ UNCHANGED <<indexed, asked, overlapped, undone>>
    BY <1>2, <1>3, <1>7 DEF SaveRow
  <2>2. /\ routers \in [Routers -> Row] /\ routers' \in [Routers -> Row]
        /\ routers'[r] = c /\ \A s \in Routers \ {r} : routers'[s] = routers[s]
    BY <2>1 DEF IInv, AccessTypes
  <2>3. AccessTypes'
    BY <1>4, <1>5, <2>1, <2>2 DEF IInv, Moves, AccessTypes
  <2>4. \A g \in Handlers : Does(g, "assign")' => Does(g, "assign") /\ handler'[g] = handler[g]
                                                  /\ handler[g].router # r
    BY <1>4, <2>1 DEF Moves, Does, RowLocked
  <2>5. \A g \in Handlers : HandlerWell(g)'
    <3> TAKE g \in Handlers
    <3>1. CASE Does(g, "assign")'
      <4>1. handler[g].router \in Routers \ {r} /\ handler'[g] = handler[g] /\ HandlerWell(g) /\ Does(g, "assign")
        BY <2>4, <3>1 DEF IInv, HandlerWell, Does
      <4> QED BY <2>2, <4>1 DEF HandlerWell, Does
    <3>2. CASE ~Does(g, "assign")'
      BY <1>4, <3>2 DEF IInv, HandlerWell, Moves, Does
    <3> QED BY <3>1, <3>2
  <2>6. OneLock'
    BY <2>4 DEF IInv, OneLock
  <2>7. Indexed'
    <3> SUFFICES ASSUME indexed, NEW s \in Routers, NEW t \in Routers, s # t
                 PROVE /\ routers'[s].address # NoAddress => routers'[s].address # routers'[t].address
                       /\ routers'[s].live /\ routers'[t].live /\ routers'[s].port["winbox"] # NoPort =>
                            routers'[s].port["winbox"] # routers'[t].port["winbox"]
      BY <2>1 DEF Indexed
    <3>1. \A u \in Routers \ {r} :
            /\ c.address # NoAddress => routers[u].address # c.address
            /\ c.live /\ routers[u].live /\ c.port["winbox"] # NoPort => routers[u].port["winbox"] # c.port["winbox"]
      BY <1>7 DEF IndexAllows
    <3>2. CASE s = r
      BY <2>2, <3>1, <3>2
    <3>3. CASE t = r
      BY <2>2, <3>1, <3>3
    <3>4. CASE s # r /\ t # r
      BY <2>2, <3>4 DEF IInv, Indexed
    <3> QED BY <3>2, <3>3, <3>4
  <2>8. ASSUME ~outdated'
        PROVE  /\ ~outdated
               /\ c.live = routers[r].live /\ c.on = routers[r].on /\ c.port = routers[r].port
               /\ c.address = routers[r].address \/ new
               /\ new => routers[r].address = NoAddress
    <3>1. UpToDate(h) /\ ~outdated
      BY <2>1, <2>8
    <3>2. CASE new
      <4>1. [c EXCEPT !.address = NoAddress] = routers[r]
        BY <1>2, <1>3, <3>1, <3>2 DEF UpToDate
      <4> QED BY <2>2, <3>1, <3>2, <4>1 DEF Row
    <3>3. CASE ~new
      BY <1>2, <1>3, <3>1, <3>3 DEF UpToDate
    <3> QED BY <3>2, <3>3
  <2>9. ASSUME ~outdated', ~overlapped'
        PROVE  ~overlapped /\ (new => \A s \in Routers \ {r} : routers[s].live => routers[s].address # c.address)
    BY <1>3, <2>1, <2>8, <2>9 DEF IInv, AddressChosen
  <2> HIDE DEF new
  <2>10. ASSUME ~outdated'
         PROVE  \A s \in Routers : /\ routers'[s].live = routers[s].live /\ routers'[s].on = routers[s].on
                                   /\ routers'[s].port = routers[s].port
                                   /\ routers[s].address # NoAddress => routers'[s].address = routers[s].address
    BY <2>2, <2>8, <2>10 DEF new
  <2>11. Apart'
    <3> SUFFICES ASSUME ~overlapped', ~outdated'
                 PROVE Apart'
      BY DEF Apart
    <3>1. ASSUME NEW s \in Routers, NEW t \in Routers, s # t, routers'[s].live, routers'[t].live,
                 routers'[s].address # NoAddress
          PROVE  routers'[s].address # routers'[t].address
      <4>1. routers[s].live /\ routers[t].live
        BY <2>10, <3>1
      <4>2. CASE s = r /\ new
        BY <2>2, <2>9, <3>1, <4>1, <4>2
      <4>3. CASE t = r /\ new
        BY <2>2, <2>9, <3>1, <4>1, <4>3
      <4>4. CASE ~(s = r /\ new) /\ ~(t = r /\ new)
        <5>1. routers'[s].address = routers[s].address /\ routers'[t].address = routers[t].address
          BY <2>2, <2>8, <4>4
        <5> QED BY <2>8, <2>9, <3>1, <4>1, <5>1 DEF IInv, Apart
      <4> QED BY <4>2, <4>3, <4>4
    <3>2. \A s, t \in Routers, k, l \in Kinds :
            <<s, k>> # <<t, l>> /\ routers'[s].live /\ routers'[t].live /\ routers'[s].port[k] # NoPort =>
              routers'[s].port[k] # routers'[t].port[l]
      BY <2>8, <2>9, <2>10 DEF IInv, Apart
    <3> QED BY <3>1, <3>2 DEF Apart
  <2>12. Chosen'
    <3> SUFFICES ASSUME ~overlapped', ~outdated'
                 PROVE Chosen'
      BY DEF Chosen
    <3>1. ~overlapped /\ ~outdated
      BY <2>8, <2>9
    <3>2. \A f, g \in Handlers : Does(f, "assign")' /\ Does(g, "assign")' => f = g
      BY <2>4, <3>1 DEF IInv, Chosen
    <3>3. ASSUME NEW g \in Handlers, NEW s \in Routers, NEW l \in Kinds, Does(g, "assign")', routers'[s].live,
                 <<s, l>> # <<handler'[g].router, handler'[g].kind>>
          PROVE  routers'[s].port[l] # handler'[g].port
      <4>1. Does(g, "assign") /\ handler'[g] = handler[g] /\ routers[s].live /\ routers'[s].port = routers[s].port
        BY <2>4, <2>10, <3>3
      <4> QED BY <3>1, <3>3, <4>1 DEF IInv, Chosen
    <3> QED BY <3>2, <3>3 DEF Chosen
  <2>15. AddressChosen'
    <3> SUFFICES ASSUME ~overlapped', ~outdated'
                 PROVE AddressChosen'
      BY DEF AddressChosen
    <3>1. ~overlapped /\ ~outdated
      BY <2>8, <2>9
    <3>2. \A g \in Handlers : Does(g, "saveAddress")' => Does(g, "saveAddress") /\ handler'[g] = handler[g] /\ g # h
      <4>1. handler'[h].pc = "free"
        BY DEF SaveRow, Done, Free, IInv, AccessTypes
      <4> QED BY <1>4, <4>1 DEF Moves, Does
    <3>3. CASE new
      <4>1. \A g \in Handlers : ~Does(g, "saveAddress")'
        BY <3>1, <3>2, <3>3 DEF IInv, AddressChosen, new
      <4> QED BY <4>1 DEF AddressChosen
    <3>4. CASE ~new
      <4>1. \A s \in Routers : routers'[s].live = routers[s].live /\ routers'[s].address = routers[s].address
        BY <2>2, <2>8, <3>4
      <4> QED BY <3>1, <3>2, <4>1 DEF IInv, AddressChosen
    <3> QED BY <3>3, <3>4
  <2>13. \A s \in Routers : PortMeansAsked(s)'
    BY <2>1, <2>8, <2>10 DEF IInv, PortMeansAsked
  <2>14. \A s \in Routers : AskedMeansRelayed(s)'
    <3> SUFFICES ASSUME NEW s \in Routers, s \in asked', ~outdated', ~undone'
                 PROVE  \E k \in Kinds : Relayed(s, k)'
      BY DEF AskedMeansRelayed
    <3>1. PICK k \in Kinds : Relayed(s, k)
      BY <2>1, <2>8 DEF IInv, AskedMeansRelayed
    <3>2. Relayed(s, k)'
      BY <2>10, <3>1 DEF Relayed
    <3> QED BY <3>2
  <2> QED BY <2>3, <2>5, <2>6, <2>7, <2>11, <2>12, <2>15, <2>13, <2>14 DEF IInv
<1> QED BY <1>6, <1>7

LEMMA ChoosePortPreserves ==
  ASSUME IInv, NEW h \in Handlers, NEW r \in Routers, NEW kind \in Kinds, ChoosePort(h, r, kind)
  PROVE  IInv'
<1>1. PICK p \in Ports : p = NextPort(r, kind)
  BY NextPortFree DEF IInv, ChoosePort
<1>2. p # NoPort
  BY <1>1 DEF ChoosePort
<1>3. AccessTypes
  BY DEF IInv
<1> DEFINE x == [Free EXCEPT !.pc = "assign", !.router = r, !.kind = kind, !.port = p]
<1>4. x \in HandlerState /\ x.pc = "assign" /\ x.router = r /\ x.kind = kind /\ x.port = p
  BY ValuesTyped DEF HandlerState
<1>5. handler' = [handler EXCEPT ![h] = x]
  BY <1>1, <1>3 DEF ChoosePort, Begin, AccessTypes
<1> HIDE DEF x
<1>6. /\ handler' \in [Handlers -> HandlerState]
      /\ handler'[h] = x /\ \A g \in Handlers \ {h} : handler'[g] = handler[g]
  BY <1>3, <1>4, <1>5 DEF AccessTypes
<1>7. /\ Does(h, "free") /\ routers[r].live /\ ~RowLocked(r) /\ routers[r].address # NoAddress
      /\ overlapped' = (overlapped \/ \E g \in Handlers \ {h} : Does(g, "assign"))
      /\ UNCHANGED <<routers, queue, work, indexed, asked, outdated, undone>>
  BY DEF ChoosePort, Seen
<1>8. AccessTypes'
  BY <1>3, <1>6, <1>7 DEF AccessTypes
<1>9. \A g \in Handlers : HandlerWell(g)'
  <2> TAKE g \in Handlers
  <2>1. CASE g = h
    BY <1>2, <1>4, <1>6, <1>7, <2>1 DEF HandlerWell, Does
  <2>2. CASE g # h
    BY <1>6, <1>7, <2>2 DEF IInv, HandlerWell, Does
  <2> QED BY <2>1, <2>2
<1>10. OneLock'
  BY <1>4, <1>6, <1>7 DEF IInv, OneLock, RowLocked, Does
<1>11. Indexed'
  BY <1>7 DEF IInv, Indexed
<1>12. Apart'
  BY <1>7 DEF IInv, Apart
<1>13. Chosen'
  <2> SUFFICES ASSUME ~overlapped', ~outdated'
               PROVE Chosen'
    BY DEF Chosen
  <2>1. ~overlapped /\ ~outdated /\ \A g \in Handlers : g # h => ~Does(g, "assign")
    BY <1>7
  <2>2. \A g \in Handlers : Does(g, "assign")' => g = h
    BY <1>6, <2>1 DEF Does
  <2>3. ASSUME NEW s \in Routers, NEW l \in Kinds, routers[s].live, <<s, l>> # <<r, kind>>
        PROVE  routers[s].port[l] # p
    <3>1. CASE p = routers[r].port[kind]
      BY <1>2, <1>7, <2>1, <2>3, <3>1 DEF IInv, Apart
    <3>2. CASE p # routers[r].port[kind]
      <4>1. \A t \in LiveRouters, k \in Kinds : routers[t].port[k] # p
        BY <1>1, <1>2, <1>3, <3>2, NextPortFree
      <4> QED BY <2>3, <4>1 DEF LiveRouters
    <3> QED BY <3>1, <3>2
  <2>4. ASSUME NEW g \in Handlers, NEW s \in Routers, NEW l \in Kinds, Does(g, "assign")', routers'[s].live,
               <<s, l>> # <<handler'[g].router, handler'[g].kind>>
        PROVE  routers'[s].port[l] # handler'[g].port
    BY <1>4, <1>6, <1>7, <2>2, <2>3, <2>4
  <2> QED BY <2>2, <2>4 DEF Chosen
<1>15. AddressChosen'
  <2>1. \A g \in Handlers : Does(g, "saveAddress")' => Does(g, "saveAddress") /\ handler'[g] = handler[g]
    BY <1>4, <1>6 DEF Does
  <2> QED BY <1>7, <2>1 DEF IInv, AddressChosen
<1>14. \A s \in Routers : PortMeansAsked(s)' /\ AskedMeansRelayed(s)'
  BY <1>7 DEF IInv, PortMeansAsked, AskedMeansRelayed, Relayed
<1> QED BY <1>8, <1>9, <1>10, <1>11, <1>12, <1>13, <1>15, <1>14 DEF IInv

LEMMA AssignPortPreserves ==
  ASSUME IInv, NEW h \in Handlers, AssignPort(h)
  PROVE  IInv'
<1>1. Does(h, "assign") /\ ~Does(h, "free")
  BY DEF AssignPort, Does
<1>2. PICK r \in Routers : r = handler[h].router
  BY <1>1, HandlerRouter
<1>3. PICK kind \in Kinds, p \in Ports \union {NoPort} : kind = handler[h].kind /\ p = handler[h].port
  BY DEF IInv, AccessTypes, HandlerState
<1>4. p # NoPort /\ routers[r].live /\ routers[r].address # NoAddress
  BY <1>1, <1>2, <1>3 DEF IInv, HandlerWell
<1> DEFINE new == [routers[r] EXCEPT !.on = TRUE, !.port[kind] = p]
<1>5. Moves
  BY <1>2, Sets DEF AssignPort
<1>6. queue' \subseteq Job /\ work' \in Work
  BY UnqueuedTyped DEF AssignPort
<1>7. CASE ~IndexAllows(r, new)
  BY <1>2, <1>3, <1>5, <1>6, <1>7, HandlersMove DEF AssignPort
<1>8. CASE IndexAllows(r, new)
  <2>1. /\ routers' = [routers EXCEPT ![r] = new]
        /\ asked' = asked \union {r}
        /\ handler' = Begin(h, "queue", r)
        /\ UNCHANGED <<indexed, outdated, overlapped, undone>>
    BY <1>2, <1>3, <1>8 DEF AssignPort
  <2>2. routers \in [Routers -> Row] /\ routers[r] \in Row
    BY DEF IInv, AccessTypes
  <2>3. /\ new \in Row /\ new.live = routers[r].live /\ new.address = routers[r].address /\ new.on = TRUE
        /\ new.port[kind] = p /\ \A k \in Kinds \ {kind} : new.port[k] = routers[r].port[k]
    BY <2>2 DEF Row
  <2> HIDE DEF new
  <2>4. /\ routers' \in [Routers -> Row]
        /\ routers'[r] = new /\ \A s \in Routers \ {r} : routers'[s] = routers[s]
    BY <2>1, <2>2, <2>3
  <2>5. AccessTypes'
    BY <1>5, <1>6, <2>1, <2>4 DEF IInv, Moves, AccessTypes
  <2>6. \A g \in Handlers : Does(g, "assign")' => Does(g, "assign") /\ handler'[g] = handler[g] /\ g # h
                                                  /\ handler[g].router # r
    <3>1. ~Does(h, "assign")'
      <4>1. handler \in [Handlers -> HandlerState]
        BY DEF IInv, AccessTypes
      <4>2. handler'[h].pc = "queue"
        BY <2>1, <4>1 DEF Begin, Free
      <4> QED BY <4>2 DEF Does
    <3> QED BY <1>1, <1>2, <1>5, <3>1 DEF Moves, Does, IInv, OneLock
  <2>7. \A g \in Handlers : HandlerWell(g)'
    <3> TAKE g \in Handlers
    <3>1. CASE Does(g, "assign")'
      <4>1. handler[g].router \in Routers \ {r} /\ handler'[g] = handler[g] /\ HandlerWell(g) /\ Does(g, "assign")
        BY <2>6, <3>1 DEF IInv, HandlerWell, Does
      <4> QED BY <2>4, <4>1 DEF HandlerWell, Does
    <3>2. CASE ~Does(g, "assign")'
      BY <1>5, <3>2 DEF IInv, HandlerWell, Moves, Does
    <3> QED BY <3>1, <3>2
  <2>8. OneLock'
    BY <2>6 DEF IInv, OneLock
  <2>9. Indexed'
    <3> SUFFICES ASSUME indexed, NEW s \in Routers, NEW t \in Routers, s # t
                 PROVE /\ routers'[s].address # NoAddress => routers'[s].address # routers'[t].address
                       /\ routers'[s].live /\ routers'[t].live /\ routers'[s].port["winbox"] # NoPort =>
                            routers'[s].port["winbox"] # routers'[t].port["winbox"]
      BY <2>1 DEF Indexed
    <3>1. \A u \in Routers \ {r} :
            /\ new.address # NoAddress => routers[u].address # new.address
            /\ new.live /\ routers[u].live /\ new.port["winbox"] # NoPort => routers[u].port["winbox"] # new.port["winbox"]
      BY <1>8 DEF IndexAllows
    <3>2. CASE s = r
      BY <2>4, <3>1, <3>2
    <3>3. CASE t = r
      BY <2>4, <3>1, <3>3
    <3>4. CASE s # r /\ t # r
      BY <2>4, <3>4 DEF IInv, Indexed
    <3> QED BY <3>2, <3>3, <3>4
  <2>10. \A s \in Routers : routers'[s].live = routers[s].live /\ routers'[s].address = routers[s].address
    BY <2>3, <2>4
  <2>11. \A s \in Routers, k \in Kinds : <<s, k>> # <<r, kind>> => routers'[s].port[k] = routers[s].port[k]
    BY <2>3, <2>4
  <2>12. routers'[r].port[kind] = p
    BY <2>3, <2>4
  <2>13. Apart'
    <3> SUFFICES ASSUME ~overlapped, ~outdated
                 PROVE Apart'
      BY <2>1 DEF Apart
    <3>1. \A s, t \in Routers : s # t /\ routers'[s].live /\ routers'[t].live /\ routers'[s].address # NoAddress =>
            routers'[s].address # routers'[t].address
      BY <2>10 DEF IInv, Apart
    <3>2. \A s \in Routers, l \in Kinds : routers[s].live /\ <<s, l>> # <<r, kind>> => routers[s].port[l] # p
      BY <1>1, <1>2, <1>3 DEF IInv, Chosen
    <3>3. ASSUME NEW s \in Routers, NEW t \in Routers, NEW k \in Kinds, NEW l \in Kinds,
                 <<s, k>> # <<t, l>>, routers'[s].live, routers'[t].live, routers'[s].port[k] # NoPort
          PROVE  routers'[s].port[k] # routers'[t].port[l]
      <4>1. routers[s].live /\ routers[t].live
        BY <2>10, <3>3
      <4>2. CASE <<s, k>> = <<r, kind>>
        BY <2>11, <2>12, <3>2, <3>3, <4>1, <4>2
      <4>3. CASE <<t, l>> = <<r, kind>>
        BY <2>11, <2>12, <3>2, <3>3, <4>1, <4>3
      <4>4. CASE <<s, k>> # <<r, kind>> /\ <<t, l>> # <<r, kind>>
        <5>1. routers'[s].port[k] = routers[s].port[k] /\ routers'[t].port[l] = routers[t].port[l]
          BY <2>11, <4>4
        <5> QED BY <3>3, <4>1, <5>1 DEF IInv, Apart
      <4> QED BY <4>2, <4>3, <4>4
    <3> QED BY <3>1, <3>3 DEF Apart
  <2>14. Chosen'
    <3> SUFFICES ASSUME ~overlapped, ~outdated
                 PROVE Chosen'
      BY <2>1 DEF Chosen
    <3>1. \A g \in Handlers : ~Does(g, "assign")'
      BY <1>1, <2>6 DEF IInv, Chosen
    <3> QED BY <3>1 DEF Chosen
  <2>17. AddressChosen'
    <3>1. \A g \in Handlers : Does(g, "saveAddress")' => Does(g, "saveAddress") /\ handler'[g] = handler[g]
      BY <1>5 DEF Moves, Does
    <3> QED BY <2>1, <2>10, <3>1 DEF IInv, AddressChosen
  <2>15. \A s \in Routers : PortMeansAsked(s)'
    <3> TAKE s \in Routers
    <3>1. CASE s = r
      BY <2>1, <3>1 DEF PortMeansAsked
    <3>2. CASE s # r
      BY <2>1, <2>4, <3>2 DEF IInv, PortMeansAsked
    <3> QED BY <3>1, <3>2
  <2>16. \A s \in Routers : AskedMeansRelayed(s)'
    <3> TAKE s \in Routers
    <3>1. CASE s = r
      BY <1>4, <2>3, <2>4, <3>1 DEF AskedMeansRelayed, Relayed
    <3>2. CASE s # r
      BY <2>1, <2>4, <3>2 DEF IInv, AskedMeansRelayed, Relayed
    <3> QED BY <3>1, <3>2
  <2> QED BY <2>5, <2>7, <2>8, <2>9, <2>13, <2>14, <2>17, <2>15, <2>16 DEF IInv
<1> QED BY <1>7, <1>8

-----------------------------------------------------------------------------
(* The invariant and what follows from it.                                 *)

LEMMA Initially == AccessInit => IInv
<1> SUFFICES ASSUME AccessInit
             PROVE  IInv
  OBVIOUS
<1>1. /\ \A r \in Routers : routers[r] = NewRouter
      /\ \A h \in Handlers : handler[h] = Free
      /\ asked = {}
  BY DEF AccessInit
<1>2. AccessTypes
  BY ValuesTyped DEF AccessInit, AccessTypes
<1>3. \A h \in Handlers : ~Does(h, "assign") /\ ~Does(h, "saveAddress") /\ Does(h, "free")
  BY <1>1 DEF Does, Free
<1>4. /\ NewRouter.address = NoAddress
      /\ \A k \in Kinds : NewRouter.port[k] = NoPort
      /\ "winbox" \in Kinds
  BY DEF NewRouter, Kinds
<1>5. (\A h \in Handlers : HandlerWell(h)) /\ OneLock /\ Chosen /\ AddressChosen
  BY <1>3 DEF HandlerWell, OneLock, Chosen, AddressChosen
<1>6. Indexed
  BY <1>1, <1>4 DEF Indexed
<1>7. Apart
  BY <1>1, <1>4 DEF Apart
<1>8. \A r \in Routers : PortMeansAsked(r) /\ AskedMeansRelayed(r)
  BY <1>1, <1>4 DEF PortMeansAsked, AskedMeansRelayed
<1> QED BY <1>2, <1>5, <1>6, <1>7, <1>8 DEF IInv

LEMMA Preserved == IInv /\ [AccessNext]_access => IInv'
<1> SUFFICES ASSUME IInv, [AccessNext]_access
             PROVE  IInv'
  OBVIOUS
<1>1. CASE UNCHANGED access
  BY <1>1, Still, UnqueuedTyped, HandlersMove DEF access
<1>2. ASSUME NEW h \in Handlers, NEW r \in Routers,
             \/ ReadForAddress(h, r) \/ Touch(h, r) \/ ReadForDisable(h, r) \/ ReadForDelete(h, r)
             \/ \E kind \in Kinds : ChoosePort(h, r, kind)
      PROVE  IInv'
  BY <1>2, ReadForAddressPreserves, TouchPreserves, ReadForDisablePreserves, ReadForDeletePreserves,
     ChoosePortPreserves
<1>3. ASSUME NEW h \in Handlers,
             \/ SaveRow(h) \/ AssignPort(h) \/ QueueEnable(h) \/ QueueDisable(h)
             \/ Disable(h) \/ DeleteRow(h) \/ CleanUp(h)
      PROVE  IInv'
  BY <1>3, SaveRowPreserves, AssignPortPreserves, QueueEnablePreserves, QueueDisablePreserves,
     DisablePreserves, DeleteRowPreserves, CleanUpPreserves
<1>4. CASE (\E j \in queue : ClaimJob(j)) \/ ApplyJob \/ CompleteJob \/ FailJob
  BY <1>4, ClaimJobPreserves, ApplyJobPreserves, CompleteJobPreserves, FailJobPreserves
<1> QED BY <1>1, <1>2, <1>3, <1>4 DEF AccessNext

\* The invariant holds in every state the handlers, the queue and the agent reach.
THEOREM Invariance == AccessSpec => []IInv
<1>1. AccessInit => IInv
  BY Initially
<1>2. IInv /\ [AccessNext]_access => IInv'
  BY Preserved
<1> QED BY <1>1, <1>2, PTL DEF AccessSpec

\* Public ports and tunnel addresses have one owner: however many routers are enabled, disabled and
\* deleted together, two relays share a port, or two routers an address, only after a port or an
\* address was chosen before another choice was saved, or an outdated copy of a row was saved; and two
\* addresses or two WinBox ports are never the same where the unique indexes exist.
THEOREM Endpoints == AccessSpec => []EndpointsExclusive
<1>1. IInv => EndpointsExclusive
  <2> SUFFICES ASSUME IInv, NEW r \in Routers, NEW s \in Routers, routers[r].live, routers[s].live
               PROVE  /\ r # s /\ routers[r].address # NoAddress /\ routers[r].address = routers[s].address =>
                           ~indexed /\ (overlapped \/ outdated)
                      /\ \A k, l \in Kinds :
                           <<r, k>> # <<s, l>> /\ routers[r].port[k] # NoPort
                               /\ routers[r].port[k] = routers[s].port[l] =>
                             /\ overlapped \/ outdated
                             /\ ~(indexed /\ k = "winbox" /\ l = "winbox")
    BY DEF EndpointsExclusive, LiveRouters
  <2>1. r # s /\ routers[r].address # NoAddress /\ routers[r].address = routers[s].address =>
          ~indexed /\ (overlapped \/ outdated)
    BY DEF IInv, Apart, Indexed
  <2>2. ASSUME NEW k \in Kinds, NEW l \in Kinds, <<r, k>> # <<s, l>>, routers[r].port[k] # NoPort,
               routers[r].port[k] = routers[s].port[l]
        PROVE  overlapped \/ outdated
    BY <2>2 DEF IInv, Apart
  <2>3. ASSUME NEW k \in Kinds, NEW l \in Kinds, <<r, k>> # <<s, l>>, routers[r].port[k] # NoPort,
               routers[r].port[k] = routers[s].port[l], indexed, k = "winbox", l = "winbox"
        PROVE  FALSE
    <3>1. r # s
      BY <2>3
    <3> QED BY <2>3, <3>1 DEF IInv, Indexed
  <2> QED BY <2>1, <2>2, <2>3
<1> QED BY <1>1, Invariance, PTL

\* Relays follow requests: every relay the agent is told of leads to a router whose access was asked
\* for, and every such router is relayed, unless an outdated copy was saved or a late removal undid it.
THEOREM Access == AccessSpec => []AccessFollowsRequests
<1>1. IInv => AccessFollowsRequests
  <2> SUFFICES ASSUME IInv
               PROVE  AccessFollowsRequests
    OBVIOUS
  <2>1. ASSUME NEW t \in Targets, ~outdated
        PROVE  \E r \in asked : routers[r].address = t[2]
    <3>1. PICK r \in Routers, k \in Kinds :
            Relayed(r, k) /\ t = <<routers[r].port[k], routers[r].address, k>>
      BY DEF Targets
    <3>2. r \in asked
      BY <2>1, <3>1 DEF IInv, PortMeansAsked, Relayed
    <3> QED BY <3>1, <3>2
  <2>2. ASSUME NEW r \in asked, ~outdated, ~undone
        PROVE  \E t \in Targets : t[2] = routers[r].address
    <3>1. r \in Routers
      BY DEF IInv, AccessTypes
    <3>2. PICK k \in Kinds : Relayed(r, k)
      BY <2>2, <3>1 DEF IInv, AskedMeansRelayed
    <3>3. <<routers[r].port[k], routers[r].address, k>> \in Targets
      <4>1. <<r, k>> \in {y \in Routers \X Kinds : Relayed(y[1], y[2])}
        BY <3>1, <3>2
      <4> QED BY <4>1 DEF Targets
    <3> QED BY <3>3
  <2> QED BY <2>1, <2>2 DEF AccessFollowsRequests
<1> QED BY <1>1, Invariance, PTL
=============================================================================
