------------------------- MODULE VoucherRadius_proofs -------------------------
(***************************************************************************)
(* Theorems about VoucherRadius, for every number of requests, vouchers    *)
(* and devices.                                                            *)
(***************************************************************************)
EXTENDS VoucherRadius, PlanTerms, TLAPS

\* A usable voucher's row names its owner; a stale save at its end may have forgotten it.
RowAgrees(v) ==
  /\ vouchers[v].status = "none" => owner[v] = NoDevice
  /\ vouchers[v].mac \in {NoDevice, owner[v]}
  /\ AllowsLogin(vouchers[v]) => vouchers[v].mac = owner[v]

\* What FreeRADIUS reads agrees with the voucher.
RadiusAgrees(v) ==
  /\ vouchers[v].status = "none" => radcheck[v] = {}
  /\ \A b \in radcheck[v] : b.mac \in {NoDevice, owner[v]}
  /\ v \notin overtaken =>
       /\ owner[v] # NoDevice /\ radcheck[v] # {} => \E b \in radcheck[v] : b.mac = owner[v]
       /\ vouchers[v].status \in {"expired", "exhausted"} => radcheck[v] = {}

\* What a request knows at each stage.
RequestWell(r) ==
  LET v == req[r].voucher
  IN  /\ req[r].pc \in {"sync", "insert"} =>
           /\ v \in Vouchers
           /\ vouchers[v].status # "none"
           /\ req[r].copy.mac \in {NoDevice, owner[v]}
      /\ req[r].pc = "bindCommit" =>
           /\ v \in Vouchers /\ req[r].device \in Devices
           /\ AllowsLogin(vouchers[v])
           /\ vouchers[v].mac \in {NoDevice, req[r].device}
      /\ req[r].pc = "packet" =>
           /\ v \in Vouchers /\ req[r].device \in Devices
           /\ vouchers[v].status # "none"
           /\ owner[v] = req[r].device
      /\ req[r].pc = "postauth" => v \in Vouchers

OneBinder ==
  \A p, q \in Requests :
    At(p, "bindCommit") /\ At(q, "bindCommit") /\ req[p].voucher = req[q].voucher => p = q

IInv == /\ TypeOK
        /\ \A v \in Vouchers : RowAgrees(v) /\ RadiusAgrees(v)
        /\ \A r \in Requests : RequestWell(r)
        /\ OneBinder

-----------------------------------------------------------------------------
(* What can become of a row in one step.                                   *)

Kept(v) == /\ vouchers'[v].mac = vouchers[v].mac
           /\ AllowsLogin(vouchers'[v]) <=> AllowsLogin(vouchers[v])
           /\ vouchers'[v].status = "none" <=> vouchers[v].status = "none"
           /\ owner'[v] = owner[v]

Ends(v) == /\ vouchers[v].status # "none"
           /\ vouchers'[v].status # "none"
           /\ ~AllowsLogin(vouchers'[v])
           /\ vouchers'[v].mac \in {NoDevice, owner[v]}
           /\ owner'[v] = owner[v]

Issued(v) == /\ vouchers[v].status = "none"
             /\ AllowsLogin(vouchers'[v])
             /\ owner'[v] = vouchers'[v].mac

Bound(v) == /\ AllowsLogin(vouchers[v])
            /\ AllowsLogin(vouchers'[v])
            /\ vouchers[v].mac = NoDevice
            /\ owner'[v] = vouchers'[v].mac

Moves(v) == Kept(v) \/ Ends(v) \/ Issued(v) \/ Bound(v)

BindersKept == \A q \in Requests : At(q, "bindCommit") => Kept(req[q].voucher)

\* A row that moves still agrees with its owner.
LEMMA RowMoves ==
  ASSUME IInv, NEW v \in Vouchers, Moves(v)
  PROVE  RowAgrees(v)'
BY DEF IInv, RowAgrees, Moves, Kept, Ends, Issued, Bound, AllowsLogin, Running

\* A request that does not move stays well.
LEMMA RequestStays ==
  ASSUME IInv, \A v \in Vouchers : Moves(v),
         NEW q \in Requests, req'[q] = req[q],
         At(q, "bindCommit") => Kept(req[q].voucher)
  PROVE  RequestWell(q)'
<1> DEFINE v == req[q].voucher
<1>0. RequestWell(q) /\ \A w \in Vouchers : RowAgrees(w)
  BY DEF IInv
<1>1. CASE req[q].pc \in {"sync", "insert"}
  <2>1. v \in Vouchers /\ vouchers[v].status # "none" /\ req[q].copy.mac \in {NoDevice, owner[v]}
    BY <1>0, <1>1 DEF RequestWell
  <2>2. vouchers'[v].status # "none"
    BY <2>1 DEF Moves, Kept, Ends, Issued, Bound, AllowsLogin, Running
  <2>3. owner'[v] = owner[v] \/ owner[v] = NoDevice
    BY <1>0, <2>1 DEF RowAgrees, Moves, Kept, Ends, Issued, Bound
  <2> QED BY <1>1, <2>1, <2>2, <2>3 DEF RequestWell
<1>2. CASE req[q].pc = "bindCommit"
  BY <1>0, <1>2 DEF RequestWell, At, Kept
<1>3. CASE req[q].pc = "packet"
  <2>1. /\ v \in Vouchers /\ req[q].device \in Devices /\ vouchers[v].status # "none"
        /\ owner[v] = req[q].device
    BY <1>0, <1>3 DEF RequestWell
  <2>2. owner[v] # NoDevice
    BY <2>1, ConstantsAssumption
  <2>3. vouchers'[v].status # "none" /\ owner'[v] = owner[v]
    BY <1>0, <2>1, <2>2 DEF RowAgrees, Moves, Kept, Ends, Issued, Bound, AllowsLogin, Running
  <2> QED BY <1>3, <2>1, <2>3 DEF RequestWell
<1>4. CASE req[q].pc \notin {"sync", "insert", "bindCommit", "packet"}
  BY <1>0, <1>4 DEF RequestWell
<1> QED BY <1>1, <1>2, <1>3, <1>4

LEMMA BindersStay ==
  ASSUME IInv, \A q \in Requests : req'[q].pc = "bindCommit" => req'[q] = req[q]
  PROVE  OneBinder'
BY DEF IInv, OneBinder, At

\* A step of request r alone that leaves the rows as they are.
LEMMA OneMoves ==
  ASSUME IInv, NEW r \in Requests, NEW x \in ReqState,
         req' = [req EXCEPT ![r] = x],
         UNCHANGED <<vouchers, radcheck, sales, spent, owner, overtaken>>,
         plan' \in [active : BOOLEAN, capped : BOOLEAN, deleted : BOOLEAN],
         served' \in [Vouchers -> SUBSET Devices],
         RequestWell(r)',
         x.pc = "bindCommit" => ~Locked(x.voucher)
  PROVE  IInv'
<1>1. \A v \in Vouchers : Moves(v) /\ Kept(v)
  BY DEF Moves, Kept
<1>2. req'[r] = x /\ \A q \in Requests \ {r} : req'[q] = req[q]
  BY DEF IInv, TypeOK
<1>3. TypeOK'
  BY DEF IInv, TypeOK
<1>4. ASSUME NEW v \in Vouchers PROVE RowAgrees(v)' /\ RadiusAgrees(v)'
  BY DEF IInv, RowAgrees, RadiusAgrees
<1>5. ASSUME NEW q \in Requests PROVE RequestWell(q)'
  <2>1. At(q, "bindCommit") => Kept(req[q].voucher)
    BY <1>1 DEF IInv, RequestWell, At
  <2> QED BY <1>1, <1>2, <2>1, RequestStays
<1>6. OneBinder'
  BY <1>2 DEF IInv, OneBinder, At, Locked
<1> QED BY <1>3, <1>4, <1>5, <1>6 DEF IInv

-----------------------------------------------------------------------------
(* Requests that begin, read or end.                                       *)

LEMMA ValuesTyped == NoRow \in Row /\ Idle \in ReqState
BY DEF NoRow, Row, Status, Idle, ReqState

LEMMA IdleWell ==
  ASSUME NEW r \in Requests, req'[r] = Idle
  PROVE  RequestWell(r)'
BY DEF RequestWell, Idle

\* A request that comes to its end.
LEMMA EndKeeps ==
  ASSUME IInv, NEW r \in Requests, req' = [req EXCEPT ![r] = Idle],
         UNCHANGED <<vouchers, radcheck, sales, spent, owner, overtaken>>,
         plan' \in [active : BOOLEAN, capped : BOOLEAN, deleted : BOOLEAN],
         served' \in [Vouchers -> SUBSET Devices]
  PROVE  IInv'
<1>1. req'[r] = Idle /\ Idle.pc = "idle"
  BY DEF IInv, TypeOK, Idle
<1> QED BY <1>1, IdleWell, ValuesTyped, OneMoves

\* A request that goes on to a stage that knows nothing of the rows.
LEMMA BeginKeeps ==
  ASSUME IInv, NEW r \in Requests, NEW x \in ReqState, req' = [req EXCEPT ![r] = x],
         x.pc \in {"createMany", "next", "wait", "patchSave"},
         UNCHANGED <<vouchers, radcheck, plan, sales, spent, served, owner, overtaken>>
  PROVE  IInv'
<1>1. req'[r] = x
  BY DEF IInv, TypeOK
<1>2. RequestWell(r)'
  BY <1>1 DEF RequestWell
<1>3. /\ plan' \in [active : BOOLEAN, capped : BOOLEAN, deleted : BOOLEAN]
      /\ served' \in [Vouchers -> SUBSET Devices]
  BY DEF IInv, TypeOK
<1> QED BY <1>2, <1>3, OneMoves

LEMMA GenerateCodesKeeps ==
  ASSUME IInv, NEW r \in Requests, NEW S \in SUBSET Vouchers, GenerateCodes(r, S)
  PROVE  IInv'
<1> DEFINE x == [req[r] EXCEPT !.pc = "createMany", !.todo = S]
<1>1. req[r] \in ReqState
  BY DEF IInv, TypeOK
<1>2. x \in ReqState /\ x.pc = "createMany"
  BY <1>1 DEF ReqState
<1>3. req' = [req EXCEPT ![r] = x]
  BY DEF GenerateCodes, IInv, TypeOK
<1> HIDE DEF x
<1> QED BY <1>2, <1>3, BeginKeeps DEF GenerateCodes

LEMMA StartSyncKeeps ==
  ASSUME IInv, NEW r \in Requests, NEW S \in SUBSET Vouchers, StartSync(r, S)
  PROVE  IInv'
<1> DEFINE x == [req[r] EXCEPT !.pc = "next", !.todo = S]
<1>1. req[r] \in ReqState
  BY DEF IInv, TypeOK
<1>2. x \in ReqState /\ x.pc = "next"
  BY <1>1 DEF ReqState
<1>3. req' = [req EXCEPT ![r] = x]
  BY DEF StartSync, IInv, TypeOK
<1> HIDE DEF x
<1> QED BY <1>2, <1>3, BeginKeeps DEF StartSync

LEMMA PatchReadKeeps ==
  ASSUME IInv, NEW r \in Requests, NEW field \in {"active", "limit"}, PatchRead(r, field)
  PROVE  IInv'
<1> DEFINE capped == (plan.capped # (field = "limit"))
           then == IF plan.active # (field = "active") THEN "active" ELSE "inactive"
           x == [req[r] EXCEPT !.pc = "patchSave", !.capped = capped, !.then = then]
<1>1. req[r] \in ReqState
  BY DEF IInv, TypeOK
<1>2. capped \in BOOLEAN /\ then \in {"active", "inactive"}
  OBVIOUS
<1>3. req' = [req EXCEPT ![r] = x]
  BY DEF PatchRead, IInv, TypeOK
<1> HIDE DEF capped, then
<1>4. x \in ReqState /\ x.pc = "patchSave"
  BY <1>1, <1>2 DEF ReqState
<1> HIDE DEF x
<1> QED BY <1>3, <1>4, BeginKeeps DEF PatchRead

LEMMA PatchSaveKeeps ==
  ASSUME IInv, NEW r \in Requests, PatchSave(r)
  PROVE  IInv'
<1>1. plan' \in [active : BOOLEAN, capped : BOOLEAN, deleted : BOOLEAN]
  BY DEF PatchSave, IInv, TypeOK, ReqState
<1>2. served' \in [Vouchers -> SUBSET Devices]
  BY DEF PatchSave, IInv, TypeOK
<1> QED BY <1>1, <1>2, EndKeeps DEF PatchSave

LEMMA AllSyncedKeeps ==
  ASSUME IInv, NEW r \in Requests, AllSynced(r) \/ FlightTimesOut(r)
  PROVE  IInv'
<1>1. /\ plan' \in [active : BOOLEAN, capped : BOOLEAN, deleted : BOOLEAN]
      /\ served' \in [Vouchers -> SUBSET Devices]
  BY DEF AllSynced, FlightTimesOut, IInv, TypeOK
<1> QED BY <1>1, EndKeeps DEF AllSynced, FlightTimesOut

LEMMA AutoConnectKeeps ==
  ASSUME IInv, NEW r \in Requests, NEW d \in Devices, AutoConnect(r, d)
  PROVE  IInv'
<1> DEFINE reusable == {v \in Vouchers : /\ Live(v)
                                         /\ vouchers[v].mac = d
                                         /\ vouchers[v].status \in Running
                                         /\ vouchers[v].expiry = "running"}
           x == [req[r] EXCEPT !.pc = "next", !.device = d, !.todo = reusable]
<1>1. req[r] \in ReqState /\ reusable \in SUBSET Vouchers
  BY DEF IInv, TypeOK
<1>2. req' = [req EXCEPT ![r] = x]
  BY DEF AutoConnect, IInv, TypeOK
<1> HIDE DEF reusable
<1>3. x \in ReqState /\ x.pc = "next"
  BY <1>1 DEF ReqState
<1> HIDE DEF x
<1> QED BY <1>2, <1>3, BeginKeeps DEF AutoConnect

LEMMA SyncReadKeeps ==
  ASSUME IInv, NEW r \in Requests, SyncRead(r)
  PROVE  IInv'
<1> DEFINE x(v) == [req[r] EXCEPT !.pc = "sync", !.voucher = v, !.copy = vouchers[v],
                                  !.capped = plan.capped, !.todo = @ \ {v}]
<1>0. /\ UNCHANGED <<vouchers, radcheck, plan, sales, spent, served, owner, overtaken>>
      /\ plan' \in [active : BOOLEAN, capped : BOOLEAN, deleted : BOOLEAN]
      /\ served' \in [Vouchers -> SUBSET Devices]
      /\ req[r] \in ReqState
  BY DEF SyncRead, At, IInv, TypeOK
<1>1. PICK v \in req[r].todo : req' = [req EXCEPT ![r] = IF Live(v) /\ PlanUsable THEN x(v) ELSE Idle]
  BY DEF SyncRead
<1>2. v \in Vouchers
  BY <1>0, <1>1 DEF ReqState
<1>3. CASE Live(v) /\ PlanUsable
  <2>1. vouchers[v] \in Row /\ plan.capped \in BOOLEAN /\ vouchers[v].status # "none"
    BY <1>2, <1>3 DEF Live, IInv, TypeOK
  <2>2. x(v) \in ReqState /\ x(v).pc = "sync" /\ x(v).voucher = v /\ x(v).copy = vouchers[v]
    BY <1>0, <1>2, <2>1 DEF ReqState
  <2> HIDE DEF x
  <2>3. req' = [req EXCEPT ![r] = x(v)] /\ req'[r] = x(v)
    BY <1>1, <1>3 DEF IInv, TypeOK
  <2>4. vouchers[v].mac \in {NoDevice, owner[v]}
    BY <1>2 DEF IInv, RowAgrees
  <2>5. RequestWell(r)'
    BY <1>0, <1>2, <2>1, <2>2, <2>3, <2>4 DEF RequestWell
  <2> QED BY <1>0, <2>2, <2>3, <2>5, OneMoves
<1>4. CASE ~(Live(v) /\ PlanUsable)
  BY <1>0, <1>1, <1>4, EndKeeps
<1> QED BY <1>3, <1>4

LEMMA JoinFlightKeeps ==
  ASSUME IInv, NEW r \in Requests, JoinFlight(r)
  PROVE  IInv'
<1>1. PICK v \in req[r].todo :
        req' = [req EXCEPT ![r].pc = "wait", ![r].voucher = v, ![r].todo = @ \ {v}]
  BY DEF JoinFlight
<1> DEFINE x == [req[r] EXCEPT !.pc = "wait", !.voucher = v, !.todo = @ \ {v}]
<1>2. req[r] \in ReqState
  BY DEF IInv, TypeOK
<1>3. v \in Vouchers
  BY <1>1, <1>2 DEF ReqState
<1>4. x \in ReqState /\ x.pc = "wait"
  BY <1>2, <1>3 DEF ReqState
<1>5. req' = [req EXCEPT ![r] = x]
  BY <1>1 DEF IInv, TypeOK
<1> HIDE DEF x
<1> QED BY <1>4, <1>5, BeginKeeps DEF JoinFlight

LEMMA SyncDeleteKeeps ==
  ASSUME IInv, NEW r \in Requests, SyncDelete(r)
  PROVE  IInv'
<1> DEFINE x == [req[r] EXCEPT !.pc = "insert", !.old = radcheck[req[r].voucher]]
<1>0. /\ UNCHANGED <<vouchers, radcheck, plan, sales, spent, served, owner, overtaken>>
      /\ plan' \in [active : BOOLEAN, capped : BOOLEAN, deleted : BOOLEAN]
      /\ served' \in [Vouchers -> SUBSET Devices]
      /\ req[r] \in ReqState /\ req[r].pc = "sync" /\ RequestWell(r)
  BY DEF SyncDelete, At, IInv, TypeOK
<1>1. req[r].voucher \in Vouchers /\ radcheck[req[r].voucher] \in SUBSET RowSet
  BY <1>0 DEF RequestWell, IInv, TypeOK
<1>2. x \in ReqState /\ x.pc = "insert" /\ x.voucher = req[r].voucher /\ x.copy = req[r].copy
  BY <1>0, <1>1 DEF ReqState
<1>3. req' = [req EXCEPT ![r] = x]
  BY DEF SyncDelete, IInv, TypeOK
<1> HIDE DEF x
<1>4. req'[r] = x
  BY <1>3 DEF IInv, TypeOK
<1>5. RequestWell(r)'
  BY <1>0, <1>2, <1>4 DEF RequestWell
<1> QED BY <1>0, <1>2, <1>3, <1>5, OneMoves

LEMMA BindBeginKeeps ==
  ASSUME IInv, NEW r \in Requests, NEW v \in Vouchers, NEW d \in Devices, NEW then \in {"idle", "packet"},
         BindBegin(r, v, d, then)
  PROVE  IInv'
<1> DEFINE x == [Idle EXCEPT !.pc = "bindCommit", !.voucher = v, !.device = d,
                             !.capped = plan.capped, !.old = radcheck[v], !.then = then]
<1>0. /\ UNCHANGED <<vouchers, radcheck, plan, sales, spent, served, owner, overtaken>>
      /\ plan' \in [active : BOOLEAN, capped : BOOLEAN, deleted : BOOLEAN]
      /\ served' \in [Vouchers -> SUBSET Devices]
      /\ plan.capped \in BOOLEAN /\ radcheck[v] \in SUBSET RowSet
  BY DEF BindBegin, IInv, TypeOK
<1>1. x \in ReqState /\ x.pc = "bindCommit" /\ x.voucher = v /\ x.device = d
  BY <1>0, ValuesTyped DEF ReqState, Idle
<1>2. req' = [req EXCEPT ![r] = x]
  BY DEF BindBegin
<1> HIDE DEF x
<1>3. req'[r] = x
  BY <1>2 DEF IInv, TypeOK
<1>4. /\ AllowsLogin(vouchers[v]) /\ ~Locked(v)
      /\ vouchers[v].mac \in {NoDevice, d}
  BY DEF BindBegin, CanBind, OwnDevice
<1>5. RequestWell(r)'
  BY <1>0, <1>1, <1>3, <1>4 DEF RequestWell
<1> QED BY <1>0, <1>1, <1>2, <1>4, <1>5, OneMoves

\* An accepted login finds rows, so the voucher exists.
LEMMA LoginKeeps ==
  ASSUME IInv, NEW r \in Requests, NEW v \in Vouchers, NEW d \in Devices, Login(r, v, d)
  PROVE  IInv'
<1> DEFINE x == [req[r] EXCEPT !.pc = "postauth", !.voucher = v]
<1>0. /\ UNCHANGED <<vouchers, radcheck, plan, sales, spent, owner, overtaken>>
      /\ plan' \in [active : BOOLEAN, capped : BOOLEAN, deleted : BOOLEAN]
      /\ served' \in [Vouchers -> SUBSET Devices]
      /\ req[r] \in ReqState
  BY DEF Login, IInv, TypeOK
<1>1. x \in ReqState /\ x.pc = "postauth" /\ x.voucher = v
  BY <1>0 DEF ReqState
<1>2. req' = [req EXCEPT ![r] = x]
  BY DEF Login, IInv, TypeOK
<1> HIDE DEF x
<1>3. req'[r] = x
  BY <1>2 DEF IInv, TypeOK
<1>4. RequestWell(r)'
  BY <1>1, <1>3 DEF RequestWell
<1> QED BY <1>0, <1>1, <1>2, <1>4, OneMoves

LEMMA AnswerPacketKeeps ==
  ASSUME IInv, NEW r \in Requests, AnswerPacket(r)
  PROVE  IInv'
<1> DEFINE v == req[r].voucher
           d == req[r].device
<1>1. v \in Vouchers /\ d \in Devices /\ served \in [Vouchers -> SUBSET Devices]
  BY DEF AnswerPacket, At, IInv, TypeOK, RequestWell
<1>2. served' \in {served, [served EXCEPT ![v] = @ \union {d}]}
  BY DEF AnswerPacket
<1>3. served' \in [Vouchers -> SUBSET Devices]
  BY <1>1, <1>2
<1>4. /\ req' = [req EXCEPT ![r] = Idle]
      /\ UNCHANGED <<vouchers, radcheck, sales, spent, owner, overtaken>>
      /\ plan' \in [active : BOOLEAN, capped : BOOLEAN, deleted : BOOLEAN]
  BY DEF AnswerPacket, IInv, TypeOK
<1> QED BY <1>3, <1>4, EndKeeps

-----------------------------------------------------------------------------
(* Steps that change rows or move several requests.                        *)

\* Each request stays as it is, its row too if it has locked it, or stops being a binder.
RequestsMove ==
  \A q \in Requests :
    \/ req'[q] = req[q] /\ (At(q, "bindCommit") => Kept(req[q].voucher))
    \/ RequestWell(q)' /\ req'[q].pc # "bindCommit"

LEMMA StepKeeps ==
  ASSUME IInv, TypeOK',
         \A v \in Vouchers : Moves(v) /\ RadiusAgrees(v)',
         RequestsMove
  PROVE  IInv'
<1>1. ASSUME NEW q \in Requests PROVE RequestWell(q)'
  BY RequestStays DEF RequestsMove
<1>2. OneBinder'
  BY BindersStay DEF RequestsMove
<1>3. \A v \in Vouchers : RowAgrees(v)'
  BY RowMoves
<1> QED BY <1>1, <1>2, <1>3 DEF IInv

\* Requests that do not move.
LEMMA RowsKeep ==
  ASSUME IInv, TypeOK', UNCHANGED req,
         \A v \in Vouchers : Moves(v) /\ RadiusAgrees(v)',
         \A v \in Vouchers : Locked(v) => Kept(v)
  PROVE  IInv'
<1>1. RequestsMove
  <2> SUFFICES ASSUME NEW q \in Requests, At(q, "bindCommit") PROVE Kept(req[q].voucher)
    BY DEF RequestsMove
  <2>1. req[q].voucher \in Vouchers
    BY DEF IInv, RequestWell, At
  <2> QED BY <2>1 DEF Locked
<1> QED BY <1>1, StepKeeps

LEMMA RadiusStays ==
  ASSUME IInv, NEW v \in Vouchers, Kept(v), vouchers'[v].status = vouchers[v].status,
         radcheck'[v] = radcheck[v], v \in overtaken' <=> v \in overtaken
  PROVE  RadiusAgrees(v)'
BY DEF IInv, RadiusAgrees, Kept

LEMMA RadiusRevoked ==
  ASSUME NEW v, radcheck'[v] = {}
  PROVE  RadiusAgrees(v)'
BY DEF RadiusAgrees

LEMMA CrashKeeps ==
  ASSUME IInv, NEW r \in Requests, Crash(r)
  PROVE  IInv'
<1>1. \A q \in Requests : req'[q] \in {req[q], Idle}
  BY DEF Crash
<1>2. TypeOK'
  BY ValuesTyped DEF Crash, IInv, TypeOK
<1>3. \A v \in Vouchers : Kept(v) /\ Moves(v) /\ RadiusAgrees(v)'
  BY RadiusStays DEF Crash, Kept, Moves
<1>4. RequestsMove
  <2> SUFFICES ASSUME NEW q \in Requests
               PROVE  \/ req'[q] = req[q] /\ (At(q, "bindCommit") => Kept(req[q].voucher))
                      \/ RequestWell(q)' /\ req'[q].pc # "bindCommit"
    BY DEF RequestsMove
  <2>1. At(q, "bindCommit") => req[q].voucher \in Vouchers
    BY DEF IInv, RequestWell, At
  <2>2. CASE req'[q] = Idle
    <3>1. RequestWell(q)'
      BY <2>2, IdleWell
    <3>2. req'[q].pc # "bindCommit"
      BY <2>2 DEF Idle
    <3> QED BY <3>1, <3>2
  <2>3. CASE req'[q] = req[q]
    BY <1>3, <2>1, <2>3
  <2> QED BY <1>1, <2>2, <2>3
<1> QED BY <1>2, <1>3, <1>4, StepKeeps

LEMMA UseDataKeeps ==
  ASSUME IInv, (\E v \in Vouchers : UseData(v)) \/ DeletePlan
  PROVE  IInv'
<1>1. TypeOK'
  BY DEF UseData, DeletePlan, IInv, TypeOK
<1>2. UNCHANGED <<vouchers, radcheck, owner, overtaken, req>>
  BY DEF UseData, DeletePlan
<1>3. \A v \in Vouchers : Kept(v) /\ Moves(v) /\ RadiusAgrees(v)'
  BY <1>2, RadiusStays DEF Kept, Moves
<1> QED BY <1>1, <1>2, <1>3, RowsKeep

LEMMA RecordPhysicalSaleKeeps ==
  ASSUME IInv, NEW v \in Vouchers, RecordPhysicalSale(v)
  PROVE  IInv'
<1>1. TypeOK'
  BY DEF RecordPhysicalSale, IInv, TypeOK, Row, Status
<1>2. Ends(v) /\ vouchers'[v].status = "sold"
  BY DEF RecordPhysicalSale, Live, Ends, AllowsLogin, Running, IInv, TypeOK, Row, RowAgrees
<1>3. \A w \in Vouchers \ {v} : vouchers'[w] = vouchers[w]
  BY DEF RecordPhysicalSale, IInv, TypeOK
<1>4. RadiusAgrees(v)'
  BY <1>2 DEF RecordPhysicalSale, RadiusAgrees, IInv
<1>5. \A w \in Vouchers \ {v} : Kept(w) /\ RadiusAgrees(w)'
  BY <1>3, RadiusStays DEF RecordPhysicalSale, Kept
<1>6. ~Locked(v) /\ UNCHANGED req
  BY DEF RecordPhysicalSale
<1> QED BY <1>1, <1>2, <1>4, <1>5, <1>6, RowsKeep DEF Moves

LEMMA DeleteVoucherKeeps ==
  ASSUME IInv, NEW v \in Vouchers, DeleteVoucher(v) \/ TimePasses(v)
  PROVE  IInv'
<1>1. TypeOK'
  <2>1. vouchers[v] \in Row /\ vouchers \in [Vouchers -> Row]
    BY DEF IInv, TypeOK
  <2>2. [vouchers[v] EXCEPT !.deleted = TRUE] \in Row /\ [vouchers[v] EXCEPT !.expiry = "past"] \in Row
    BY <2>1 DEF Row
  <2>3. \E row \in Row : vouchers' = [vouchers EXCEPT ![v] = row]
    BY <2>2 DEF DeleteVoucher, TimePasses
  <2>4. vouchers' \in [Vouchers -> Row]
    BY <2>1, <2>3
  <2>5. UNCHANGED <<radcheck, plan, sales, spent, served, owner, overtaken, req>>
    BY DEF DeleteVoucher, TimePasses
  <2> QED BY <2>4, <2>5 DEF IInv, TypeOK
<1>2. UNCHANGED <<radcheck, owner, overtaken, req>>
  BY DEF DeleteVoucher, TimePasses
<1>3. \A w \in Vouchers : Kept(w) /\ vouchers'[w].status = vouchers[w].status
  BY <1>2 DEF DeleteVoucher, TimePasses, Kept, AllowsLogin, IInv, TypeOK, Row
<1>4. \A w \in Vouchers : RadiusAgrees(w)'
  BY <1>2, <1>3, RadiusStays
<1> QED BY <1>1, <1>2, <1>3, <1>4, RowsKeep DEF Moves

LEMMA BindOverKeeps ==
  ASSUME IInv, NEW v \in Vouchers, BindOver(v)
  PROVE  IInv'
<1>0. PICK s \in {"expired", "exhausted"} : vouchers' = [vouchers EXCEPT ![v].status = s]
  BY DEF BindOver
<1>1. TypeOK'
  <2>1. vouchers' \in [Vouchers -> Row]
    BY <1>0 DEF IInv, TypeOK, Row, Status
  <2>2. radcheck' \in [Vouchers -> SUBSET RowSet] /\ overtaken' \subseteq Vouchers
    BY DEF BindOver, Revoke, IInv, TypeOK
  <2>3. UNCHANGED <<plan, sales, spent, served, owner, req>>
    BY DEF BindOver
  <2> QED BY <2>1, <2>2, <2>3 DEF IInv, TypeOK
<1>2. Ends(v)
  BY <1>0 DEF BindOver, CanBind, Live, Ends, AllowsLogin, Running, IInv, TypeOK, Row, RowAgrees
<1>3. \A w \in Vouchers \ {v} : vouchers'[w] = vouchers[w] /\ radcheck'[w] = radcheck[w]
                                /\ owner'[w] = owner[w] /\ (w \in overtaken' <=> w \in overtaken)
  BY DEF BindOver, Revoke, IInv, TypeOK
<1>4. RadiusAgrees(v)'
  BY RadiusRevoked DEF BindOver, Revoke, IInv, TypeOK
<1>5. \A w \in Vouchers \ {v} : Kept(w) /\ RadiusAgrees(w)'
  BY <1>3, RadiusStays DEF Kept
<1>6. ~Locked(v) /\ UNCHANGED req
  BY DEF BindOver, CanBind
<1> QED BY <1>1, <1>2, <1>4, <1>5, <1>6, RowsKeep DEF Moves

\* The trigger marks a usable voucher as used, which it stays, and leaves no row in radcheck.
LEMMA PostAuthRow ==
  ASSUME IInv, NEW r \in Requests, PostAuth(r)
  PROVE  /\ req[r].voucher \in Vouchers
         /\ TypeOK'
         /\ radcheck'[req[r].voucher] = {}
         /\ \A w \in Vouchers : Kept(w)
         /\ \A w \in Vouchers \ {req[r].voucher} :
              /\ vouchers'[w] = vouchers[w] /\ radcheck'[w] = radcheck[w]
              /\ w \in overtaken' <=> w \in overtaken
<1>1. PICK v \in Vouchers : v = req[r].voucher
  BY DEF PostAuth, At, IInv, RequestWell
<1>2. /\ vouchers \in [Vouchers -> Row] /\ vouchers' = [vouchers EXCEPT ![v] = Consumed(vouchers[v])]
      /\ Revoke(v) /\ req' = [req EXCEPT ![r] = Idle] /\ UNCHANGED <<plan, sales, spent, served, owner>>
  BY <1>1 DEF PostAuth, IInv, TypeOK
<1>3. /\ Consumed(vouchers[v]) \in Row
      /\ Consumed(vouchers[v]).mac = vouchers[v].mac
      /\ AllowsLogin(Consumed(vouchers[v])) <=> AllowsLogin(vouchers[v])
      /\ Consumed(vouchers[v]).status = "none" <=> vouchers[v].status = "none"
  BY <1>1, <1>2 DEF Consumed, Row, Status, AllowsLogin, Running
<1>4. vouchers'[v] = Consumed(vouchers[v]) /\ \A w \in Vouchers \ {v} : vouchers'[w] = vouchers[w]
  BY <1>2
<1>5. /\ radcheck'[v] = {} /\ radcheck' \in [Vouchers -> SUBSET RowSet] /\ overtaken' \subseteq Vouchers
      /\ \A w \in Vouchers \ {v} : radcheck'[w] = radcheck[w] /\ (w \in overtaken' <=> w \in overtaken)
  BY <1>1, <1>2 DEF Revoke, IInv, TypeOK
<1>6. vouchers' \in [Vouchers -> Row] /\ req' \in [Requests -> ReqState]
  BY <1>2, <1>3, ValuesTyped DEF IInv, TypeOK
<1>7. TypeOK'
  BY <1>2, <1>5, <1>6 DEF IInv, TypeOK
<1>8. \A w \in Vouchers : Kept(w)
  BY <1>2, <1>3, <1>4 DEF Kept
<1> QED BY <1>1, <1>4, <1>5, <1>7, <1>8

LEMMA PostAuthKeeps ==
  ASSUME IInv, NEW r \in Requests, PostAuth(r)
  PROVE  IInv'
<1>1. \A w \in Vouchers : Kept(w) /\ RadiusAgrees(w)'
  BY PostAuthRow, RadiusStays, RadiusRevoked
<1>2. req'[r] = Idle /\ \A q \in Requests \ {r} : req'[q] = req[q]
  BY DEF PostAuth, IInv, TypeOK
<1>3. RequestsMove
  <2>1. \A q \in Requests : At(q, "bindCommit") => req[q].voucher \in Vouchers
    BY DEF IInv, RequestWell, At
  <2>2. RequestWell(r)' /\ req'[r].pc # "bindCommit"
    <3>1. RequestWell(r)'
      BY <1>2, IdleWell
    <3> QED BY <1>2, <3>1 DEF Idle
  <2>3. \A q \in Requests \ {r} : req'[q] = req[q] /\ (At(q, "bindCommit") => Kept(req[q].voucher))
    BY <1>1, <1>2, <2>1
  <2> QED BY <2>2, <2>3 DEF RequestsMove
<1> QED BY <1>1, <1>3, PostAuthRow, StepKeeps DEF Moves

-----------------------------------------------------------------------------
(* The ends of a synchronisation.                                          *)

LEMMA ResumedWell ==
  ASSUME NEW q \in Requests, NEW result, req[q] \in ReqState, req'[q] = Resumed(req[q], result)
  PROVE  /\ req'[q] \in ReqState
         /\ RequestWell(q)'
         /\ req'[q].pc # "bindCommit"
<1> DEFINE y == [Idle EXCEPT !.pc = "next", !.device = req[q].device, !.todo = req[q].todo]
<1>1. CASE req'[q] = Idle
  BY <1>1, ValuesTyped DEF Idle, RequestWell
<1>2. CASE req'[q] = y
  <2>1. y \in ReqState /\ y.pc = "next"
    BY ValuesTyped DEF Idle, ReqState
  <2> HIDE DEF y
  <2> QED BY <1>2, <2>1 DEF RequestWell
<1>3. req'[q] = Idle \/ req'[q] = y
  BY DEF Resumed
<1> QED BY <1>1, <1>2, <1>3

LEMMA FinishMoves ==
  ASSUME IInv, NEW r \in Requests, NEW result, Finish(r, result), ~At(r, "bindCommit"), BindersKept
  PROVE  req' \in [Requests -> ReqState] /\ RequestsMove
<1>1. \A q \in Requests : req[q] \in ReqState
  BY DEF IInv, TypeOK
<1>2. \A q \in Requests : req'[q] = req[q] \/ req'[q] = Resumed(req[q], result)
  BY DEF Finish
<1>3. ASSUME NEW q \in Requests
      PROVE  \/ req'[q] = req[q]
             \/ req'[q] \in ReqState /\ RequestWell(q)' /\ req'[q].pc # "bindCommit"
  BY <1>1, <1>2, ResumedWell
<1>4. req' \in [Requests -> ReqState]
  BY <1>1, <1>3 DEF Finish
<1>5. RequestsMove
  BY <1>3 DEF RequestsMove, BindersKept
<1> QED BY <1>4, <1>5

\* The bindings under way hold the locks of their rows.
LEMMA UnlockedKept ==
  ASSUME IInv, \A v \in Vouchers : Locked(v) => Kept(v)
  PROVE  BindersKept
<1> SUFFICES ASSUME NEW q \in Requests, At(q, "bindCommit") PROVE Kept(req[q].voucher)
  BY DEF BindersKept
<1>1. req[q].voucher \in Vouchers
  BY DEF IInv, RequestWell, At
<1> QED BY <1>1 DEF Locked

\* A saved copy ends its voucher, whatever became of the row since it was read.
LEMMA SavedRow ==
  ASSUME IInv, NEW r \in Requests, req[r].pc = "sync", NEW s \in {"expired", "exhausted"},
         SaveCopy(r, s), owner' = owner
  PROVE  /\ vouchers' \in [Vouchers -> Row]
         /\ Ends(req[r].voucher) /\ ~Locked(req[r].voucher)
         /\ \A w \in Vouchers \ {req[r].voucher} : vouchers'[w] = vouchers[w]
<1> DEFINE row == [req[r].copy EXCEPT !.status = s]
<1>1. PICK v \in Vouchers : /\ v = req[r].voucher /\ vouchers[v].status # "none" /\ req[r].copy \in Row
                            /\ req[r].copy.mac \in {NoDevice, owner[v]}
  BY DEF IInv, TypeOK, RequestWell, ReqState
<1>2. row \in Row /\ row.status = s /\ row.mac = req[r].copy.mac
  BY <1>1 DEF Row, Status
<1>3. vouchers' = [vouchers EXCEPT ![v] = row] /\ ~Locked(v) /\ vouchers \in [Vouchers -> Row]
  BY <1>1 DEF SaveCopy, IInv, TypeOK
<1> HIDE DEF row
<1>4. vouchers'[v] = row /\ vouchers' \in [Vouchers -> Row] /\ \A w \in Vouchers \ {v} : vouchers'[w] = vouchers[w]
  BY <1>2, <1>3
<1> QED BY <1>1, <1>2, <1>3, <1>4 DEF Ends, AllowsLogin, Running

LEMMA RevocationKeeps ==
  ASSUME IInv, NEW r \in Requests, SyncExpired(r) \/ SyncExhausted(r) \/ SyncRefused(r)
  PROVE  IInv'
<1>1. req[r].pc = "sync"
  BY DEF SyncExpired, SyncExhausted, SyncRefused, At
<1>2. PICK v \in Vouchers : v = req[r].voucher
  BY <1>1 DEF IInv, RequestWell
<1>3. /\ Revoke(v) /\ Finish(r, "inactive")
      /\ UNCHANGED <<plan, sales, spent, served, owner>>
      /\ \/ UNCHANGED vouchers
         \/ SaveCopy(r, "expired")
         \/ SaveCopy(r, "exhausted")
  BY <1>2 DEF SyncExpired, SyncExhausted, SyncRefused
<1>4. /\ vouchers' \in [Vouchers -> Row] /\ Moves(v) /\ (Locked(v) => Kept(v))
      /\ \A w \in Vouchers \ {v} : vouchers'[w] = vouchers[w]
  <2>1. CASE UNCHANGED vouchers
    BY <1>3, <2>1 DEF Moves, Kept, IInv, TypeOK
  <2>2. CASE SaveCopy(r, "expired")
    BY <1>1, <1>2, <1>3, <2>2, SavedRow DEF Moves
  <2>3. CASE SaveCopy(r, "exhausted")
    BY <1>1, <1>2, <1>3, <2>3, SavedRow DEF Moves
  <2> QED BY <1>3, <2>1, <2>2, <2>3
<1>5. \A w \in Vouchers \ {v} : radcheck'[w] = radcheck[w] /\ (w \in overtaken' <=> w \in overtaken)
  BY <1>2, <1>3 DEF Revoke, IInv, TypeOK
<1>6. \A w \in Vouchers \ {v} : Kept(w) /\ RadiusAgrees(w)'
  BY <1>3, <1>4, <1>5, RadiusStays DEF Kept
<1>7. radcheck' \in [Vouchers -> SUBSET RowSet] /\ overtaken' \subseteq Vouchers /\ radcheck'[v] = {}
  BY <1>2, <1>3 DEF Revoke, IInv, TypeOK
<1>8. BindersKept
  BY <1>4, <1>6, UnlockedKept
<1>9. req' \in [Requests -> ReqState] /\ RequestsMove
  BY <1>1, <1>3, <1>8, FinishMoves DEF At
<1>10. TypeOK'
  BY <1>3, <1>4, <1>7, <1>9 DEF IInv, TypeOK
<1>11. RadiusAgrees(v)'
  BY <1>7, RadiusRevoked
<1>12. \A w \in Vouchers : Moves(w) /\ RadiusAgrees(w)'
  BY <1>4, <1>6, <1>11 DEF Moves
<1> QED BY <1>9, <1>10, <1>12, StepKeeps

\* The rows of a synchronisation name no device its voucher does not have.
LEMMA SyncInsertKeeps ==
  ASSUME IInv, NEW r \in Requests, SyncInsert(r)
  PROVE  IInv'
<1> DEFINE rows == Rewritten(r, req[r].copy.mac)
<1>1. req[r].pc = "insert" /\ req[r] \in ReqState
  BY DEF SyncInsert, At, IInv, TypeOK
<1>2. PICK v \in Vouchers :
        /\ v = req[r].voucher /\ vouchers[v].status # "none" /\ req[r].copy \in Row
        /\ req[r].copy.mac \in {NoDevice, owner[v]}
        /\ radcheck[v] \in SUBSET RowSet
  BY <1>1 DEF IInv, TypeOK, RequestWell, ReqState
<1>3. UNCHANGED <<vouchers, plan, sales, spent, served, owner>>
  BY DEF SyncInsert
<1>4. \A w \in Vouchers : Kept(w) /\ Moves(w)
  BY <1>3 DEF Kept, Moves
<1>5. \E result : Finish(r, result)
  BY DEF SyncInsert
<1>6. req' \in [Requests -> ReqState] /\ RequestsMove
  BY <1>1, <1>4, <1>5, UnlockedKept, FinishMoves DEF At
<1>7. CASE UNCHANGED <<radcheck, overtaken>>
  <2>1. \A w \in Vouchers : RadiusAgrees(w)'
    BY <1>3, <1>4, <1>7, RadiusStays
  <2>2. TypeOK'
    BY <1>3, <1>6, <1>7 DEF IInv, TypeOK
  <2> QED BY <1>4, <1>6, <2>1, <2>2, StepKeeps
<1>8. CASE /\ radcheck' = [radcheck EXCEPT ![v] = rows]
           /\ overtaken' = IF Outdated(r) THEN overtaken \union {v}
                           ELSE IF Cardinality(rows) = 1 THEN overtaken \ {v}
                           ELSE overtaken
  <2>1. /\ rows \in SUBSET RowSet
        /\ \A b \in rows : b \in radcheck[v] \/ b.mac = req[r].copy.mac
        /\ \E b \in rows : b.mac = req[r].copy.mac
    <3>1. [by |-> r, mac |-> req[r].copy.mac] \in RowSet
      BY <1>2 DEF RowSet, Row
    <3> QED BY <1>2, <3>1 DEF Rewritten
  <2> HIDE DEF rows
  <2>2. radcheck' \in [Vouchers -> SUBSET RowSet] /\ overtaken' \subseteq Vouchers /\ radcheck'[v] = rows
    BY <1>2, <1>8, <2>1 DEF IInv, TypeOK
  <2>3. TypeOK'
    BY <1>3, <1>6, <2>2 DEF IInv, TypeOK
  <2>4. \A w \in Vouchers \ {v} : radcheck'[w] = radcheck[w] /\ (w \in overtaken' <=> w \in overtaken)
    BY <1>2, <1>8 DEF IInv, TypeOK
  <2>5. \A w \in Vouchers \ {v} : RadiusAgrees(w)'
    BY <1>3, <1>4, <2>4, RadiusStays
  <2>6. v \notin overtaken' => req[r].copy.mac = owner[v] /\ AllowsLogin(vouchers[v])
    BY <1>2, <1>8 DEF Outdated, IInv, RowAgrees
  <2>7. \A b \in rows : b.mac \in {NoDevice, owner[v]}
    BY <1>2, <2>1 DEF IInv, RadiusAgrees
  <2>8. RadiusAgrees(v)'
    BY <1>2, <1>3, <2>1, <2>2, <2>6, <2>7 DEF RadiusAgrees, AllowsLogin, Running
  <2>9. \A w \in Vouchers : Moves(w) /\ RadiusAgrees(w)'
    BY <1>4, <2>5, <2>8
  <2> QED BY <1>6, <2>3, <2>9, StepKeeps
<1> QED BY <1>2, <1>7, <1>8 DEF SyncInsert

-----------------------------------------------------------------------------
(* Vouchers issued and bound.                                              *)

\* Vouchers issued together, to one device or none.
LEMMA IssueKeeps ==
  ASSUME IInv, NEW r \in Requests, NEW S \in SUBSET Vouchers, NEW row \in Row, NEW x \in ReqState,
         AllowsLogin(row),
         \A v \in S : vouchers[v].status = "none",
         vouchers' = [v \in Vouchers |-> IF v \in S THEN row ELSE vouchers[v]],
         owner' = [v \in Vouchers |-> IF v \in S THEN row.mac ELSE owner[v]],
         req' = [req EXCEPT ![r] = x],
         x.pc = "next",
         UNCHANGED <<radcheck, plan, sales, spent, served, overtaken>>
  PROVE  IInv'
<1>1. TypeOK'
  BY DEF IInv, TypeOK, Row
<1>2. \A v \in S : Issued(v)
  BY DEF Issued
<1>3. \A v \in Vouchers \ S : Kept(v) /\ vouchers'[v].status = vouchers[v].status
  BY DEF Kept
<1>4. ASSUME NEW v \in Vouchers PROVE Moves(v)
  BY <1>2, <1>3 DEF Moves
<1>5. ASSUME NEW v \in Vouchers PROVE RadiusAgrees(v)'
  <2>1. CASE v \in S
    <3>1. radcheck'[v] = {}
      BY <2>1 DEF IInv, RadiusAgrees
    <3> QED BY <3>1, RadiusRevoked
  <2>2. CASE v \notin S
    BY <1>3, <2>2, RadiusStays
  <2> QED BY <2>1, <2>2
<1>6. BindersKept
  <2> SUFFICES ASSUME NEW q \in Requests, At(q, "bindCommit") PROVE Kept(req[q].voucher)
    BY DEF BindersKept
  <2>1. req[q].voucher \in Vouchers /\ AllowsLogin(vouchers[req[q].voucher])
    BY DEF IInv, RequestWell, At
  <2> QED BY <1>3, <2>1 DEF AllowsLogin, Running
<1>7. req'[r] = x /\ \A q \in Requests \ {r} : req'[q] = req[q]
  BY DEF IInv, TypeOK
<1>8. RequestsMove
  <2>1. RequestWell(r)' /\ req'[r].pc # "bindCommit"
    BY <1>7 DEF RequestWell
  <2> QED BY <1>6, <1>7, <2>1 DEF RequestsMove, BindersKept
<1> QED BY <1>1, <1>4, <1>5, <1>8, StepKeeps

LEMMA NewRows ==
  ASSUME NEW c \in {"physical", "online"}, NEW d \in Devices \union {NoDevice}
  PROVE  Unused(c, d) \in Row /\ AllowsLogin(Unused(c, d)) /\ Unused(c, d).mac = d
BY ValuesTyped DEF Unused, NoRow, Row, Status, AllowsLogin, Running

LEMMA CreateManyKeeps ==
  ASSUME IInv, NEW r \in Requests, CreateMany(r)
  PROVE  IInv'
<1> DEFINE row == Unused("physical", NoDevice)
           x == [req[r] EXCEPT !.pc = "next"]
<1>1. req[r] \in ReqState /\ req[r].todo \in SUBSET Vouchers
  BY DEF IInv, TypeOK, ReqState
<1>2. UNCHANGED <<radcheck, plan, sales, spent, served, owner, overtaken>>
  BY DEF CreateMany
<1>3. CASE \A v \in req[r].todo : vouchers[v].status = "none"
  <2>1. row \in Row /\ AllowsLogin(row) /\ row.mac = NoDevice
    BY NewRows
  <2>2. x \in ReqState /\ x.pc = "next"
    BY <1>1 DEF ReqState
  <2>3. /\ vouchers' = [v \in Vouchers |-> IF v \in req[r].todo THEN row ELSE vouchers[v]]
        /\ req' = [req EXCEPT ![r] = x]
    BY <1>3 DEF CreateMany, IInv, TypeOK
  <2>4. owner' = [v \in Vouchers |-> IF v \in req[r].todo THEN row.mac ELSE owner[v]]
    BY <1>2, <1>3, <2>1 DEF IInv, TypeOK, RowAgrees
  <2> HIDE DEF row, x
  <2> QED BY <1>1, <1>2, <1>3, <2>1, <2>2, <2>3, <2>4, IssueKeeps
<1>4. CASE ~\A v \in req[r].todo : vouchers[v].status = "none"
  <2>1. /\ req' = [req EXCEPT ![r] = Idle] /\ UNCHANGED vouchers
        /\ plan' \in [active : BOOLEAN, capped : BOOLEAN, deleted : BOOLEAN]
        /\ served' \in [Vouchers -> SUBSET Devices]
    BY <1>4 DEF CreateMany, IInv, TypeOK
  <2> QED BY <1>2, <2>1, EndKeeps
<1> QED BY <1>3, <1>4

LEMMA IssueOnlineKeeps ==
  ASSUME IInv, NEW r \in Requests, NEW v \in Vouchers, NEW d \in Devices, IssueOnline(r, v, d)
  PROVE  IInv'
<1> DEFINE row == Unused("online", d)
           x == [req[r] EXCEPT !.pc = "next", !.todo = {v}]
<1>1. req[r] \in ReqState
  BY DEF IInv, TypeOK
<1>2. UNCHANGED <<radcheck, plan, sales, spent, served, overtaken>> /\ vouchers[v].status = "none"
  BY DEF IssueOnline
<1>3. row \in Row /\ AllowsLogin(row) /\ row.mac = d
  BY NewRows
<1>4. x \in ReqState /\ x.pc = "next"
  BY <1>1 DEF ReqState
<1>5. /\ vouchers' = [w \in Vouchers |-> IF w \in {v} THEN row ELSE vouchers[w]]
      /\ owner' = [w \in Vouchers |-> IF w \in {v} THEN d ELSE owner[w]]
      /\ req' = [req EXCEPT ![r] = x]
  BY DEF IssueOnline, IInv, TypeOK
<1>6. {v} \in SUBSET Vouchers /\ \A w \in {v} : vouchers[w].status = "none"
  BY <1>2
<1> HIDE DEF row, x
<1> QED BY <1>2, <1>3, <1>4, <1>5, <1>6, IssueKeeps

\* A binding that is refused at last leaves everything as it was; otherwise the row is bound.
LEMMA BoundRow ==
  ASSUME IInv, NEW r \in Requests, BindCommit(r), NEW v, NEW d,
         v = req[r].voucher, d = req[r].device, ~LimitReached(req[r].capped, v)
  PROVE  /\ v \in Vouchers /\ d \in Devices
         /\ AllowsLogin(vouchers[v]) /\ vouchers[v].mac \in {NoDevice, d}
         /\ vouchers' \in [Vouchers -> Row] /\ owner' = [owner EXCEPT ![v] = d]
         /\ vouchers'[v].status = "active" /\ vouchers'[v].mac = d /\ AllowsLogin(vouchers'[v])
         /\ \A w \in Vouchers \ {v} : vouchers'[w] = vouchers[w] /\ owner'[w] = owner[w]
         /\ overtaken' \in {overtaken \ {v}, overtaken}
<1> DEFINE row == [vouchers[v] EXCEPT !.status = "active", !.mac = d,
                                      !.expiry = IF @ = "unset" THEN "running" ELSE @]
<1>1. /\ v \in Vouchers /\ d \in Devices
      /\ AllowsLogin(vouchers[v]) /\ vouchers[v].mac \in {NoDevice, d}
      /\ vouchers \in [Vouchers -> Row] /\ owner \in [Vouchers -> Devices \union {NoDevice}]
  BY DEF BindCommit, At, IInv, TypeOK, RequestWell
<1>2. row \in Row /\ row.status = "active" /\ row.mac = d /\ AllowsLogin(row)
  <2>1. vouchers[v] \in Row
    BY <1>1
  <2> DEFINE e == IF vouchers[v].expiry = "unset" THEN "running" ELSE vouchers[v].expiry
  <2>2. e \in {"unset", "running", "past"}
    BY <2>1 DEF Row
  <2>3. row = [vouchers[v] EXCEPT !.status = "active", !.mac = d, !.expiry = e]
    OBVIOUS
  <2> HIDE DEF e, row
  <2>4. row \in Row /\ row.status = "active" /\ row.mac = d
    BY <1>1, <2>1, <2>2, <2>3 DEF Row, Status
  <2> QED BY <2>4 DEF AllowsLogin, Running
<1>3. /\ vouchers' = [vouchers EXCEPT ![v] = row]
      /\ owner' = [owner EXCEPT ![v] = d]
      /\ overtaken' \in {overtaken \ {v}, overtaken}
  BY <1>1 DEF BindCommit
<1> HIDE DEF row
<1> QED BY <1>1, <1>2, <1>3

LEMMA BindCommitKeeps ==
  ASSUME IInv, NEW r \in Requests, BindCommit(r)
  PROVE  IInv'
<1>1. PICK v \in Vouchers, d \in Devices : v = req[r].voucher /\ d = req[r].device /\ req[r].pc = "bindCommit"
  BY DEF BindCommit, At, IInv, RequestWell
<1> DEFINE rows == Rewritten(r, d)
           x == IF req[r].then = "packet" THEN [Idle EXCEPT !.pc = "packet", !.voucher = v, !.device = d]
                ELSE Idle
<1>2. UNCHANGED <<plan, sales, spent, served>>
  BY DEF BindCommit
<1>3. CASE LimitReached(req[r].capped, v)
  <2>1. /\ req' = [req EXCEPT ![r] = Idle] /\ UNCHANGED <<vouchers, radcheck, owner, overtaken>>
        /\ plan' \in [active : BOOLEAN, capped : BOOLEAN, deleted : BOOLEAN]
        /\ served' \in [Vouchers -> SUBSET Devices]
    BY <1>1, <1>3 DEF BindCommit, IInv, TypeOK
  <2> QED BY <1>2, <2>1, EndKeeps
<1>4. CASE ~LimitReached(req[r].capped, v)
  <2>1. /\ radcheck' = [radcheck EXCEPT ![v] = rows]
        /\ req' = [req EXCEPT ![r] = x]
    BY <1>1, <1>4 DEF BindCommit
  <2>2. /\ AllowsLogin(vouchers[v]) /\ vouchers[v].mac \in {NoDevice, d}
        /\ vouchers' \in [Vouchers -> Row] /\ owner' = [owner EXCEPT ![v] = d]
        /\ vouchers'[v].status = "active" /\ vouchers'[v].mac = d /\ AllowsLogin(vouchers'[v])
        /\ \A w \in Vouchers \ {v} : vouchers'[w] = vouchers[w] /\ owner'[w] = owner[w]
        /\ overtaken' \in {overtaken \ {v}, overtaken}
    BY <1>1, <1>4, BoundRow
  <2>3. x \in ReqState /\ x.pc \in {"idle", "packet"} /\ (x.pc = "packet" => x.voucher = v /\ x.device = d)
    BY <1>1, ValuesTyped DEF Idle, ReqState
  <2>4. /\ rows \in SUBSET RowSet
        /\ \A b \in rows : b \in radcheck[v] \/ b.mac = d
        /\ \E b \in rows : b.mac = d
    <3>1. [by |-> r, mac |-> d] \in RowSet /\ radcheck[v] \in SUBSET RowSet
      BY <1>1 DEF RowSet, IInv, TypeOK
    <3> QED BY <1>1, <3>1 DEF Rewritten
  <2>5. owner'[v] = d /\ owner[v] \in {NoDevice, d} /\ owner' \in [Vouchers -> Devices \union {NoDevice}]
    BY <1>1, <2>2 DEF IInv, TypeOK, RowAgrees
  <2> HIDE DEF rows, x
  <2>6. /\ radcheck'[v] = rows /\ req'[r] = x
        /\ \A w \in Vouchers \ {v} : radcheck'[w] = radcheck[w] /\ (w \in overtaken' <=> w \in overtaken)
        /\ \A q \in Requests \ {r} : req'[q] = req[q]
    BY <1>1, <2>1, <2>2 DEF IInv, TypeOK
  <2>7. TypeOK'
    BY <1>1, <1>2, <2>1, <2>2, <2>3, <2>4, <2>5 DEF IInv, TypeOK
  <2>8. Moves(v)
    BY <1>1, <2>2, <2>5 DEF Moves, Bound, Kept, AllowsLogin, Running, IInv, RowAgrees
  <2>9. RadiusAgrees(v)'
    <3>1. \A b \in radcheck[v] : b.mac \in {NoDevice, owner[v]}
      BY <1>1 DEF IInv, RadiusAgrees
    <3>2. \A b \in rows : b.mac \in {NoDevice, d}
      BY <2>4, <2>5, <3>1
    <3>3. /\ radcheck'[v] = rows /\ owner'[v] = d /\ vouchers'[v].status = "active"
          /\ \E b \in rows : b.mac = d
      BY <2>2, <2>4, <2>5, <2>6
    <3> QED BY <3>2, <3>3 DEF RadiusAgrees
  <2>10. \A w \in Vouchers \ {v} : Kept(w) /\ RadiusAgrees(w)'
    BY <2>2, <2>6, RadiusStays DEF Kept
  <2>11. \A w \in Vouchers : Moves(w) /\ RadiusAgrees(w)'
    BY <2>8, <2>9, <2>10 DEF Moves
  <2>12. RequestsMove
    <3>1. ASSUME NEW q \in Requests \ {r}, At(q, "bindCommit") PROVE Kept(req[q].voucher)
      <4>1. req[q].voucher \in Vouchers \ {v}
        BY <1>1, <3>1 DEF IInv, RequestWell, OneBinder, At
      <4> QED BY <2>10, <4>1
    <3>2. RequestWell(r)' /\ req'[r].pc # "bindCommit"
      BY <1>1, <2>2, <2>3, <2>5, <2>6 DEF RequestWell
    <3> QED BY <2>6, <3>1, <3>2 DEF RequestsMove
  <2> QED BY <2>7, <2>11, <2>12, StepKeeps
<1> QED BY <1>3, <1>4

-----------------------------------------------------------------------------
(* The invariant.                                                          *)

LEMMA Initially ==
  ASSUME Init
  PROVE  IInv
<1>1. TypeOK
  BY ValuesTyped DEF Init, TypeOK
<1>2. \A v \in Vouchers : RowAgrees(v) /\ RadiusAgrees(v)
  BY DEF Init, RowAgrees, RadiusAgrees, NoRow, AllowsLogin, Running
<1>3. \A r \in Requests : req[r] = Idle /\ RequestWell(r)
  BY DEF Init, RequestWell, Idle
<1>4. OneBinder
  BY <1>3 DEF OneBinder, At, Idle
<1> QED BY <1>1, <1>2, <1>3, <1>4 DEF IInv

LEMMA Preserved ==
  ASSUME IInv, [Next]_vars
  PROVE  IInv'
<1>1. ASSUME NEW r \in Requests, RequestStep(r) PROVE IInv'
  BY <1>1, CreateManyKeeps, AllSyncedKeeps, SyncReadKeeps, JoinFlightKeeps, RevocationKeeps,
     SyncDeleteKeeps, SyncInsertKeeps, BindCommitKeeps, PostAuthKeeps, AnswerPacketKeeps,
     PatchSaveKeeps DEF RequestStep
<1>2. ASSUME NEW r \in Requests, Arrival(r) PROVE IInv'
  BY <1>2, GenerateCodesKeeps, IssueOnlineKeeps, StartSyncKeeps, AutoConnectKeeps, BindBeginKeeps,
     LoginKeeps, PatchReadKeeps DEF Arrival
<1>3. ASSUME NEW v \in Vouchers,
             DeleteVoucher(v) \/ BindOver(v) \/ UseData(v) \/ TimePasses(v) \/ RecordPhysicalSale(v)
      PROVE  IInv'
  BY <1>3, DeleteVoucherKeeps, BindOverKeeps, UseDataKeeps, RecordPhysicalSaleKeeps
<1>4. CASE DeletePlan
  BY <1>4, UseDataKeeps
<1>5. CASE UNCHANGED vars
  BY <1>5 DEF vars, IInv, TypeOK, RowAgrees, RadiusAgrees, RequestWell, OneBinder, At
<1> QED BY <1>1, <1>2, <1>3, <1>4, <1>5, CrashKeeps DEF Next

\* The inductive invariant holds of every reachable state.
THEOREM Invariance == Spec => []IInv
BY Initially, Preserved, PTL DEF Spec

\* Vouchers, RADIUS rows, the plan and every request in flight keep their types.
THEOREM TypeCorrectness == Spec => []TypeOK
<1>1. IInv => TypeOK
  BY DEF IInv
<1> QED BY <1>1, Invariance, PTL

\* Whatever bindings, synchronisations and accepted logins overlap, the rows FreeRADIUS reads of a
\* bound voucher name its device, unless they stem from an outdated copy (bindVoucherToDevice,
\* SyncVoucher, syncVoucherRadiusRecords).
THEOREM Bindings == Spec => []BindingEnforced
<1>1. IInv => BindingEnforced
  BY DEF IInv, RadiusAgrees, BindingEnforced
<1> QED BY <1>1, Invariance, PTL

\* A voucher SyncVoucher or a binding found out of time or data has no rows left in radcheck,
\* except of a copy read before its end and written after it.
THEOREM Ended == Spec => []OverLeavesRadius
<1>1. IInv => OverLeavesRadius
  BY DEF IInv, RadiusAgrees, OverLeavesRadius
<1> QED BY <1>1, Invariance, PTL

\* No transaction, however late, leaves a row in radcheck that names a device the voucher was not
\* bound to.
THEOREM Foreign == Spec => []NoForeignDevice
<1>1. IInv => NoForeignDevice
  BY DEF IInv, RadiusAgrees, NoForeignDevice
<1> QED BY <1>1, Invariance, PTL

-----------------------------------------------------------------------------
(* The refinement.                                                         *)

PhaseOf(row) == CASE row.status = "none" -> "none"
                  [] AllowsLogin(row) -> "usable"
                  [] OTHER -> "over"

\* What a step may do to the credentials of voucher v.
Tightens(v) == overtaken' \in {overtaken, overtaken \ {v}}

Loosens(v) == vouchers[v].status # "none" /\ overtaken' = overtaken \union {v}

\* The ways in which a step moves the rows and the history of logins.
Quiet == \A v \in Vouchers : Kept(v)

OthersKept(v) == \A w \in Vouchers \ {v} : Kept(w)

EndsOne == \E v \in Vouchers : Ends(v) /\ OthersKept(v) /\ Tightens(v)

BindsOne == \E v \in Vouchers, d \in Devices :
              /\ AllowsLogin(vouchers[v]) /\ AllowsLogin(vouchers'[v])
              /\ owner[v] = NoDevice /\ owner' = [owner EXCEPT ![v] = d]
              /\ OthersKept(v) /\ Tightens(v)

IssuesSome == \E S \in SUBSET Vouchers, d \in Devices \union {NoDevice} :
                /\ \A v \in S : vouchers[v].status = "none" /\ AllowsLogin(vouchers'[v])
                /\ \A v \in Vouchers \ S : Kept(v)
                /\ owner' = [v \in Vouchers |-> IF v \in S THEN d ELSE owner[v]]
                /\ UNCHANGED overtaken

Serves == \E v \in Vouchers, d \in Devices :
            /\ UNCHANGED <<vouchers, owner, overtaken>>
            /\ vouchers[v].status # "none"
            /\ owner[v] \in {NoDevice, d} \/ v \in overtaken
            /\ served' = [served EXCEPT ![v] = @ \union {d}]

Outcome ==
  \/ /\ served' = served
     /\ \/ Quiet /\ (UNCHANGED overtaken \/ \E v \in Vouchers : Tightens(v) \/ Loosens(v))
        \/ EndsOne \/ BindsOne \/ IssuesSome
  \/ Serves

LEMMA PhasesOfRows ==
  Phase = [v \in Vouchers |-> PhaseOf(vouchers[v])] /\ Phase' = [v \in Vouchers |-> PhaseOf(vouchers'[v])]
BY DEF Phase, PhaseOf

LEMMA PhasesTold ==
  ASSUME NEW row
  PROVE  /\ PhaseOf(row) = "none" <=> row.status = "none"
         /\ PhaseOf(row) = "usable" <=> AllowsLogin(row)
         /\ PhaseOf(row) = "over" <=> row.status # "none" /\ ~AllowsLogin(row)
BY DEF PhaseOf, AllowsLogin, Running

LEMMA KeptPhase ==
  ASSUME NEW v \in Vouchers, Kept(v)
  PROVE  PhaseOf(vouchers'[v]) = PhaseOf(vouchers[v])
BY DEF Kept, PhaseOf

LEMMA QuietMaps ==
  ASSUME IInv, IInv', Quiet
  PROVE  UNCHANGED <<Phase, owner>>
<1>1. \A v \in Vouchers : PhaseOf(vouchers'[v]) = PhaseOf(vouchers[v]) /\ owner'[v] = owner[v]
  BY KeptPhase DEF Quiet, Kept
<1>2. owner \in [Vouchers -> Devices \union {NoDevice}] /\ owner' \in [Vouchers -> Devices \union {NoDevice}]
  BY DEF IInv, TypeOK
<1> QED BY <1>1, <1>2, PhasesOfRows

LEMMA CredentialsMap ==
  ASSUME IInv, IInv', Quiet, served' = served,
         UNCHANGED overtaken \/ \E v \in Vouchers : Tightens(v) \/ Loosens(v)
  PROVE  Promise!Next \/ UNCHANGED <<Phase, owner, overtaken, served>>
<1>1. UNCHANGED <<Phase, owner>>
  BY QuietMaps
<1>2. ASSUME NEW v \in Vouchers, overtaken' = overtaken \ {v} PROVE Promise!Mend(v)
  BY <1>1, <1>2 DEF Promise!Mend
<1>3. ASSUME NEW v \in Vouchers, Loosens(v) PROVE Promise!Loosen(v)
  <2>1. Phase[v] # "none"
    BY <1>3, PhasesOfRows, PhasesTold DEF Loosens
  <2> QED BY <1>1, <1>3, <2>1 DEF Promise!Loosen, Loosens
<1> QED BY <1>1, <1>2, <1>3 DEF Promise!Next, Tightens

LEMMA EndMaps ==
  ASSUME IInv, IInv', EndsOne, served' = served
  PROVE  Promise!Next \/ UNCHANGED <<Phase, owner, overtaken, served>>
<1>1. PICK v \in Vouchers : Ends(v) /\ OthersKept(v) /\ Tightens(v)
  BY DEF EndsOne
<1>2. owner' = owner
  BY <1>1 DEF IInv, TypeOK, Ends, OthersKept, Kept
<1>3. PhaseOf(vouchers'[v]) = "over" /\ PhaseOf(vouchers[v]) \in {"usable", "over"}
  BY <1>1, PhasesTold DEF Ends
<1>4. \A w \in Vouchers \ {v} : PhaseOf(vouchers'[w]) = PhaseOf(vouchers[w])
  BY <1>1, KeptPhase DEF OthersKept
<1>5. Phase' = [Phase EXCEPT ![v] = "over"] /\ Phase[v] = PhaseOf(vouchers[v])
  BY <1>3, <1>4, PhasesOfRows
<1>6. CASE Phase[v] = "over"
  <2>1. Phase' = Phase
    BY <1>5, <1>6, PhasesOfRows
  <2> QED BY <1>1, <1>2, <2>1 DEF Tightens, Promise!Mend, Promise!Next
<1>7. CASE Phase[v] = "usable"
  BY <1>1, <1>2, <1>5, <1>7 DEF Tightens, Promise!End, Promise!Next
<1> QED BY <1>3, <1>5, <1>6, <1>7

LEMMA BindMaps ==
  ASSUME IInv, IInv', BindsOne, served' = served
  PROVE  Promise!Next
<1>1. PICK v \in Vouchers, d \in Devices :
        /\ AllowsLogin(vouchers[v]) /\ AllowsLogin(vouchers'[v])
        /\ owner[v] = NoDevice /\ owner' = [owner EXCEPT ![v] = d]
        /\ OthersKept(v) /\ Tightens(v)
  BY DEF BindsOne
<1>2. PhaseOf(vouchers'[v]) = "usable" /\ PhaseOf(vouchers[v]) = "usable"
  BY <1>1, PhasesTold
<1>3. \A w \in Vouchers \ {v} : PhaseOf(vouchers'[w]) = PhaseOf(vouchers[w])
  BY <1>1, KeptPhase DEF OthersKept
<1>4. Phase' = Phase /\ Phase[v] = "usable"
  BY <1>2, <1>3, PhasesOfRows
<1>5. Promise!Bind(v, d)
  BY <1>1, <1>4 DEF Promise!Bind, Tightens
<1> QED BY <1>5 DEF Promise!Next

LEMMA IssueMaps ==
  ASSUME IInv, IssuesSome, served' = served
  PROVE  Promise!Next
<1>1. PICK S \in SUBSET Vouchers, d \in Devices \union {NoDevice} :
        /\ \A v \in S : vouchers[v].status = "none" /\ AllowsLogin(vouchers'[v])
        /\ \A v \in Vouchers \ S : Kept(v)
        /\ owner' = [v \in Vouchers |-> IF v \in S THEN d ELSE owner[v]]
        /\ UNCHANGED overtaken
  BY DEF IssuesSome
<1>2. \A v \in S : PhaseOf(vouchers[v]) = "none" /\ PhaseOf(vouchers'[v]) = "usable"
  BY <1>1, PhasesTold
<1>3. \A v \in Vouchers \ S : PhaseOf(vouchers'[v]) = PhaseOf(vouchers[v])
  BY <1>1, KeptPhase
<1>4. /\ \A v \in S : Phase[v] = "none"
      /\ Phase' = [v \in Vouchers |-> IF v \in S THEN "usable" ELSE Phase[v]]
  BY <1>2, <1>3, PhasesOfRows
<1>5. Promise!Issue(S, d)
  BY <1>1, <1>4 DEF Promise!Issue
<1> QED BY <1>5 DEF Promise!Next

LEMMA ServeMaps ==
  ASSUME Serves
  PROVE  Promise!Next
<1>1. PICK v \in Vouchers, d \in Devices :
        /\ UNCHANGED <<vouchers, owner, overtaken>>
        /\ vouchers[v].status # "none"
        /\ owner[v] \in {NoDevice, d} \/ v \in overtaken
        /\ served' = [served EXCEPT ![v] = @ \union {d}]
  BY DEF Serves
<1>2. Phase' = Phase /\ Phase[v] # "none"
  BY <1>1, PhasesOfRows, PhasesTold
<1>3. Promise!Serve(v, d)
  BY <1>1, <1>2 DEF Promise!Serve
<1> QED BY <1>3 DEF Promise!Next

-----------------------------------------------------------------------------
(* What each step of the requests does to the rows.                        *)

LEMMA SameRows ==
  ASSUME UNCHANGED <<vouchers, owner, overtaken, served>>
  PROVE  Outcome
BY DEF Outcome, Quiet, Kept

LEMMA SyncInsertRows ==
  ASSUME IInv, NEW r \in Requests, SyncInsert(r)
  PROVE  Outcome
<1>1. PICK v \in Vouchers : v = req[r].voucher /\ vouchers[v].status # "none"
  BY DEF SyncInsert, At, IInv, RequestWell
<1>2. UNCHANGED <<vouchers, owner, served>>
  BY DEF SyncInsert
<1>3. Tightens(v) \/ Loosens(v)
  BY <1>1 DEF SyncInsert, Tightens, Loosens
<1>4. Quiet
  BY <1>2 DEF Quiet, Kept
<1> QED BY <1>2, <1>3, <1>4 DEF Outcome

LEMMA PostAuthRows ==
  ASSUME IInv, NEW r \in Requests, PostAuth(r)
  PROVE  Outcome
<1>1. req[r].voucher \in Vouchers /\ Quiet
  BY PostAuthRow DEF Quiet
<1>2. Tightens(req[r].voucher) /\ served' = served
  BY DEF PostAuth, Revoke, Tightens
<1> QED BY <1>1, <1>2 DEF Outcome

LEMMA RevocationRows ==
  ASSUME IInv, NEW r \in Requests, SyncExpired(r) \/ SyncExhausted(r) \/ SyncRefused(r)
  PROVE  Outcome
<1>1. req[r].pc = "sync" /\ UNCHANGED <<served, owner>>
  BY DEF SyncExpired, SyncExhausted, SyncRefused, At
<1>2. PICK v \in Vouchers : v = req[r].voucher
  BY <1>1 DEF IInv, RequestWell
<1>3. Tightens(v)
  BY <1>2 DEF SyncExpired, SyncExhausted, SyncRefused, Revoke, Tightens
<1>4. ASSUME NEW s \in {"expired", "exhausted"}, SaveCopy(r, s) PROVE EndsOne
  <2>1. Ends(v) /\ \A w \in Vouchers \ {v} : vouchers'[w] = vouchers[w]
    BY <1>1, <1>2, <1>4, SavedRow
  <2>2. OthersKept(v)
    BY <1>1, <2>1 DEF OthersKept, Kept
  <2> QED BY <1>3, <2>1, <2>2 DEF EndsOne
<1>5. CASE UNCHANGED vouchers
  <2>1. Quiet
    BY <1>1, <1>5 DEF Quiet, Kept
  <2> QED BY <1>1, <1>3, <2>1 DEF Outcome
<1>6. UNCHANGED vouchers \/ SaveCopy(r, "expired") \/ SaveCopy(r, "exhausted")
  BY DEF SyncExpired, SyncExhausted, SyncRefused
<1> QED BY <1>1, <1>4, <1>5, <1>6 DEF Outcome

LEMMA EndedRows ==
  ASSUME IInv, NEW v \in Vouchers, BindOver(v) \/ RecordPhysicalSale(v)
  PROVE  Outcome
<1>1. PICK s \in {"expired", "exhausted", "sold"} : vouchers' = [vouchers EXCEPT ![v].status = s]
  BY DEF BindOver, RecordPhysicalSale
<1>2. vouchers[v].status # "none" /\ UNCHANGED <<served, owner>> /\ Tightens(v)
  BY DEF BindOver, RecordPhysicalSale, CanBind, Live, Revoke, Tightens
<1>3. /\ vouchers'[v].status = s /\ vouchers'[v].mac = vouchers[v].mac
      /\ \A w \in Vouchers \ {v} : vouchers'[w] = vouchers[w]
  BY <1>1 DEF IInv, TypeOK, Row
<1>4. Ends(v)
  BY <1>2, <1>3 DEF Ends, AllowsLogin, Running, IInv, RowAgrees
<1>5. OthersKept(v)
  BY <1>2, <1>3 DEF OthersKept, Kept
<1> QED BY <1>2, <1>4, <1>5 DEF Outcome, EndsOne

LEMMA BoundRows ==
  ASSUME IInv, NEW r \in Requests, BindCommit(r)
  PROVE  Outcome
<1> DEFINE v == req[r].voucher
           d == req[r].device
<1>1. served' = served
  BY DEF BindCommit
<1>2. CASE LimitReached(req[r].capped, v)
  BY <1>1, <1>2, SameRows DEF BindCommit
<1>3. CASE ~LimitReached(req[r].capped, v)
  <2>1. /\ v \in Vouchers /\ d \in Devices
        /\ AllowsLogin(vouchers[v]) /\ vouchers[v].mac \in {NoDevice, d}
        /\ owner' = [owner EXCEPT ![v] = d]
        /\ vouchers'[v].status = "active" /\ vouchers'[v].mac = d /\ AllowsLogin(vouchers'[v])
        /\ \A w \in Vouchers \ {v} : vouchers'[w] = vouchers[w] /\ owner'[w] = owner[w]
        /\ overtaken' \in {overtaken \ {v}, overtaken}
    BY <1>3, BoundRow
  <2>2. OthersKept(v) /\ Tightens(v)
    BY <2>1 DEF OthersKept, Kept, Tightens
  <2>3. owner[v] = vouchers[v].mac /\ owner \in [Vouchers -> Devices \union {NoDevice}]
    BY <2>1 DEF IInv, TypeOK, RowAgrees
  <2>4. CASE owner[v] = NoDevice
    <3>1. BindsOne
      BY <2>1, <2>2, <2>4 DEF BindsOne
    <3> QED BY <1>1, <3>1 DEF Outcome
  <2>5. CASE owner[v] = d
    <3>1. Kept(v)
      BY <2>1, <2>3, <2>5 DEF Kept, AllowsLogin, Running
    <3>2. Quiet
      BY <2>2, <3>1 DEF Quiet, OthersKept
    <3> QED BY <1>1, <2>1, <2>2, <3>2 DEF Outcome
  <2> QED BY <2>1, <2>3, <2>4, <2>5
<1> QED BY <1>2, <1>3

LEMMA IssuedRows ==
  ASSUME IInv, NEW r \in Requests,
         CreateMany(r) \/ \E v \in Vouchers, d \in Devices : IssueOnline(r, v, d)
  PROVE  Outcome
<1>1. served' = served /\ overtaken' = overtaken /\ vouchers \in [Vouchers -> Row]
      /\ owner \in [Vouchers -> Devices \union {NoDevice}]
  BY DEF CreateMany, IssueOnline, IInv, TypeOK
<1>2. CASE CreateMany(r)
  <2> DEFINE S == req[r].todo
             row == Unused("physical", NoDevice)
  <2>1. S \in SUBSET Vouchers /\ AllowsLogin(row)
    BY NewRows DEF IInv, TypeOK, ReqState
  <2>2. CASE \A v \in S : vouchers[v].status = "none"
    <3>1. vouchers' = [v \in Vouchers |-> IF v \in S THEN row ELSE vouchers[v]] /\ owner' = owner
      BY <1>2, <2>2 DEF CreateMany
    <3>2. \A v \in S : owner[v] = NoDevice
      BY <2>1, <2>2 DEF IInv, RowAgrees
    <3> HIDE DEF row
    <3>3. /\ \A v \in S : vouchers[v].status = "none" /\ AllowsLogin(vouchers'[v])
          /\ \A v \in Vouchers \ S : Kept(v)
      BY <2>1, <2>2, <3>1 DEF Kept
    <3>4. owner' = [v \in Vouchers |-> IF v \in S THEN NoDevice ELSE owner[v]]
      BY <1>1, <3>1, <3>2
    <3>5. IssuesSome
      BY <1>1, <2>1, <3>3, <3>4 DEF IssuesSome
    <3> QED BY <1>1, <3>5 DEF Outcome
  <2>3. CASE ~\A v \in S : vouchers[v].status = "none"
    BY <1>1, <1>2, <2>3, SameRows DEF CreateMany
  <2> QED BY <2>2, <2>3
<1>3. ASSUME NEW v \in Vouchers, NEW d \in Devices, IssueOnline(r, v, d) PROVE Outcome
  <2> DEFINE row == Unused("online", d)
  <2>1. AllowsLogin(row)
    BY NewRows
  <2>2. /\ vouchers' = [vouchers EXCEPT ![v] = row] /\ vouchers[v].status = "none"
        /\ owner' = [owner EXCEPT ![v] = d]
    BY <1>3 DEF IssueOnline
  <2> HIDE DEF row
  <2>3. /\ \A w \in {v} : vouchers[w].status = "none" /\ AllowsLogin(vouchers'[w])
        /\ \A w \in Vouchers \ {v} : Kept(w)
    BY <1>1, <2>1, <2>2 DEF Kept
  <2>4. owner' = [w \in Vouchers |-> IF w \in {v} THEN d ELSE owner[w]]
    BY <1>1, <2>2
  <2>5. {v} \in SUBSET Vouchers /\ d \in Devices \union {NoDevice}
    OBVIOUS
  <2>6. IssuesSome
    BY <1>1, <2>3, <2>4, <2>5 DEF IssuesSome
  <2> QED BY <1>1, <2>6 DEF Outcome
<1> QED BY <1>2, <1>3

\* FreeRADIUS lets a device in only where a row names it or none names another; the rows of a bound
\* voucher that is not loose name its owner.
LEMMA LoginRows ==
  ASSUME IInv, NEW r \in Requests, NEW v \in Vouchers, NEW d \in Devices, Login(r, v, d)
  PROVE  Outcome
<1>1. RadiusAgrees(v) /\ Accepted(v, d)
  BY DEF Login, IInv
<1>2. vouchers[v].status # "none" /\ (owner[v] \in {NoDevice, d} \/ v \in overtaken)
  BY <1>1 DEF RadiusAgrees, Accepted
<1>3. Serves
  BY <1>2 DEF Serves, Login
<1> QED BY <1>3 DEF Outcome

LEMMA AnswerRows ==
  ASSUME IInv, NEW r \in Requests, AnswerPacket(r)
  PROVE  Outcome
<1>1. PICK v \in Vouchers, d \in Devices :
        v = req[r].voucher /\ d = req[r].device /\ vouchers[v].status # "none" /\ owner[v] = d
  BY DEF AnswerPacket, At, IInv, RequestWell
<1>2. UNCHANGED <<vouchers, owner, overtaken>> /\ served' \in {served, [served EXCEPT ![v] = @ \union {d}]}
  BY <1>1 DEF AnswerPacket
<1>3. CASE served' = served
  BY <1>2, <1>3, SameRows
<1>4. CASE served' = [served EXCEPT ![v] = @ \union {d}]
  BY <1>1, <1>2, <1>4 DEF Serves, Outcome
<1> QED BY <1>2, <1>3, <1>4

LEMMA Outcomes ==
  ASSUME IInv, Next
  PROVE  Outcome
<1>1. ASSUME NEW r \in Requests,
             \/ AllSynced(r) \/ SyncRead(r) \/ JoinFlight(r) \/ FlightTimesOut(r)
             \/ SyncDelete(r) \/ PatchSave(r) \/ Crash(r)
      PROVE  Outcome
  <2>1. UNCHANGED <<vouchers, owner, overtaken, served>>
    BY <1>1 DEF AllSynced, SyncRead, JoinFlight, FlightTimesOut, SyncDelete, PatchSave, Crash
  <2> QED BY <2>1, SameRows
<1>2. ASSUME NEW r \in Requests, RequestStep(r) PROVE Outcome
  BY <1>1, <1>2, RevocationRows, SyncInsertRows, BoundRows, IssuedRows, PostAuthRows, AnswerRows
     DEF RequestStep
<1>3. ASSUME NEW r \in Requests, Arrival(r) PROVE Outcome
  <2>1. ASSUME NEW S, GenerateCodes(r, S) \/ StartSync(r, S) PROVE Outcome
    BY <2>1, SameRows DEF GenerateCodes, StartSync
  <2>2. ASSUME NEW d, NEW field, AutoConnect(r, d) \/ PatchRead(r, field) PROVE Outcome
    BY <2>2, SameRows DEF AutoConnect, PatchRead
  <2>3. ASSUME NEW v, NEW d, NEW then, BindBegin(r, v, d, then) PROVE Outcome
    BY <2>3, SameRows DEF BindBegin
  <2> QED BY <1>3, <2>1, <2>2, <2>3, IssuedRows, LoginRows DEF Arrival
<1>4. ASSUME NEW v \in Vouchers, DeleteVoucher(v) \/ TimePasses(v) PROVE Outcome
  <2>1. UNCHANGED <<owner, overtaken, served>>
    BY <1>4 DEF DeleteVoucher, TimePasses
  <2>2. \A w \in Vouchers : /\ vouchers'[w].mac = vouchers[w].mac
                             /\ vouchers'[w].status = vouchers[w].status
    BY <1>4 DEF DeleteVoucher, TimePasses, IInv, TypeOK, Row
  <2> QED BY <2>1, <2>2 DEF Outcome, Quiet, Kept, AllowsLogin
<1>5. ASSUME NEW v \in Vouchers, UseData(v) PROVE Outcome
  BY <1>5, SameRows DEF UseData
<1>6. CASE DeletePlan
  BY <1>6, SameRows DEF DeletePlan
<1> QED BY <1>1, <1>2, <1>3, <1>4, <1>5, <1>6, EndedRows DEF Next

LEMMA StartsAsPromised ==
  ASSUME Init
  PROVE  Promise!Init
<1>1. \A v \in Vouchers : vouchers[v].status = "none"
  BY DEF Init, NoRow
<1>2. Phase = [v \in Vouchers |-> "none"]
  <2>1. \A v \in Vouchers : PhaseOf(vouchers[v]) = "none"
    BY <1>1, PhasesTold
  <2> QED BY <2>1, PhasesOfRows
<1> QED BY <1>2 DEF Promise!Init, Init

LEMMA StepsAsPromised ==
  ASSUME IInv, IInv', [Next]_vars
  PROVE  [Promise!Next]_(Promise!vars)
<1> SUFFICES Promise!Next \/ UNCHANGED <<Phase, owner, overtaken, served>>
  BY DEF Promise!vars
<1>1. CASE UNCHANGED vars
  BY <1>1 DEF vars, Phase
<1>2. CASE Next
  <2>1. Outcome
    BY <1>2, Outcomes
  <2> QED BY <2>1, CredentialsMap, EndMaps, BindMaps, IssueMaps, ServeMaps DEF Outcome
<1> QED BY <1>1, <1>2

\* Whatever requests overlap, wait for each other or die and whoever logs in, generation, sale,
\* binding, synchronisation, logins and their trigger implement OneDeviceVoucher: a voucher is bound
\* to one device for ever, is never usable again after it was over, and once bound lets no other
\* device in except through rows of an outdated copy.
THEOREM Refinement == Spec => KeepsPromise
<1>1. Init => Promise!Init
  BY StartsAsPromised
<1>2. IInv /\ IInv' /\ [Next]_vars => [Promise!Next]_(Promise!vars)
  BY StepsAsPromised
<1> QED BY <1>1, <1>2, Invariance, PTL DEF Spec, KeepsPromise, Promise!Spec

-----------------------------------------------------------------------------
(* The terms of plans, which share no state with the vouchers: durations,  *)
(* for every int that can be entered.                                      *)

termVars == <<planRow, asked, reply>>

TermsSpec == TermsInit /\ [][TermsNext]_termVars

\* A row that could be sold.
Sold(p) ==
  /\ p \in [value : Int, unit : Units, minutes : 1 .. MaxInt]

\* ... whose columns agree.
Agrees(p) == Sold(p) /\ p.minutes = p.value * Multiplier(p.unit)

-----------------------------------------------------------------------------
LEMMA Multipliers ==
  /\ Multiplier("minutes") = 1 /\ Multiplier("hours") = 60 /\ Multiplier("days") = 1440
  /\ Multiplier("weeks") = 10080 /\ Multiplier("months") = 43200
BY DEF Multiplier

\* durationToMinutes gives the product, or 0 for what it refuses; it never overflows.
LEMMA ValueInMinutes ==
  ASSUME NEW value \in Int, NEW unit
  PROVE  \/ DurationToMinutes(value, unit) = 0
         \/ /\ unit \in Units /\ value > 0
            /\ DurationToMinutes(value, unit) = value * Multiplier(unit)
            /\ DurationToMinutes(value, unit) \in 1 .. MaxInt
<1>1. MaxInt \in Nat
  BY TermsAssumption
<1>2. CASE unit \in Units /\ value > 0 /\ value <= MaxInt \div Multiplier(unit)
  <2>1. DurationToMinutes(value, unit) = value * Multiplier(unit)
    BY <1>2 DEF DurationToMinutes
  <2>2. value * Multiplier(unit) \in 1 .. MaxInt
    <3>1. CASE unit = "minutes"
      BY <1>1, <1>2, <3>1, Multipliers
    <3>2. CASE unit = "hours"
      BY <1>1, <1>2, <3>2, Multipliers
    <3>3. CASE unit = "days"
      BY <1>1, <1>2, <3>3, Multipliers
    <3>4. CASE unit = "weeks"
      BY <1>1, <1>2, <3>4, Multipliers
    <3>5. CASE unit = "months"
      BY <1>1, <1>2, <3>5, Multipliers
    <3> QED BY <1>2, <3>1, <3>2, <3>3, <3>4, <3>5 DEF Units
  <2> QED BY <1>2, <2>1, <2>2
<1>3. CASE ~(unit \in Units /\ value > 0 /\ value <= MaxInt \div Multiplier(unit))
  BY <1>3 DEF DurationToMinutes
<1> QED BY <1>2, <1>3

\* deriveDurationPresentation finds a unit for every number of minutes.
LEMMA UnitExists ==
  ASSUME NEW minutes \in Nat \ {0}
  PROVE  \E u \in Units : Divides(u, minutes) /\ \A w \in Units : Divides(w, minutes) => Multiplier(w) <= Multiplier(u)
<1> USE Multipliers DEF Units
<1>1. CASE Divides("months", minutes)
  BY <1>1
<1>2. CASE ~Divides("months", minutes) /\ Divides("weeks", minutes)
  BY <1>2
<1>3. CASE ~Divides("months", minutes) /\ ~Divides("weeks", minutes) /\ Divides("days", minutes)
  BY <1>3
<1>4. CASE ~Divides("months", minutes) /\ ~Divides("weeks", minutes) /\ ~Divides("days", minutes)
           /\ Divides("hours", minutes)
  BY <1>4
<1>5. CASE ~Divides("months", minutes) /\ ~Divides("weeks", minutes) /\ ~Divides("days", minutes)
           /\ ~Divides("hours", minutes)
  <2>1. Divides("minutes", minutes)
    BY DEF Divides
  <2> QED BY <1>5, <2>1
<1> QED BY <1>1, <1>2, <1>3, <1>4, <1>5

LEMMA Derived ==
  ASSUME NEW minutes \in 1 .. MaxInt
  PROVE  /\ Agrees(DeriveDurationPresentation(minutes))
         /\ DeriveDurationPresentation(minutes).minutes = minutes
<1> DEFINE unit == CHOOSE u \in Units :
                     Divides(u, minutes) /\ \A w \in Units : Divides(w, minutes) => Multiplier(w) <= Multiplier(u)
<1>1. minutes \in Nat \ {0} /\ MaxInt \in Nat
  BY TermsAssumption
<1>2. unit \in Units /\ Divides(unit, minutes)
  BY <1>1, UnitExists
<1>3. DeriveDurationPresentation(minutes) =
        [value |-> minutes \div Multiplier(unit), unit |-> unit, minutes |-> minutes]
  BY <1>1 DEF DeriveDurationPresentation
<1> HIDE DEF unit
<1>4. minutes \div Multiplier(unit) \in Int /\ (minutes \div Multiplier(unit)) * Multiplier(unit) = minutes
  <2> USE Multipliers DEF Divides
  <2>1. CASE unit = "minutes"
    BY <1>1, <1>2, <2>1
  <2>2. CASE unit = "hours"
    BY <1>1, <1>2, <2>2
  <2>3. CASE unit = "days"
    BY <1>1, <1>2, <2>3
  <2>4. CASE unit = "weeks"
    BY <1>1, <1>2, <2>4
  <2>5. CASE unit = "months"
    BY <1>1, <1>2, <2>5
  <2> QED BY <1>2, <2>1, <2>2, <2>3, <2>4, <2>5 DEF Units
<1> QED BY <1>2, <1>3, <1>4 DEF Agrees, Sold

\* A stored row: value and unit of an old row are the defaults of the migration.
LEMMA Hydrated ==
  ASSUME NEW p, Sold(p)
  PROVE  /\ Agrees(HydratePlanDurationPresentation(p))
         /\ HydratePlanDurationPresentation(p).minutes = p.minutes
<1>1. CASE p.value > 0 /\ DurationToMinutes(p.value, p.unit) = p.minutes /\ p.minutes > 0
  <2>1. HydratePlanDurationPresentation(p) = p
    BY <1>1 DEF HydratePlanDurationPresentation
  <2>2. p.minutes = p.value * Multiplier(p.unit)
    BY <1>1, ValueInMinutes DEF Sold
  <2> QED BY <2>1, <2>2 DEF Agrees
<1>2. CASE ~(p.value > 0 /\ DurationToMinutes(p.value, p.unit) = p.minutes /\ p.minutes > 0)
  <2>1. HydratePlanDurationPresentation(p) = DeriveDurationPresentation(p.minutes)
    BY <1>2 DEF HydratePlanDurationPresentation
  <2> QED BY <2>1, Derived DEF Sold
<1> QED BY <1>1, <1>2

\* A value and a unit give a row that agrees, or are refused.
LEMMA Entered ==
  ASSUME NEW value \in Int, NEW unit, FromValue(value, unit) # Refused
  PROVE  /\ Agrees(FromValue(value, unit))
         /\ FromValue(value, unit).value = value
         /\ FromValue(value, unit).unit = unit
<1>1. DurationToMinutes(value, unit) # 0
  BY DEF FromValue
<1>2. FromValue(value, unit) = [value |-> value, unit |-> unit, minutes |-> DurationToMinutes(value, unit)]
  BY <1>1 DEF FromValue
<1>3. unit \in Units /\ DurationToMinutes(value, unit) = value * Multiplier(unit)
      /\ DurationToMinutes(value, unit) \in 1 .. MaxInt
  BY <1>1, ValueInMinutes
<1> QED BY <1>2, <1>3 DEF Agrees, Sold

LEMMA EnteredMinutes ==
  ASSUME NEW minutes \in Minutes, DeriveDurationPresentation(minutes) # Refused
  PROVE  /\ Agrees(DeriveDurationPresentation(minutes))
         /\ DeriveDurationPresentation(minutes).minutes = minutes
<1>1. minutes \in Int /\ minutes <= MaxInt /\ MaxInt \in Nat
  BY TermsAssumption
<1>2. minutes > 0
  BY <1>1 DEF DeriveDurationPresentation
<1> QED BY <1>1, <1>2, Derived

LEMMA RefusedIsNotSold == ~Sold(Refused)
BY DEF Sold, Refused

\* applyDurationPatch of a row that agrees: what was given is taken, what was not is kept.
LEMMA PatchApplied ==
  ASSUME NEW p, Agrees(p), NEW given \in SUBSET DOMAIN Nil, NEW input \in Inputs,
         ApplyDurationPatch(p, given, input) # Refused
  PROVE  LET q == ApplyDurationPatch(p, given, input)
         IN  /\ Agrees(q)
             /\ "value" \in given => q.value = input.value
             /\ "unit" \in given => q.unit = input.unit
             /\ "unit" \in given /\ "value" \notin given => q.value = p.value
             /\ "value" \in given /\ "unit" \notin given => q.unit = p.unit
             /\ given = {"minutes"} => q.minutes = input.minutes
             /\ given = {} => q.minutes = p.minutes
<1> DEFINE q == ApplyDurationPatch(p, given, input)
           value == IF "value" \in given THEN input.value ELSE p.value
           unit == IF "unit" \in given THEN input.unit ELSE p.unit
<1>1. CASE given \intersect {"value", "unit"} # {}
  <2>1. q = FromValue(value, unit)
    BY <1>1 DEF ApplyDurationPatch
  <2>2. value \in Int
    BY TermsAssumption DEF Inputs, Agrees, Sold
  <2>3. Agrees(q) /\ q.value = value /\ q.unit = unit
    <3> HIDE DEF value, unit
    <3> QED BY <2>1, <2>2, Entered
  <2> QED BY <1>1, <2>3
<1>2. CASE given \intersect {"value", "unit"} = {} /\ "minutes" \in given
  <2>1. q = DeriveDurationPresentation(input.minutes)
    BY <1>2 DEF ApplyDurationPatch
  <2>2. input.minutes \in Minutes
    BY DEF Inputs
  <2>3. Agrees(q) /\ q.minutes = input.minutes
    BY <2>1, <2>2, EnteredMinutes
  <2> QED BY <1>2, <2>3
<1>3. CASE given \intersect {"value", "unit"} = {} /\ "minutes" \notin given
  <2>1. q = p
    BY <1>3 DEF ApplyDurationPatch
  <2> QED BY <1>3, <2>1
<1> QED BY <1>1, <1>2, <1>3

-----------------------------------------------------------------------------
(* The invariant.                                                          *)

TermsInv ==
  /\ planRow # Refused => Sold(planRow)
  /\ asked # NotAsked => planRow # Refused /\ Agrees(planRow)
  /\ PatchKeepsTerms

LEMMA TermsInitially == TermsInit => TermsInv
BY DEF TermsInit, TermsInv, PatchKeepsTerms

LEMMA NewRow ==
  ASSUME planRow = Refused, TermsInv, planRow' = Refused \/ Sold(planRow'), asked' = asked
  PROVE  TermsInv'
<1>1. asked = NotAsked
  BY DEF TermsInv
<1> QED BY <1>1 DEF TermsInv, PatchKeepsTerms

LEMMA PatchPlanKeeps ==
  ASSUME TermsInv, NEW given \in SUBSET DOMAIN Nil, NEW input \in Inputs, PatchPlan(given, input)
  PROVE  TermsInv'
<1> DEFINE shown == HydratePlanDurationPresentation(planRow)
           q == ApplyDurationPatch(shown, given, input)
<1>1. planRow # Refused /\ Sold(planRow)
  BY DEF PatchPlan, TermsInv
<1>2. Agrees(shown) /\ shown.minutes = planRow.minutes
  BY <1>1, Hydrated
<1>3. q # Refused /\ planRow' = q
      /\ asked' = [given |-> given, input |-> input, before |-> planRow]
  BY DEF PatchPlan, Patched
<1> HIDE DEF shown
<1>4. /\ Agrees(q)
      /\ "value" \in given => q.value = input.value
      /\ "unit" \in given => q.unit = input.unit
      /\ "unit" \in given /\ "value" \notin given => q.value = shown.value
      /\ "value" \in given /\ "unit" \notin given => q.unit = shown.unit
      /\ given = {"minutes"} => q.minutes = input.minutes
      /\ given = {} => q.minutes = shown.minutes
  BY <1>2, <1>3, PatchApplied
<1> HIDE DEF q
<1>5. asked'.given = given /\ asked'.input = input /\ asked'.before = planRow
  BY <1>3
<1>6. PatchKeepsTerms'
  BY <1>2, <1>3, <1>4, <1>5 DEF PatchKeepsTerms, Agrees, shown
<1> QED BY <1>3, <1>4, <1>6 DEF TermsInv, Agrees

LEMMA TermsPreserved == TermsInv /\ [TermsNext]_termVars => TermsInv'
<1> SUFFICES ASSUME TermsInv, [TermsNext]_termVars PROVE TermsInv'
  OBVIOUS
<1>1. ASSUME NEW m \in Minutes, LegacyPlan(m) PROVE TermsInv'
  <2>1. m \in 1 .. MaxInt
    BY <1>1, TermsAssumption DEF LegacyPlan
  <2>2. Sold(planRow')
    BY <1>1, <2>1 DEF LegacyPlan, Sold, Units
  <2> QED BY <1>1, <2>2, NewRow DEF LegacyPlan
<1>2. ASSUME NEW input \in Inputs, CreatePlan(input) PROVE TermsInv'
  <2>1. planRow' = NormalizeCreateDuration(input) /\ planRow = Refused /\ asked' = asked
    BY <1>2 DEF CreatePlan
  <2>2. input.value \in Int /\ input.minutes \in Minutes
    BY TermsAssumption DEF Inputs
  <2>3. planRow' = Refused \/ Sold(planRow')
    <3>1. CASE input.value > 0 \/ input.unit # ""
      BY <2>1, <2>2, <3>1, Entered DEF NormalizeCreateDuration, Agrees
    <3>2. CASE ~(input.value > 0 \/ input.unit # "")
      BY <2>1, <2>2, <3>2, EnteredMinutes DEF NormalizeCreateDuration, Agrees
    <3> QED BY <3>1, <3>2
  <2> QED BY <2>1, <2>3, NewRow
<1>3. ASSUME NEW input \in Inputs, NEW given \in SUBSET DOMAIN Nil, PatchPlan(given, input) PROVE TermsInv'
  BY <1>3, PatchPlanKeeps
<1>4. CASE RadiusStep \/ ReadAttribute
  <2>1. UNCHANGED <<planRow, asked>>
    BY <1>4 DEF RadiusStep, GrantTime, GrantData, GrantSpeed, ReceivePacket, SendAttribute, ReadAttribute
  <2> QED BY <2>1 DEF TermsInv, PatchKeepsTerms
<1>5. CASE UNCHANGED termVars
  BY <1>5 DEF termVars, TermsInv, PatchKeepsTerms
<1> QED BY <1>1, <1>2, <1>3, <1>4, <1>5 DEF TermsNext, PlanStep

THEOREM TermsInvariance == TermsSpec => []TermsInv
BY TermsInitially, TermsPreserved, PTL DEF TermsSpec

-----------------------------------------------------------------------------
(* Results.                                                                *)

\* hydratePlanDurationPresentation shows the minutes RADIUS grants, of new rows and of rows that
\* predate value and unit; durationToMinutes does not overflow.
THEOREM Shown == TermsSpec => []ShownIsSold
<1>1. TermsInv => ShownIsSold
  BY Hydrated DEF TermsInv, ShownIsSold, Agrees, Sold
<1> QED BY <1>1, TermsInvariance, PTL

\* applyDurationPatch takes what was given and keeps what was not, as it was shown.
THEOREM PatchKeeps == TermsSpec => []PatchKeepsTerms
BY TermsInvariance, PTL DEF TermsInv

-----------------------------------------------------------------------------
(* RADIUS attributes and packets.                                          *)

LEMMA DivMod ==
  ASSUME NEW n \in Int, NEW d \in Nat \ {0}
  PROVE  /\ n = (n \div d) * d + (n % d)
         /\ n % d \in 0 .. (d - 1)
         /\ n \div d \in Int
<1>1. n % d \in 0 .. (d - 1) /\ n \div d \in Int
  OBVIOUS
<1>2. n = (n \div d) * d + (n % d)
  OBVIOUS
<1> QED BY <1>1, <1>2

LEMMA ModSmall ==
  ASSUME NEW d \in Nat \ {0}, NEW n \in 0 .. (d - 1)
  PROVE  n % d = n
<1> DEFINE q == n \div d
<1>1. n = q * d + (n % d) /\ n % d \in 0 .. (d - 1) /\ q \in Int
  BY DivMod
<1> HIDE DEF q
<1>2. q = 0
  <2>1. CASE q >= 1
    <3>1. q * d >= d
      BY <1>1, <2>1
    <3> QED BY <1>1, <3>1
  <2>2. CASE q <= -1
    <3>1. q * d <= -d
      BY <1>1, <2>2
    <3> QED BY <1>1, <3>1
  <2> QED BY <1>1, <2>1, <2>2
<1> QED BY <1>1, <1>2

LEMMA ModLess ==
  ASSUME NEW d \in Nat \ {0}, NEW n \in Nat
  PROVE  n % d <= n /\ n \div d \in Nat /\ n \div d <= n
<1> DEFINE q == n \div d
<1>1. n = q * d + (n % d) /\ n % d \in 0 .. (d - 1) /\ q \in Int
  BY DivMod
<1> HIDE DEF q
<1>2. q >= 0
  <2>2. CASE q <= -1
    <3>1. q * d <= -d
      BY <1>1, <2>2
    <3> QED BY <1>1, <3>1
  <2> QED BY <1>1, <2>2
<1>3. q * d >= q
  BY <1>1, <1>2
<1> QED BY <1>1, <1>2, <1>3 DEF q

LEMMA ProductWrapped ==
  ASSUME NEW n \in Nat
  PROVE  Wrapped(n) \in Int /\ Wrapped(n) <= n /\ (n <= MaxInt => Wrapped(n) = n)
<1> DEFINE d == 2 * (MaxInt + 1)
           m == n + MaxInt + 1
<1>1. d \in Nat \ {0} /\ m \in Nat /\ MaxInt \in Nat /\ (n <= MaxInt => m \in 0 .. (d - 1))
  BY TermsAssumption
<1>2. Wrapped(n) = (m % d) - (MaxInt + 1)
  BY DEF Wrapped
<1>3. m = n + MaxInt + 1
  OBVIOUS
<1> HIDE DEF d, m
<1>4. m % d \in Int
  BY <1>1, DivMod
<1>5. m % d <= m
  BY <1>1, ModLess
<1>6. n <= MaxInt => m % d = m
  BY <1>1, ModSmall
<1> QED BY <1>1, <1>2, <1>3, <1>4, <1>5, <1>6

\* remainingVoucherSeconds rounds the time left up to seconds, and never above the duration.
LEMMA TimeLeft ==
  ASSUME NEW left \in Int, left > 0, NEW full \in Int,
         NEW s, s = LesserOf(GreaterOf((left + Tick - 1) \div Tick, 1), full)
  PROVE  /\ s \in Int /\ s <= full
         /\ full >= 1 => s >= 1 /\ (s - 1) * Tick < left /\ (s * Tick >= left \/ s = full)
<1>1. PICK t \in Nat : t = left + Tick - 1
  BY TermsAssumption
<1>2. Tick \in Nat \ {0}
  BY TermsAssumption
<1>3. PICK q : q = t \div Tick
  OBVIOUS
<1>4. PICK r : r = t % Tick
  OBVIOUS
<1>5. q \in Int /\ r \in 0 .. (Tick - 1) /\ t = q * Tick + r
  BY <1>2, <1>3, <1>4, DivMod
<1>6. q * Tick \in Int /\ q * Tick >= left /\ (q - 1) * Tick < left
  <2>1. q * Tick \in Int /\ (q - 1) * Tick = q * Tick - Tick
    BY <1>2, <1>5
  <2> QED BY <1>1, <1>2, <1>5, <2>1
<1>7. q >= 1
  <2>1. q <= 0 => q * Tick <= 0
    BY <1>2, <1>5
  <2> QED BY <1>5, <1>6, <2>1
<1>8. s = LesserOf(GreaterOf(q, 1), full)
  BY <1>1, <1>3
<1>9. CASE q < full
  <2>1. q \in Int
    BY <1>5
  <2>0. GreaterOf(q, 1) = q
    BY <1>7, <2>1 DEF GreaterOf
  <2>9. LesserOf(q, full) = q
    BY <1>9 DEF LesserOf
  <2>2. s = q
    BY <1>8, <2>0, <2>9
  <2>3. s \in Int /\ s <= full /\ s >= 1
    BY <1>7, <1>9, <2>1, <2>2
  <2>4. (s - 1) * Tick < left /\ s * Tick >= left
    BY <1>6, <2>2
  <2> QED BY <2>3, <2>4
<1>10. CASE q >= full
  <2>9. q \in Int
    BY <1>5
  <2>0. GreaterOf(q, 1) = q
    BY <1>7, <2>9 DEF GreaterOf
  <2>8. LesserOf(q, full) = full
    BY <1>10, <2>9 DEF LesserOf
  <2>1. s = full
    BY <1>8, <2>0, <2>8
  <2>2. (full - 1) * Tick <= (q - 1) * Tick /\ (full - 1) * Tick \in Int /\ (q - 1) * Tick \in Int
    BY <1>2, <1>5, <1>10
  <2>3. (full - 1) * Tick < left
    BY <1>6, <2>2
  <2>4. s \in Int /\ s <= full /\ (full >= 1 => s >= 1)
    BY <2>1
  <2>5. (s - 1) * Tick < left
    BY <2>1, <2>3
  <2> QED BY <2>1, <2>4, <2>5
<1>11. q < full \/ q >= full
  BY <1>5
<1> QED BY <1>9, <1>10, <1>11

LEMMA GrantTimeExact ==
  ASSUME TermsInv, NEW started \in BOOLEAN, NEW left \in Times, GrantTime(started, left)
  PROVE  TimeGranted'
<1> DEFINE shown == HydratePlanDurationPresentation(planRow)
<1>1. /\ planRow.minutes \in 1 .. MaxInt /\ MaxInt \in Nat /\ Word \in Nat \ {0} /\ Word <= MaxInt
      /\ left \in Int /\ Tick \in Nat \ {0}
  BY TermsAssumption DEF GrantTime, TermsInv, Sold
<1>2. PICK sold : sold = shown.value * Multiplier(shown.unit) * 60
  OBVIOUS
<1>3. sold = planRow.minutes * 60
  <2>1. Agrees(shown) /\ shown.minutes = planRow.minutes
    BY Hydrated DEF GrantTime, TermsInv
  <2> HIDE DEF shown
  <2> QED BY <1>2, <2>1 DEF Agrees
<1>4. PICK full : full = FullDuration(planRow.minutes)
  OBVIOUS
<1>5. full = Wrapped(sold) /\ sold \in Nat \ {0}
  BY <1>1, <1>3, <1>4 DEF FullDuration, GreaterOf
<1>6. full \in Int /\ full <= sold /\ (sold < Word => full = sold)
  BY <1>1, <1>5, ProductWrapped
<1>7. PICK s : s = RemainingVoucherSeconds(started, left, full)
  OBVIOUS
<1>8. /\ reply'.kind = "time" /\ reply'.started = started /\ reply'.left = left
      /\ reply'.stored = GreaterOf(s, 1)
      /\ reply'.sent = (IF s <= 0 THEN 0 ELSE s % Word)
      /\ planRow' = planRow
  BY <1>4, <1>7 DEF GrantTime
<1>9. /\ s \in Int /\ (s <= full \/ s = 0)
      /\ ~started => s = full
      /\ started /\ left <= 0 => s = 0
      /\ started /\ left > 0 /\ full >= 1 =>
           s >= 1 /\ s <= full /\ (s - 1) * Tick < left /\ (s * Tick >= left \/ s = full)
  <2>1. CASE ~started
    BY <1>6, <1>7, <2>1 DEF RemainingVoucherSeconds
  <2>2. CASE started /\ left <= 0
    BY <1>1, <1>7, <2>2 DEF RemainingVoucherSeconds
  <2>3. CASE started /\ left > 0
    <3>1. s = LesserOf(GreaterOf((left + Tick - 1) \div Tick, 1), full)
      BY <1>1, <1>7, <2>3 DEF RemainingVoucherSeconds
    <3>2. /\ s \in Int /\ s <= full
          /\ full >= 1 => s >= 1 /\ (s - 1) * Tick < left /\ (s * Tick >= left \/ s = full)
      BY <1>1, <1>6, <2>3, <3>1, TimeLeft
    <3>3. ~(~started) /\ ~(left <= 0)
      BY <1>1, <2>3
    <3> HIDE DEF shown
    <3> QED BY ONLY <3>2, <3>3, <2>3
  <2> QED BY <1>1, <2>1, <2>2, <2>3
<1>10. ASSUME s \in Nat PROVE s % Word \in Nat /\ s % Word <= s /\ (s < Word => s % Word = s)
  <2>1. s % Word \in 0 .. (Word - 1)
    BY <1>1, <1>10, DivMod
  <2>2. s % Word <= s
    BY <1>1, <1>10, ModLess
  <2>3. s < Word => s % Word = s
    BY <1>1, <1>10, ModSmall
  <2> QED BY <1>1, <2>1, <2>2, <2>3
<1>11. reply'.sent <= sold
  BY <1>5, <1>6, <1>8, <1>9, <1>10
<1>12. SUFFICES ASSUME sold < Word
       PROVE  /\ reply'.stored = GreaterOf(reply'.sent, 1)
              /\ ~reply'.started => reply'.sent = sold
              /\ reply'.started /\ reply'.left <= 0 => reply'.sent = 0
              /\ reply'.started /\ reply'.left > 0 =>
                   /\ (reply'.sent - 1) * Tick < reply'.left
                   /\ reply'.sent * Tick >= reply'.left \/ reply'.sent = sold
  BY <1>2, <1>8, <1>11 DEF TimeGranted
<1>13. full = sold /\ s \in Nat /\ s < Word
  BY <1>1, <1>5, <1>6, <1>9, <1>12
<1>14. reply'.sent = s
  BY <1>8, <1>10, <1>13
<1> QED BY <1>5, <1>8, <1>9, <1>13, <1>14

LEMMA GrantDataExact ==
  ASSUME NEW bytes \in Sizes, GrantData(bytes)
  PROVE  LimitsExact'
<1> DEFINE h == bytes \div Word
           l == bytes % Word
<1>1. bytes \in Int /\ bytes < Word * Word /\ Word \in Nat \ {0}
  BY TermsAssumption
<1>2. reply' = [kind |-> "data", bytes |-> bytes, words |-> TotalLimit(bytes)]
  BY DEF GrantData
<1>3. CASE bytes <= 0
  BY <1>1, <1>2, <1>3 DEF TotalLimit, LimitsExact, GreaterOf
<1>4. CASE bytes > 0
  <2>1. bytes = h * Word + l /\ l \in 0 .. (Word - 1) /\ h \in Nat
    <3>1. bytes \in Nat
      BY <1>1, <1>4
    <3>2. bytes = h * Word + l /\ l \in 0 .. (Word - 1)
      BY <1>1, DivMod
    <3>3. h \in Nat
      BY <1>1, <3>1, ModLess
    <3> QED BY <3>2, <3>3
  <2>2. TotalLimit(bytes) = IF h > 0 THEN <<l, h>> ELSE <<l>>
    BY <1>1, <1>4 DEF TotalLimit
  <2> HIDE DEF h, l
  <2>3. h \in 0 .. (Word - 1)
    <3>1. CASE h >= Word
      <4>1. h * Word >= Word * Word
        BY <1>1, <2>1, <3>1
      <4> QED BY <1>1, <2>1, <4>1
    <3> QED BY <1>1, <2>1, <3>1
  <2>4. /\ \A i \in DOMAIN reply'.words : reply'.words[i] \in 0 .. (Word - 1)
        /\ bytes = (IF reply'.words # <<>> THEN reply'.words[1] ELSE 0)
                  + (IF Len(reply'.words) = 2 THEN reply'.words[2] * Word ELSE 0)
    <3>1. CASE h > 0
      <4>1. reply'.words = <<l, h>>
        BY <1>2, <2>2, <3>1
      <4> QED BY <1>1, <2>1, <2>3, <4>1
    <3>2. CASE h = 0
      <4>1. reply'.words = <<l>> /\ h * Word = 0
        BY <1>1, <1>2, <2>2, <3>2
      <4> QED BY <1>1, <2>1, <4>1
    <3> QED BY <2>1, <3>1, <3>2
  <2>5. reply'.kind = "data" /\ GreaterOf(reply'.bytes, 0) = bytes
    BY <1>1, <1>2, <1>4 DEF GreaterOf
  <2> QED BY <2>4, <2>5 DEF LimitsExact
<1> QED BY <1>1, <1>3, <1>4

LEMMA AnswersExact ==
  ASSUME RadiusStep
  PROVE  LimitsExact'
<1>1. ASSUME NEW up \in Speeds, NEW down \in Speeds, GrantSpeed(up, down)
      PROVE  LimitsExact'
  <2>1. reply'.kind = "speed" /\ reply'.rate = MikrotikRateLimit(up, down)
    BY <1>1 DEF GrantSpeed
  <2>2. reply'.rate = <<>> \/ (reply'.rate[1] # "" /\ reply'.rate[2] # "")
    <3>1. PICK u : u = IF up = "" THEN down ELSE up
      OBVIOUS
    <3>2. PICK d : d = IF down = "" THEN up ELSE down
      OBVIOUS
    <3>3. CASE up = "" /\ down = ""
      BY <2>1, <3>3, Zenon DEF MikrotikRateLimit
    <3>4. CASE ~(up = "" /\ down = "")
      <4>1. reply'.rate = <<u, d>>
        BY <2>1, <3>1, <3>2, <3>4, Zenon DEF MikrotikRateLimit
      <4>2. u # "" /\ d # ""
        BY <3>1, <3>2, <3>4, Zenon
      <4>3. reply'.rate[1] = u /\ reply'.rate[2] = d
        BY <4>1
      <4> QED BY <4>2, <4>3, Zenon
    <3> QED BY <3>3, <3>4
  <2> QED BY <2>1, <2>2, Zenon DEF LimitsExact
<1>2. ASSUME NEW n \in Lengths, SendAttribute(n) PROVE LimitsExact'
  <2>1. n \in Nat
    BY TermsAssumption
  <2> QED BY <1>2, <2>1 DEF SendAttribute, StringAttribute, VendorAttribute, LesserOf, LimitsExact
<1>3. ASSUME reply'.kind \in {"time", "packet", "refused"} PROVE LimitsExact'
  BY <1>3 DEF LimitsExact
<1>4. ASSUME NEW started \in BOOLEAN, NEW left \in Times, GrantTime(started, left)
      PROVE  LimitsExact'
  BY <1>3, <1>4 DEF GrantTime
<1>5. ASSUME NEW data \in Packets, NEW claimed \in -1 .. (Len(data) + 1), ReceivePacket(claimed, data)
      PROVE  LimitsExact'
  BY <1>3, <1>5 DEF ReceivePacket
<1> QED BY <1>1, <1>2, <1>4, <1>5, GrantDataExact DEF RadiusStep

-----------------------------------------------------------------------------
(* Packets: whatever chain of whole attributes there is, the loop is on it.*)

PacketState == [kind : {"packet", "refused"}, claimed : Int, data : Seq(Nat), offset : Nat,
                attributes : SUBSET Nat]

End(o) == o + reply.data[o + 2]

OnEveryChain ==
  \A S \in SUBSET (0 .. reply.claimed) : Chain(S, reply.claimed, reply.data) => reply.offset \in S

SplitSoFar ==
  /\ \A o \in reply.attributes :
       o + 2 <= reply.offset /\ reply.data[o + 2] >= 2 /\ End(o) <= reply.offset
  /\ \A b \in 1 .. reply.offset : \E o \in reply.attributes : b \in (o + 1) .. End(o)
  /\ \A o, u \in reply.attributes : o < u => End(o) <= u

PacketInv ==
  reply.kind \in {"packet", "refused"} =>
    /\ reply \in PacketState
    /\ reply.kind = "refused" => ~WellFormed(reply.claimed, reply.data)
    /\ reply.kind = "packet" =>
         /\ reply.claimed \in 0 .. Len(reply.data) /\ reply.offset \in 0 .. reply.claimed
         /\ OnEveryChain /\ SplitSoFar

LEMMA ReceivePacketKeeps ==
  ASSUME NEW data \in Packets, NEW claimed \in -1 .. (Len(data) + 1), ReceivePacket(claimed, data)
  PROVE  PacketInv'
<1>1. data \in Seq(Nat) /\ Len(data) \in Nat /\ claimed \in Int
  BY TermsAssumption
<1>2. reply' = [kind |-> IF claimed \in 0 .. Len(data) THEN "packet" ELSE "refused",
                claimed |-> claimed, data |-> data, offset |-> 0, attributes |-> {}]
  BY DEF ReceivePacket
<1>3. reply' \in PacketState
  BY <1>1, <1>2 DEF PacketState
<1>4. claimed \notin 0 .. Len(data) => ~WellFormed(claimed, data)
  BY <1>1 DEF WellFormed, Chain
<1>5. OnEveryChain' /\ SplitSoFar'
  BY <1>2 DEF OnEveryChain, SplitSoFar, Chain
<1> QED BY <1>1, <1>2, <1>3, <1>4, <1>5 DEF PacketInv

LEMMA ReadAttributeKeeps ==
  ASSUME PacketInv, ReadAttribute
  PROVE  PacketInv'
<1> DEFINE o == reply.offset
           n == reply.data[o + 2]
<1>1. /\ reply \in PacketState /\ reply.kind = "packet" /\ o < reply.claimed
      /\ reply.claimed \in 0 .. Len(reply.data) /\ o \in 0 .. reply.claimed
      /\ OnEveryChain /\ SplitSoFar
  BY DEF PacketInv, ReadAttribute
<1>2. /\ reply.data \in Seq(Nat) /\ Len(reply.data) \in Nat /\ reply.attributes \subseteq Nat
      /\ reply.claimed \in Int /\ o \in Nat
  BY <1>1 DEF PacketState
<1>3. ASSUME o + 2 <= reply.claimed PROVE n \in Nat
  <2>1. reply.claimed <= Len(reply.data)
    BY <1>1
  <2>2. o + 2 \in 1 .. Len(reply.data)
    BY <1>2, <1>3, <2>1
  <2> QED BY <1>2, <2>2
<1>4. CASE Truncated(reply)
  <2>1. reply' = [reply EXCEPT !.kind = "refused"]
    BY <1>4 DEF ReadAttribute
  <2>2. reply' \in PacketState /\ reply'.kind = "refused"
        /\ reply'.claimed = reply.claimed /\ reply'.data = reply.data
    BY <1>1, <2>1 DEF PacketState
  <2>3. ASSUME NEW S \in SUBSET (0 .. reply.claimed), Chain(S, reply.claimed, reply.data) PROVE FALSE
    <3>1. o \in S
      BY <1>1, <2>3 DEF OnEveryChain
    <3>2. o + 2 <= reply.claimed /\ n >= 2 /\ o + n \in S
      BY <1>1, <2>3, <3>1 DEF Chain
    <3>3. o + n <= reply.claimed
      BY <1>2, <1>3, <3>2
    <3> QED BY <1>2, <1>3, <1>4, <3>2, <3>3 DEF Truncated, AttrLen
  <2>4. ~WellFormed(reply.claimed, reply.data)
    BY <2>3 DEF WellFormed
  <2> QED BY <2>2, <2>4 DEF PacketInv
<1>5. CASE ~Truncated(reply)
  <2>1. o + 2 <= reply.claimed /\ n >= 2 /\ o + n <= reply.claimed
    BY <1>2, <1>3, <1>5 DEF Truncated, AttrLen
  <2>2. reply' = [reply EXCEPT !.offset = @ + n, !.attributes = @ \union {o}]
    BY <1>5 DEF ReadAttribute, AttrLen
  <2>3. /\ reply' \in PacketState /\ reply'.kind = "packet"
        /\ reply'.claimed = reply.claimed /\ reply'.data = reply.data
        /\ reply'.offset = o + n /\ reply'.attributes = reply.attributes \union {o}
    <3>1. PICK r : r = [reply EXCEPT !.offset = @ + n, !.attributes = @ \union {o}]
      OBVIOUS
    <3>2. o + n \in Nat /\ reply.attributes \union {o} \subseteq Nat
      BY <1>2, <1>3, <2>1
    <3>3. /\ r \in PacketState /\ r.kind = "packet" /\ r.claimed = reply.claimed /\ r.data = reply.data
          /\ r.offset = o + n /\ r.attributes = reply.attributes \union {o}
      BY <1>1, <3>1, <3>2 DEF PacketState
    <3> QED BY <2>2, <3>1, <3>3
  <2>4. OnEveryChain'
    <3> SUFFICES ASSUME NEW S \in SUBSET (0 .. reply.claimed), Chain(S, reply.claimed, reply.data)
                 PROVE  o + n \in S
      BY <2>3 DEF OnEveryChain
    <3>1. o \in S
      BY <1>1 DEF OnEveryChain
    <3> QED BY <1>1, <1>2, <3>1 DEF Chain
  <2>5. \A u \in Nat : End(u)' = End(u)
    BY <2>3 DEF End
  <2>6. End(o) = o + n
    BY DEF End
  <2>7. ASSUME NEW u \in reply.attributes
        PROVE  /\ u + 2 <= o /\ reply.data[u + 2] \in Nat /\ reply.data[u + 2] >= 2
               /\ End(u) \in Nat /\ End(u) <= o
    <3>1. u \in Nat /\ u + 2 <= o /\ reply.data[u + 2] >= 2 /\ End(u) <= o
      BY <1>1, <1>2, <2>7 DEF SplitSoFar
    <3>2. reply.data[u + 2] \in Nat
      BY <1>1, <1>2, <3>1
    <3> QED BY <3>1, <3>2 DEF End
  <2>8. \A u \in reply'.attributes :
          u + 2 <= reply'.offset /\ reply'.data[u + 2] >= 2 /\ End(u)' <= reply'.offset
    <3> SUFFICES ASSUME NEW u \in reply.attributes \union {o}
                 PROVE  u + 2 <= o + n /\ reply.data[u + 2] >= 2 /\ End(u) <= o + n
      BY <1>2, <2>3, <2>5
    <3>1. CASE u = o
      BY <1>2, <1>3, <2>1, <2>6, <3>1
    <3>2. CASE u \in reply.attributes
      <4>1. u + 2 <= o /\ reply.data[u + 2] >= 2 /\ End(u) <= o /\ End(u) \in Nat /\ u \in Nat
        BY <1>2, <2>7, <3>2
      <4> QED BY <1>2, <1>3, <2>1, <4>1
    <3> QED BY <3>1, <3>2
  <2>9. \A b \in 1 .. reply'.offset : \E u \in reply'.attributes : b \in (u + 1) .. End(u)'
    <3> SUFFICES ASSUME NEW b \in 1 .. (o + n)
                 PROVE  \E u \in reply.attributes \union {o} : b \in (u + 1) .. End(u)
      <4>1. \A u \in reply.attributes \union {o} : End(u)' = End(u)
        BY <1>2, <2>5
      <4> HIDE DEF End
      <4> QED BY <2>3, <4>1
    <3>1. CASE b <= o
      BY <1>1, <1>2, <1>3, <2>1, <3>1 DEF SplitSoFar
    <3>2. CASE b > o
      BY <1>2, <1>3, <2>1, <2>6, <3>2
    <3> QED BY <1>2, <1>3, <2>1, <3>1, <3>2
  <2>10. \A u, v \in reply'.attributes : u < v => End(u)' <= v
    <3> SUFFICES ASSUME NEW u \in reply.attributes \union {o}, NEW v \in reply.attributes \union {o}, u < v
                 PROVE  End(u) <= v
      BY <1>2, <2>3, <2>5
    <3>1. CASE u \in reply.attributes /\ v \in reply.attributes
      BY <1>1, <3>1 DEF SplitSoFar
    <3>2. CASE v = o
      BY <2>7, <1>2, <3>2
    <3>3. CASE u = o /\ v \in reply.attributes
      <4>1. v < o
        BY <1>2, <2>7, <3>3
      <4> QED BY <1>2, <3>3, <4>1
    <3> QED BY <3>1, <3>2, <3>3
  <2>11. SplitSoFar'
    BY <2>8, <2>9, <2>10 DEF SplitSoFar
  <2> QED BY <1>1, <1>2, <1>3, <2>1, <2>3, <2>4, <2>11 DEF PacketInv
<1> QED BY <1>4, <1>5

LEMMA PacketsAreSplit == PacketInv => PacketsSplit
<1> SUFFICES ASSUME PacketInv, reply.kind = "packet"
             PROVE  LET Bytes(o) == (o + 1) .. (o + reply.data[o + 2])
                    IN  /\ \A o \in reply.attributes : {o + 1, o + 2} \subseteq Bytes(o)
                        /\ UNION {Bytes(o) : o \in reply.attributes} = 1 .. reply.offset
                        /\ \A o, u \in reply.attributes : o # u => Bytes(o) \intersect Bytes(u) = {}
  BY DEF PacketInv, PacketsSplit
<1> DEFINE Bytes(o) == (o + 1) .. (o + reply.data[o + 2])
<1>1. /\ reply \in PacketState /\ reply.claimed \in 0 .. Len(reply.data)
      /\ reply.offset \in 0 .. reply.claimed /\ SplitSoFar
  BY DEF PacketInv
<1>2. reply.attributes \subseteq Nat /\ reply.data \in Seq(Nat) /\ reply.offset \in Nat
  BY <1>1 DEF PacketState
<1>4. ASSUME NEW o \in reply.attributes
      PROVE  o \in Nat /\ End(o) \in Int /\ o + 2 <= End(o) /\ End(o) <= reply.offset
  <2>1. o \in Nat /\ o + 2 <= reply.offset /\ reply.data[o + 2] >= 2 /\ End(o) <= reply.offset
    BY <1>1, <1>2, <1>4 DEF SplitSoFar
  <2>2. reply.data[o + 2] \in Nat
    BY <1>1, <1>2, <2>1
  <2> QED BY <2>1, <2>2 DEF End
<1>5. \A o : Bytes(o) = (o + 1) .. End(o)
  BY DEF End
<1>6. \A o \in reply.attributes : {o + 1, o + 2} \subseteq Bytes(o)
  <2> SUFFICES ASSUME NEW o \in reply.attributes PROVE {o + 1, o + 2} \subseteq (o + 1) .. End(o)
    BY <1>5
  <2> QED BY <1>4
<1>7. UNION {Bytes(o) : o \in reply.attributes} = 1 .. reply.offset
  <2>1. ASSUME NEW o \in reply.attributes PROVE Bytes(o) \subseteq 1 .. reply.offset
    <3>1. Bytes(o) = (o + 1) .. End(o)
      BY <1>5
    <3>2. o \in Nat /\ End(o) \in Int /\ End(o) <= reply.offset
      BY <1>4, <2>1
    <3>3. ASSUME NEW b \in (o + 1) .. End(o) PROVE b \in 1 .. reply.offset
      BY <1>2, <3>2, <3>3
    <3> HIDE DEF Bytes
    <3> QED BY <3>1, <3>3
  <2>2. ASSUME NEW b \in 1 .. reply.offset PROVE \E o \in reply.attributes : b \in Bytes(o)
    BY <1>1, <1>5, <2>2 DEF SplitSoFar
  <2> HIDE DEF Bytes
  <2> QED BY <2>1, <2>2
<1>8. ASSUME NEW o \in reply.attributes, NEW u \in reply.attributes, o # u
      PROVE  Bytes(o) \intersect Bytes(u) = {}
  <2>1. /\ o \in Nat /\ End(o) \in Int /\ u \in Nat /\ End(u) \in Int
        /\ End(o) <= u \/ End(u) <= o
    BY <1>1, <1>4, <1>8 DEF SplitSoFar
  <2>2. ((o + 1) .. End(o)) \intersect ((u + 1) .. End(u)) = {}
    BY <2>1
  <2> QED BY <1>5, <2>2
<1> QED BY <1>6, <1>7, <1>8

-----------------------------------------------------------------------------
AnswerInv == TermsInv /\ TimeGranted /\ LimitsExact /\ PacketInv

LEMMA AnswerInitially == TermsInit => AnswerInv
<1> SUFFICES ASSUME TermsInit PROVE AnswerInv
  OBVIOUS
<1>1. reply.kind = "none"
  BY DEF TermsInit, NoReply
<1> QED BY <1>1, TermsInitially DEF AnswerInv, TimeGranted, LimitsExact, PacketInv

LEMMA AnswerPreserved == AnswerInv /\ [TermsNext]_termVars => AnswerInv'
<1> SUFFICES ASSUME AnswerInv, [TermsNext]_termVars PROVE AnswerInv'
  OBVIOUS
<1>1. TermsInv'
  BY TermsPreserved DEF AnswerInv
<1>2. ASSUME reply'.kind \in {"none", "data", "speed", "attribute", "packet", "refused"} PROVE TimeGranted'
  BY <1>2 DEF TimeGranted
<1>3. ASSUME reply'.kind \in {"none", "time", "packet", "refused"} PROVE LimitsExact'
  BY <1>3 DEF LimitsExact
<1>4. ASSUME reply'.kind \in {"none", "time", "data", "speed", "attribute"} PROVE PacketInv'
  BY <1>4 DEF PacketInv
<1>5. CASE PlanStep /\ reply = NoReply
  <2>1. reply'.kind = "none"
    BY <1>5 DEF PlanStep, LegacyPlan, CreatePlan, PatchPlan, NoReply
  <2> QED BY <1>1, <1>2, <1>3, <1>4, <2>1 DEF AnswerInv
<1>6. CASE RadiusStep
  <2>1. LimitsExact'
    BY <1>6, AnswersExact
  <2>2. ASSUME NEW started \in BOOLEAN, NEW left \in Times, GrantTime(started, left)
        PROVE  TimeGranted' /\ PacketInv'
    BY <1>4, <2>2, GrantTimeExact DEF AnswerInv, GrantTime
  <2>3. ASSUME NEW data \in Packets, NEW claimed \in -1 .. (Len(data) + 1), ReceivePacket(claimed, data)
        PROVE  TimeGranted' /\ PacketInv'
    BY <1>2, <2>3, ReceivePacketKeeps DEF ReceivePacket
  <2>4. ASSUME reply'.kind \in {"data", "speed", "attribute"} PROVE TimeGranted' /\ PacketInv'
    BY <1>2, <1>4, <2>4
  <2>5. TimeGranted' /\ PacketInv'
    BY <1>6, <2>2, <2>3, <2>4 DEF RadiusStep, GrantData, GrantSpeed, SendAttribute
  <2> QED BY <1>1, <2>1, <2>5 DEF AnswerInv
<1>7. CASE ReadAttribute
  <2>1. PacketInv'
    BY <1>7, ReadAttributeKeeps DEF AnswerInv
  <2>2. reply'.kind \in {"packet", "refused"}
    BY <1>7 DEF ReadAttribute, AnswerInv, PacketInv, PacketState
  <2> QED BY <1>1, <1>2, <1>3, <2>1, <2>2 DEF AnswerInv
<1>8. CASE UNCHANGED termVars
  BY <1>1, <1>8 DEF termVars, AnswerInv, TimeGranted, LimitsExact, PacketInv, OnEveryChain,
                    SplitSoFar, End
<1> QED BY <1>5, <1>6, <1>7, <1>8 DEF TermsNext

LEMMA AnswerInvariance == TermsSpec => []AnswerInv
BY AnswerInitially, AnswerPreserved, PTL DEF TermsSpec

\* Vouchers are granted the duration their plan is shown with, then the time left to the second, and
\* never more than was sold; data limits, rates and attribute lengths fit and agree; parseRadiusPacket
\* refuses exactly the packets that are not whole attributes and splits the others without gap or overlap.
THEOREM Answers == TermsSpec => []RadiusAnswersExact
<1>1. AnswerInv => RadiusAnswersExact
  BY PacketsAreSplit DEF AnswerInv, RadiusAnswersExact
<1> QED BY <1>1, AnswerInvariance, PTL
=============================================================================
