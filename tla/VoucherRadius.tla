---------------------------- MODULE VoucherRadius ----------------------------
(***************************************************************************)
(* Vouchers and what FreeRADIUS knows of them: generation and physical     *)
(* sale (src/internal/vouchers, src/internal/finance), synchronisation of  *)
(* radcheck, binding to a device, automatic reconnection and the answers   *)
(* to logins (src/internal/radius), deletion, and the plan the vouchers    *)
(* are sold under (src/internal/plans).                                    *)
(*                                                                         *)
(* The vouchers belong to one merchant and one plan, and codes are their   *)
(* ids.  Times are "not set", "running" or "past"; data use is below or    *)
(* above the plan's limit.  req[r] is a request in flight at the grain of  *)
(* its statements and transactions.  Any device may log in with any code,  *)
(* whether or not it asked the portal first.                               *)
(***************************************************************************)
EXTENDS FiniteSets

CONSTANTS Requests,   \* requests that can be in flight together
          Vouchers,   \* voucher codes
          Devices,    \* MAC addresses
          NoDevice, NoVoucher

ASSUME ConstantsAssumption ==
  /\ NoDevice \notin Devices
  /\ NoVoucher \notin Vouchers

VARIABLES vouchers,   \* vouchers rows
          radcheck,   \* code |-> the row sets written to radcheck, each by one transaction
          plan,       \* the plans row
          sales,      \* vouchers with a physical sales row
          spent,      \* vouchers whose radacct rows add up to more than any limit
          served,     \* history: devices that got an Access-Accept
          owner,      \* history: the device each voucher was last bound to by a purchase or a binding
          overtaken,  \* history: vouchers whose radcheck rows stem from an outdated copy
          req         \* requests in flight

vars == <<vouchers, radcheck, plan, sales, spent, served, owner, overtaken, req>>

NoRow == [status |-> "none", channel |-> "physical", mac |-> NoDevice, expiry |-> "unset",
          deleted |-> FALSE]

Unused(c, d) == [NoRow EXCEPT !.status = "unused", !.channel = c, !.mac = d]

Idle == [pc |-> "idle", voucher |-> NoVoucher, device |-> NoDevice, copy |-> NoRow,
         capped |-> FALSE, old |-> {}, todo |-> {}, then |-> "idle"]

At(r, p) == req[r].pc = p

\* What a query finds: gorm leaves soft-deleted rows out.
Live(v) == vouchers[v].status # "none" /\ ~vouchers[v].deleted

PlanUsable == plan.active /\ ~plan.deleted

\* "used" is read as "active".
Running == {"active", "used"}

AllowsLogin(row) == row.status \in {"unused"} \union Running

\* remainingVoucherDataBytes for a plan read with or without a limit.
LimitReached(capped, v) == capped /\ v \in spent

\* The row lock of SELECT ... FOR UPDATE in bindVoucherToDevice.
Locked(v) == \E r \in Requests : At(r, "bindCommit") /\ req[r].voucher = v

Init == /\ vouchers = [v \in Vouchers |-> NoRow]
        /\ radcheck = [v \in Vouchers |-> {}]
        /\ plan = [active |-> TRUE, capped |-> TRUE, deleted |-> FALSE]
        /\ sales = {}
        /\ spent = {}
        /\ served = [v \in Vouchers |-> {}]
        /\ owner = [v \in Vouchers |-> NoDevice]
        /\ overtaken = {}
        /\ req = [r \in Requests |-> Idle]

-----------------------------------------------------------------------------
(* Generation, online issue, physical sale and deletion.                   *)

\* generate: every code is looked up before the batch is inserted.  CodeExists does not see
\* soft-deleted rows.
GenerateCodes(r, S) ==
  /\ At(r, "idle")
  /\ \A v \in S : ~Live(v)
  /\ ~plan.deleted
  /\ req' = [req EXCEPT ![r].pc = "createMany", ![r].todo = S]
  /\ UNCHANGED <<vouchers, radcheck, plan, sales, spent, served, owner, overtaken>>

\* CreateMany is one INSERT; the unique index on the code sees deleted rows and refuses it whole.
CreateMany(r) ==
  LET S == req[r].todo
  IN  /\ At(r, "createMany")
      /\ IF \A v \in S : vouchers[v].status = "none"
         THEN /\ vouchers' = [v \in Vouchers |-> IF v \in S THEN Unused("physical", NoDevice) ELSE vouchers[v]]
              /\ req' = [req EXCEPT ![r].pc = "next"]
         ELSE /\ req' = [req EXCEPT ![r] = Idle]
              /\ UNCHANGED vouchers
      /\ UNCHANGED <<radcheck, plan, sales, spent, served, owner, overtaken>>

\* ensureOnlineVoucher inside a settlement: bound from birth to the device that paid.
IssueOnline(r, v, d) ==
  /\ At(r, "idle")
  /\ vouchers[v].status = "none"
  /\ vouchers' = [vouchers EXCEPT ![v] = Unused("online", d)]
  /\ owner' = [owner EXCEPT ![v] = d]
  /\ req' = [req EXCEPT ![r].pc = "next", ![r].todo = {v}]
  /\ UNCHANGED <<radcheck, plan, sales, spent, served, overtaken>>

\* RecordPhysicalSale, one transaction under the voucher's row lock.
RecordPhysicalSale(v) ==
  /\ Live(v) /\ ~Locked(v)
  /\ vouchers[v].channel = "physical"
  /\ v \notin sales
  /\ sales' = sales \union {v}
  /\ vouchers' = [vouchers EXCEPT ![v].status = "sold"]
  /\ UNCHANGED <<radcheck, plan, spent, served, owner, overtaken, req>>

\* Delete sets deleted_at and nothing else.
DeleteVoucher(v) ==
  /\ Live(v) /\ ~Locked(v)
  /\ vouchers' = [vouchers EXCEPT ![v].deleted = TRUE]
  /\ UNCHANGED <<radcheck, plan, sales, spent, served, owner, overtaken, req>>

-----------------------------------------------------------------------------
(* SyncVoucher: the voucher and its plan are read before the transaction   *)
(* that writes them and the RADIUS rows.                                   *)

\* How the callers go on: an error ends the whole list, and an automatic reconnection ends with the
\* first code that is active, which the device may then log in with.
Resumed(q, result) ==
  IF result = "error" \/ (result = "active" /\ q.device # NoDevice)
  THEN Idle ELSE [Idle EXCEPT !.pc = "next", !.device = q.device, !.todo = q.todo]

\* Whoever joined the flight of an automatic reconnection gets the result of its owner.
Finish(r, result) ==
  req' = [q \in Requests |->
            IF q = r \/ (At(q, "wait") /\ req[r].device # NoDevice /\ req[q].voucher = req[r].voucher)
            THEN Resumed(req[q], result) ELSE req[q]]

\* SyncVoucher by the superadmin, or SyncAllVouchers when the server starts.
StartSync(r, S) ==
  /\ At(r, "idle")
  /\ S \in {{v} : v \in Vouchers} \union {{v \in Vouchers : Live(v)}}
  /\ req' = [req EXCEPT ![r].pc = "next", ![r].todo = S]
  /\ UNCHANGED <<vouchers, radcheck, plan, sales, spent, served, owner, overtaken>>

\* validVoucherForDevice: the codes this device could reconnect with.
AutoConnect(r, d) ==
  LET reusable == {v \in Vouchers : /\ Live(v)
                                    /\ vouchers[v].mac = d
                                    /\ vouchers[v].status \in Running
                                    /\ vouchers[v].expiry = "running"}
  IN  /\ At(r, "idle")
      /\ reusable # {}
      /\ req' = [req EXCEPT ![r].pc = "next", ![r].device = d, ![r].todo = reusable]
      /\ UNCHANGED <<vouchers, radcheck, plan, sales, spent, served, owner, overtaken>>

AllSynced(r) ==
  /\ At(r, "next")
  /\ req[r].todo = {}
  /\ req' = [req EXCEPT ![r] = Idle]
  /\ UNCHANGED <<vouchers, radcheck, plan, sales, spent, served, owner, overtaken>>

\* The reads of SyncVoucher; a missing row or an inactive plan is an error for the whole list.
SyncRead(r) ==
  /\ At(r, "next")
  /\ \E v \in req[r].todo :
       req' = [req EXCEPT ![r] =
                 IF Live(v) /\ PlanUsable
                 THEN [req[r] EXCEPT !.pc = "sync", !.voucher = v, !.copy = vouchers[v],
                                     !.capped = plan.capped, !.todo = @ \ {v}]
                 ELSE Idle]
  /\ UNCHANGED <<vouchers, radcheck, plan, sales, spent, served, owner, overtaken>>

\* syncReusableVoucher finds the flight of another automatic reconnection in this instance.
JoinFlight(r) ==
  /\ At(r, "next")
  /\ req[r].device # NoDevice
  /\ \E v \in req[r].todo :
       /\ \E q \in Requests : /\ req[q].pc \in {"sync", "insert"}
                              /\ req[q].device # NoDevice
                              /\ req[q].voucher = v
       /\ req' = [req EXCEPT ![r].pc = "wait", ![r].voucher = v, ![r].todo = @ \ {v}]
  /\ UNCHANGED <<vouchers, radcheck, plan, sales, spent, served, owner, overtaken>>

FlightTimesOut(r) ==
  /\ At(r, "wait")
  /\ req' = [req EXCEPT ![r] = Idle]
  /\ UNCHANGED <<vouchers, radcheck, plan, sales, spent, served, owner, overtaken>>

\* gorm's Save writes every column of the copy, and inserts over a row that is soft-deleted.
SaveCopy(r, status) ==
  /\ ~Locked(req[r].voucher)
  /\ vouchers' = [vouchers EXCEPT ![req[r].voucher] = [req[r].copy EXCEPT !.status = status]]

\* Mutant: the status is saved and the RADIUS rows are forgotten.
RevokeNothing(v) ==
  /\ overtaken' = overtaken \ {v}
  /\ UNCHANGED radcheck

\* revokeVoucherRadius committed with nothing written after it.
Revoke(v) ==
  /\ radcheck' = [radcheck EXCEPT ![v] = {}]
  /\ overtaken' = overtaken \ {v}

SyncExpired(r) ==
  /\ At(r, "sync")
  /\ req[r].copy.expiry = "past"
  /\ IF AllowsLogin(req[r].copy) THEN SaveCopy(r, "expired") ELSE UNCHANGED vouchers
  /\ Revoke(req[r].voucher)
  /\ Finish(r, "inactive")
  /\ UNCHANGED <<plan, sales, spent, served, owner>>

SyncExhausted(r) ==
  /\ At(r, "sync")
  /\ req[r].copy.expiry # "past"
  /\ LimitReached(req[r].capped, req[r].voucher)
  /\ SaveCopy(r, "exhausted")
  /\ Revoke(req[r].voucher)
  /\ Finish(r, "inactive")
  /\ UNCHANGED <<plan, sales, spent, served, owner>>

SyncRefused(r) ==
  /\ At(r, "sync")
  /\ req[r].copy.expiry # "past"
  /\ ~LimitReached(req[r].capped, req[r].voucher)
  /\ ~AllowsLogin(req[r].copy)
  /\ Revoke(req[r].voucher)
  /\ Finish(r, "inactive")
  /\ UNCHANGED <<vouchers, plan, sales, spent, served, owner>>

\* syncVoucherRadiusRecords begins with a DELETE of the rows it can see ...
SyncDelete(r) ==
  /\ At(r, "sync")
  /\ req[r].copy.expiry # "past"
  /\ ~LimitReached(req[r].capped, req[r].voucher)
  /\ AllowsLogin(req[r].copy)
  /\ req' = [req EXCEPT ![r].pc = "insert", ![r].old = radcheck[req[r].voucher]]
  /\ UNCHANGED <<vouchers, radcheck, plan, sales, spent, served, owner, overtaken>>

\* Mutant: the Calling-Station-Id check item is left out.
WithoutStation(r, mac) ==
  (radcheck[req[r].voucher] \ req[r].old) \union {[by |-> r, mac |-> NoDevice]}

\* ... and inserts its own; rows another transaction inserted meanwhile stay beside them.
Rewritten(r, mac) == (radcheck[req[r].voucher] \ req[r].old) \union {[by |-> r, mac |-> mac]}

\* The copy read before the transaction names another device than the row does now, or the voucher
\* can no longer be used.
Outdated(r) == LET row == vouchers[req[r].voucher]
               IN  req[r].copy.mac # row.mac \/ ~AllowsLogin(row)

SyncInsert(r) ==
  LET v    == req[r].voucher
      rows == Rewritten(r, req[r].copy.mac)
  IN  /\ At(r, "insert")
      /\ IF LimitReached(req[r].capped, v)
         THEN /\ Finish(r, "error")
              /\ UNCHANGED <<radcheck, overtaken>>
         ELSE /\ radcheck' = [radcheck EXCEPT ![v] = rows]
              /\ overtaken' = IF Outdated(r) THEN overtaken \union {v}
                              ELSE IF Cardinality(rows) = 1 THEN overtaken \ {v}
                              ELSE overtaken
              /\ Finish(r, IF req[r].copy.status \in Running THEN "active" ELSE "inactive")
      /\ UNCHANGED <<vouchers, plan, sales, spent, served, owner>>

-----------------------------------------------------------------------------
(* bindVoucherToDevice, from the portal (HotspotAuthenticate) or for an    *)
(* Access-Request of the UDP server: one transaction under the row lock.   *)
(* A status that does not allow login revokes nothing: the revocation and  *)
(* the error are in one transaction, which rolls back.                     *)

CanBind(v) == Live(v) /\ ~Locked(v) /\ PlanUsable /\ AllowsLogin(vouchers[v])

\* Mutant: whoever asks is taken for the bound device.
AnyDevice(v, d) == TRUE

OwnDevice(v, d) == vouchers[v].mac \in {NoDevice, d}

BindBegin(r, v, d, then) ==
  /\ At(r, "idle")
  /\ CanBind(v)
  /\ vouchers[v].expiry # "past"
  /\ ~LimitReached(plan.capped, v)
  /\ OwnDevice(v, d)
  /\ req' = [req EXCEPT ![r] = [Idle EXCEPT !.pc = "bindCommit", !.voucher = v, !.device = d,
                                            !.capped = plan.capped, !.old = radcheck[v], !.then = then]]
  /\ UNCHANGED <<vouchers, radcheck, plan, sales, spent, served, owner, overtaken>>

BindCommit(r) ==
  LET v    == req[r].voucher
      d    == req[r].device
      rows == Rewritten(r, d)
  IN  /\ At(r, "bindCommit")
      /\ IF LimitReached(req[r].capped, v)
         THEN /\ req' = [req EXCEPT ![r] = Idle]
              /\ UNCHANGED <<vouchers, radcheck, owner, overtaken>>
         ELSE /\ vouchers' = [vouchers EXCEPT ![v].status = "active", ![v].mac = d,
                                              ![v].expiry = IF @ = "unset" THEN "running" ELSE @]
              /\ owner' = [owner EXCEPT ![v] = d]
              /\ radcheck' = [radcheck EXCEPT ![v] = rows]
              /\ overtaken' = IF Cardinality(rows) = 1 THEN overtaken \ {v} ELSE overtaken
              /\ req' = [req EXCEPT ![r] = IF req[r].then = "packet"
                                          THEN [Idle EXCEPT !.pc = "packet", !.voucher = v, !.device = d]
                                          ELSE Idle]
      /\ UNCHANGED <<plan, sales, spent, served>>

\* The two rejections that are committed: the status and the revocation stay.
BindOver(v) ==
  /\ CanBind(v)
  /\ \/ /\ vouchers[v].expiry = "past"
        /\ vouchers' = [vouchers EXCEPT ![v].status = "expired"]
     \/ /\ vouchers[v].expiry # "past"
        /\ LimitReached(plan.capped, v)
        /\ vouchers' = [vouchers EXCEPT ![v].status = "exhausted"]
  /\ Revoke(v)
  /\ UNCHANGED <<plan, sales, spent, served, owner, req>>

-----------------------------------------------------------------------------
(* Logins.                                                                 *)

\* FreeRADIUS: all check items of the user must match.
Accepted(v, d) == radcheck[v] # {} /\ \A b \in radcheck[v] : b.mac \in {NoDevice, d}

\* Any device that submits the code to the router's login servlet; FreeRADIUS then records the login.
Login(r, v, d) ==
  /\ At(r, "idle")
  /\ Accepted(v, d)
  /\ served' = [served EXCEPT ![v] = @ \union {d}]
  /\ req' = [req EXCEPT ![r].pc = "postauth", ![r].voucher = v]
  /\ UNCHANGED <<vouchers, radcheck, plan, sales, spent, owner, overtaken>>

\* Mutant: a word the program does not know.
ConsumedWord(row) == [row EXCEPT !.status = "consumed"]

\* Mutant: every row with the code is marked, whatever became of it.
ConsumedAlways(row) == [row EXCEPT !.status = "used"]

\* Where the rows are marked, the update waits for their lock.
Consumed(row) == IF row.status \in {"unused", "active"} THEN [row EXCEPT !.status = "used"] ELSE row

\* noblifi_consume_voucher_on_radius_accept, in the transaction that records an accepted login in
\* radpostauth.  A login that is not recorded, or where the trigger is not installed, ends with
\* Crash; the UDP server records none.
PostAuth(r) ==
  LET v == req[r].voucher
  IN  /\ At(r, "postauth")
      /\ Consumed(vouchers[v]) # vouchers[v] => ~Locked(v)
      /\ vouchers' = [vouchers EXCEPT ![v] = Consumed(@)]
      /\ Revoke(v)
      /\ req' = [req EXCEPT ![r] = Idle]
      /\ UNCHANGED <<plan, sales, spent, served, owner>>

\* handleAccessPacket looks at the plan, the time and the data again after the binding.
AnswerPacket(r) ==
  LET v == req[r].voucher
      accepts == PlanUsable /\ vouchers[v].expiry # "past" /\ ~LimitReached(plan.capped, v)
  IN  /\ At(r, "packet")
      /\ served' = IF accepts THEN [served EXCEPT ![v] = @ \union {req[r].device}] ELSE served
      /\ req' = [req EXCEPT ![r] = Idle]
      /\ UNCHANGED <<vouchers, radcheck, plan, sales, spent, owner, overtaken>>

\* Accounting of FreeRADIUS, and the clock.
UseData(v) ==
  /\ served[v] # {}
  /\ spent' = spent \union {v}
  /\ UNCHANGED <<vouchers, radcheck, plan, sales, served, owner, overtaken, req>>

TimePasses(v) ==
  /\ vouchers[v].expiry = "running"
  /\ vouchers' = [vouchers EXCEPT ![v].expiry = "past"]
  /\ UNCHANGED <<radcheck, plan, sales, spent, served, owner, overtaken, req>>

-----------------------------------------------------------------------------
(* The plan: Patch reads the row, changes some fields and saves all of     *)
(* them; Delete soft-deletes it.  copy stands for the plan's columns.      *)

PatchRead(r, field) ==
  /\ At(r, "idle")
  /\ ~plan.deleted
  /\ req' = [req EXCEPT ![r].pc = "patchSave", ![r].capped = (plan.capped # (field = "limit")),
                        ![r].then = IF plan.active # (field = "active") THEN "active" ELSE "inactive"]
  /\ UNCHANGED <<vouchers, radcheck, plan, sales, spent, served, owner, overtaken>>

PatchSave(r) ==
  /\ At(r, "patchSave")
  /\ plan' = [active |-> req[r].then = "active", capped |-> req[r].capped, deleted |-> FALSE]
  /\ req' = [req EXCEPT ![r] = Idle]
  /\ UNCHANGED <<vouchers, radcheck, sales, spent, served, owner, overtaken>>

DeletePlan ==
  /\ ~plan.deleted
  /\ plan' = [plan EXCEPT !.deleted = TRUE]
  /\ UNCHANGED <<vouchers, radcheck, sales, spent, served, owner, overtaken, req>>

\* The instance dies: its open transaction rolls back, and whoever waited for its flight dies too.
Crash(r) ==
  /\ ~At(r, "idle")
  /\ req' = [q \in Requests |->
               IF q = r \/ (At(q, "wait") /\ req[q].voucher = req[r].voucher) THEN Idle ELSE req[q]]
  /\ UNCHANGED <<vouchers, radcheck, plan, sales, spent, served, owner, overtaken>>

-----------------------------------------------------------------------------
RequestStep(r) ==
  \/ CreateMany(r) \/ AllSynced(r) \/ SyncRead(r) \/ JoinFlight(r) \/ FlightTimesOut(r)
  \/ SyncExpired(r) \/ SyncExhausted(r) \/ SyncRefused(r) \/ SyncDelete(r) \/ SyncInsert(r)
  \/ BindCommit(r) \/ PostAuth(r) \/ AnswerPacket(r) \/ PatchSave(r)

Arrival(r) ==
  \/ \E S \in SUBSET Vouchers \ {{}} : GenerateCodes(r, S)
  \/ \E v \in Vouchers, d \in Devices : IssueOnline(r, v, d)
  \/ \E S \in SUBSET Vouchers : StartSync(r, S)
  \/ \E d \in Devices : AutoConnect(r, d)
  \/ \E v \in Vouchers, d \in Devices, then \in {"idle", "packet"} : BindBegin(r, v, d, then)
  \/ \E v \in Vouchers, d \in Devices : Login(r, v, d)
  \/ \E field \in {"active", "limit"} : PatchRead(r, field)

Next ==
  \/ \E r \in Requests : RequestStep(r) \/ Arrival(r) \/ Crash(r)
  \/ \E v \in Vouchers : DeleteVoucher(v) \/ BindOver(v) \/ UseData(v) \/ TimePasses(v)
                         \/ RecordPhysicalSale(v)
  \/ DeletePlan

Spec == Init /\ [][Next]_vars

-----------------------------------------------------------------------------
(* Properties.                                                             *)

Status == {"none", "unused", "active", "used", "sold", "expired", "exhausted"}

Row == [status : Status, channel : {"physical", "online"}, mac : Devices \union {NoDevice},
        expiry : {"unset", "running", "past"}, deleted : BOOLEAN]

RowSet == [by : Requests, mac : Devices \union {NoDevice}]

ReqState == [pc : {"idle", "createMany", "next", "sync", "insert", "wait", "bindCommit", "postauth",
                   "packet", "patchSave"},
             voucher : Vouchers \union {NoVoucher}, device : Devices \union {NoDevice}, copy : Row,
             capped : BOOLEAN, old : SUBSET RowSet, todo : SUBSET Vouchers,
             then : {"idle", "packet", "active", "inactive"}]

\* Every variable has its type.
TypeOK ==
  /\ vouchers \in [Vouchers -> Row]
  /\ radcheck \in [Vouchers -> SUBSET RowSet]
  /\ plan \in [active : BOOLEAN, capped : BOOLEAN, deleted : BOOLEAN]
  /\ sales \subseteq Vouchers
  /\ spent \subseteq Vouchers
  /\ served \in [Vouchers -> SUBSET Devices]
  /\ owner \in [Vouchers -> Devices \union {NoDevice}]
  /\ overtaken \subseteq Vouchers
  /\ req \in [Requests -> ReqState]

\* Whatever bindings, synchronisations and accepted logins overlapped, the rows FreeRADIUS reads of a
\* bound voucher name its device, also after the voucher is over; only rows written from a copy that
\* named another device or came after the end are excused, until they are replaced ("The radius
\* service mirrors this value into radcheck", vouchers/models.go).
BindingEnforced ==
  \A v \in Vouchers \ overtaken :
    owner[v] # NoDevice /\ radcheck[v] # {} => \E b \in radcheck[v] : b.mac = owner[v]

\* A voucher that ran out of time or data is gone from radcheck, unless a copy read before its end
\* was written after it.
OverLeavesRadius ==
  \A v \in Vouchers \ overtaken :
    vouchers[v].status \in {"expired", "exhausted"} => radcheck[v] = {}

\* No row FreeRADIUS reads ever names a device the voucher was not bound to.
NoForeignDevice ==
  \A v \in Vouchers : \A b \in radcheck[v] : b.mac \in {NoDevice, owner[v]}

Phase == [v \in Vouchers |-> CASE vouchers[v].status = "none" -> "none"
                               [] AllowsLogin(vouchers[v]) -> "usable"
                               [] OTHER -> "over"]

\* Whatever requests and logins overlap or die, a voucher is bound to one device for ever, is never
\* usable again after it was over, and once bound lets no other device in but through rows of an
\* outdated copy.
Promise == INSTANCE OneDeviceVoucher WITH phase <- Phase, loose <- overtaken

KeepsPromise == Promise!Spec

\* A voucher that is bound is enforced before the login request: its rows accept no other device
\* (radius/service.go, BindVoucherToDevice).
BoundDeviceOnly ==
  \A v \in Vouchers, d \in Devices :
    AllowsLogin(vouchers[v]) /\ vouchers[v].mac \notin {NoDevice, d} => ~Accepted(v, d)
=============================================================================
