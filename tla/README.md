# TLA+ models of the NobliFi API

NobliFi sells Wi-Fi: a Go API server (`src/internal`), PostgreSQL, the mobile-money provider ioTec,
FreeRADIUS tables, MikroTik routers and a VPS agent (`src/cmd/noblifi-vps-agent`) that owns the
WireGuard hub. This directory holds TLA+ modules that model the parts of the system where money,
vouchers, accounts, routers and tunnels change hands, the TLC configurations that check them and the TLAPS proofs
about them. `PROJECT.json` is the index: components, runs, mutants, hazards, the map from each
definition to its source lines, and the theorems.

## 1. Inventory

Several instances of the server may run (`app.yaml`), each HTTP request in a goroutine of its own,
over one PostgreSQL at READ COMMITTED. A handler is a sequence of statements and `Transaction`
blocks with calls to other services in between; only rows read with `clause.Locking` and unique
indexes order two handlers. That is the grain of every model here.

| Component | State | Operations | What is hard | What makes it correct |
|---|---|---|---|---|
| Withdrawals (`finance/service.go`) | `auth_codes`, `withdrawals`, `wallet_transactions`, wallet balances as sums | request code, confirm, platform withdrawal, payout, refresh, apply result | two confirmations or two codes at once; lost ioTec answers; a stop between commit and payout; old answers applied late | ledger and row agree; a code pays once; funds conserved; nothing moves after paid/failed |
| Online hotspot sales (`payments/hotspot.go`, `finance/service.go`) | `hotspot_purchases`, `vouchers`, `sales`, ledger credits, `wallets`, `radcheck` | start order, poll, settle, open wallet, delete voucher, sync RADIUS | overlapping polls settle together; wallet creation race; commit without sync; answers read by fragments of their words and written blindly | delivered once and only when paid; voucher, sale and credits together |
| Subscription orders (`payments/service.go`) | `payment_orders`, users' `subscription_ends_at`, vouchers | start, check, activate, create voucher | every paid check activates again; whole-row saves of stale rows | paid means given; one voucher per order; the newest paid period stays |
| Vouchers (`vouchers/service.go`) and physical sales | `vouchers` status, `sales` | generate, sell, issue, delete | statuses written by four packages; soft delete leaves RADIUS rows | a voucher is issued once and never usable after it was over |
| RADIUS (`radius/service.go`, `udp_server.go`) | `radcheck`, `radreply`, `radacct` sums, device MAC, the trigger of `migrations/003` | sync, bind, auto-connect, answer packets, record logins | sync reads outside its transaction; FreeRADIUS reads rows of any transaction and answers any device; the trigger writes beside them | a bound code serves one device; rows in RADIUS follow the voucher |
| Plans (`plans/service.go`) | `plans`: duration columns, limit, activity | create, patch, delete | rows older than their columns; partial patches; products that overflow | what is sold is what is shown |
| WireGuard job queue (`wireguard/service.go`) | `wire_guard_jobs`, `routers` status columns | queue, claim with lease, applying, complete, fail, apply to router | requeue under a running agent; expired leases; completion in two statements; duplicate rows | a job that succeeded was done; one active job per operation; retries are bounded |
| VPS agent (`cmd/noblifi-vps-agent`) | `wg0.conf`, kernel peers, relays, ufw rules | claim, upsert/remove peer, configure router, reconcile | failure between commands; HTTP answers lost; rules addressed by number | file and kernel follow the last job; relays and rules follow the targets |
| Routers and provisioning (`routers`, `provisioning`) | `routers`, delete challenges, ports, tunnel addresses | claim, key and status callbacks, check-in, enable/disable remote access, delete | whole-row saves against targeted updates; look-then-assign allocation | a deleted router stays deleted, an old token opens nothing; ports and addresses unique |
| Port profiles (`portprofiles`) | roles of ports; the script and the router that imports it | validate, render, import | a script that stops, fails or runs twice | no client reaches a half-installed portal |
| Auth (`auth`) | users, `auth_codes`, JWT | sign-up, verify, reset, login | codes invalidated and created in two statements; whole-row saves around bcrypt | a code serves once; the password is the one last chosen |
| Revenue, portal HTML, config, MikroTik client | none of their own | reports, rendering, parsing | little | not modelled, see section 8 |

How they interact: the portal's page starts and polls hotspot orders (HTTP); `payments` calls
`finance.SettlePaidHotspotPurchase`, which calls `radius.SyncVoucherForVoucher` after its commit;
`finance` calls ioTec through `payments.IotecPayoutProvider`; routers and `provisioning` queue
WireGuard jobs which the agent claims over HTTP; FreeRADIUS reads the RADIUS tables.

The hazards this leads to are listed in `PROJECT.json`, each at its line with the properties that
would show it going wrong, or a note saying why none does.

## 2. Plan and state

In this order, the most important behaviour first.

1. `WithdrawalLifecycle` (abstract), `WalletWithdrawals`, `MCWalletWithdrawals`, `WalletWithdrawals_proofs`.
2. `PaymentWords`, `PaidDelivery` (abstract), `HotspotSettlement`, `MCHotspotSettlement`, `HotspotSettlement_proofs`.
3. `WireGuardJobs` with the agent's worker, `MCWireGuardJobs`, `WireGuardJobs_proofs`.
4. `OneDeviceVoucher` (abstract), `VoucherRadius`, `PlanTerms`, `MCVoucherRadius`; `VoucherRadius_proofs`
   is about both.
5. `RouterRecords`, `RemoteAccess`, `MerchantAccounts`, composed in `MCControlPlane`;
   `RouterRecords_proofs`, `RemoteAccess_proofs`, `MerchantAccounts_proofs`.
6. `RelayFirewall`, `HotspotInstall`, explored in `MCWalletRelays` and `MCPortal`; `Edge_proofs` is about both.

All of these are done. Left: an abstract specification of the job queue, and a
composition of settlement with deletion and binding (they meet in the status of a voucher).
No module declares a RECURSIVE operator, so that all of them can be proved about.

## 3. Modules and the code

### Withdrawals

`WalletWithdrawals` models one merchant (codes are looked up by the caller's e-mail, wallets by the
caller's id, so merchants share nothing) and the platform wallet.

| Model | Code |
|---|---|
| `codes`, `Unused` | `auth_codes` rows with purpose `withdrawal`, in the order of `created_at`; `used` is `used_at IS NOT NULL`, `expired` is `expires_at` in the past |
| `withdrawals` | `withdrawals` rows; `ref` is "provider reference stored", `code` is a history column: the code that was used |
| `ledger`, `available` | idempotency keys of `wallet_transactions` and the credit-minus-debit sum `walletBalance` computes |
| `payout` | what ioTec has really done (external) |
| `req[r].pc` | the next statement of the handler: `invalidate`, `createCode` (`RequestWithdrawalCode`), `lock`, `reserve` (`ConfirmWithdrawal`'s transaction), `platformReserve`, `payout` (`InitiatePayout`), `apply` (`applyWithdrawalPayoutResult`) |
| `Locked` | the `FOR UPDATE` lock of the code row while a transaction is between its read and its commit |
| `Crash` | the instance dies: the request is gone, an open transaction rolls back |
| `overlapped` | history: wallets of which two withdrawals overlapped: `"merchant"` when two codes were unused together, `"platform"` when two platform withdrawals were between the balance check and the debit |

`InitiatePayout` has the three outcomes the caller can see: refused before ioTec did anything,
answered with a status, or taken and the answer lost; the last two are told apart only by the code's
ignorance. `refused` carries no provider reference, as in `initiateWithdrawalPayout`.
`WithdrawalLifecycle` is what a withdrawal promises without any of this; `ImplementsLifecycle` is the
refinement.

### Online sales

`HotspotSettlement` models one merchant's purchases and the platform wallet.

| Model | Code |
|---|---|
| `purchases` | `hotspot_purchases`: status, "has `order_tracking_id`", "`paid_at` set" |
| `provider` | the collection at ioTec (external): `none`, `pending`, `paid`, `failed`, `reversed` |
| `voucher` | the purchase's row in `vouchers`: `none`, `live`, soft-`deleted` |
| `sales` | how often the purchase was booked (`sales` row and two credits), and the wallets the last credits went to |
| `wallets` | ids of `wallets` rows by type; no unique index forbids two |
| `radius` | purchases whose voucher is in `radcheck` |
| `req[r].pc` | `submit`, `saveTracking`, `markFailed` (`StartHotspotOrder`); `write`, `settle` (`CheckHotspotOrder`); `merchantWallet`, `platformWallet`, `commit` (the settlement transaction); `sync`; `openWallet` (dashboard) |
| `Locked` | the settlement transaction's `FOR UPDATE` on the purchase, which a plain UPDATE waits for |
| `raced` | history: a wallet was looked up in vain while another was being created |

`PaidDelivery` is the promise: charged, then delivered, then online, each once; `ImplementsDelivery` is
the refinement.

`PaymentWords` is how the code reads ioTec. `normalizePaymentStatus` asks which fragments a word contains, those of
a payment first, so a word is the set of the fragments it contains: "Success" is {"success"}, "Unpaid" is {"paid"},
"SentToVendor" is {}. Which words ioTec answers with is nowhere in the repository; the constant `Says` gives, for
each outcome of a collection, the words a model assumes, and `PlainWords` says that none of them is
read as the opposite of what happened. The passing runs use plain words, the proofs that need it assume
`PlainWords` by name, and `hotspot_words` drops it. Subscriptions (`MerchantAccounts`) read the same words.

### The job queue and its agent

`WireGuardJobs` models the jobs of one router (`QueueJob` looks rows up by router, so routers share only
the agent) for the operations `upsert_peer`, `remove_peer` and `configure_router`.

| Model | Code |
|---|---|
| `jobs` | `wire_guard_jobs` rows in order of `created_at`; `expired` is `locked_at` older than the lease |
| `req[h].pc` | the next statement of a server handler: `queue`, `insert` (`QueueJob`; the locked read of no row locks nothing, so the INSERT is a step of its own), `succeeded`, `failed` (`applyRouterJobStatus` with its copy of the row), `loadRouter`, `findConfigure`, `cancelOthers` (the rest of `CompleteJob`) |
| `agent[a].pc` | `runOnce`: the call being made (`applying`, `complete`, `fail`) or the next command (`start`, `persist`, `set`, `unset`) |
| `calls` | HTTP calls the agent's client timed out on; `LateCallServed` is the server that still executes one |
| `conf`, `kernel` | the key that owns the router's address in `wg0.conf` and in the interface |
| `UniqueIndex` | whether the partial unique index of `migrations/002` exists |
| `ConfigFree` | the lock file `withConfigLock` holds |
| `ran`, `heard`, `stale` | history: attempts carried out to the end, jobs written to the router's row, whether a report of an earlier claim was accepted |

`available_at` only delays a claim and is left out, so jobs are claimed in any order. A callback that saves the router's row reads and
saves it in one step; stale whole-row saves are in RouterRecords and RemoteAccess. All agents have one id by default
(`main.go:315`), which is what makes an old report acceptable: the properties that a fencing token would give
unconditionally hold here except when `stale`.

### Vouchers, RADIUS and plans

`VoucherRadius` models the vouchers of one merchant under one plan; codes are ids. Any
device may log in with any code at any time (`Login`), whether or not it asked the portal first: FreeRADIUS
decides by the rows in `radcheck` alone.

| Model | Code |
|---|---|
| `vouchers`, `NoRow` | `vouchers` rows: status, channel, bound MAC, `expires_at` (not set, running, past), soft-deleted. Batches (`CreateMany`) are inserted by one statement after each code was looked up |
| `radcheck` | for a code, the row sets in `radcheck`, each written by one transaction; `mac` is its `Calling-Station-Id` item |
| `plan` | active, with a data limit, soft-deleted: what `SyncVoucher`, binding and packets ask of it |
| `spent` | codes whose `radacct` rows add up to more than a limit |
| `req[r].copy`, `.capped`, `.old` | the voucher and limit `SyncVoucher` read before its transaction; the rows its DELETE saw |
| `req[r].pc` | `createMany`; `next`, `sync`, `insert` (`SyncVoucher` for a list of codes); `wait` (another flight of `syncReusableVoucher`); `bindCommit` (`bindVoucherToDevice` under its row lock, `Locked`); `packet` (the UDP server's answer after it); `postauth` (an accepted login FreeRADIUS has yet to record); `patchSave` |
| `PostAuth`, `Consumed` | the trigger of `migrations/003`: a recorded Access-Accept turns `unused` or `active` into `used` and deletes the rows. A login that is not recorded, or a database without the trigger, ends with `Crash` |
| `served`, `owner` | history: devices that got an Access-Accept; the device the voucher was last bound to by its purchase or a binding |
| `overtaken` | history: codes whose RADIUS rows stem from a copy that named another device than the row, or came after the voucher's end, until they are replaced |

Two transactions at READ COMMITTED that delete and insert rows of one code leave both sets
(`Rewritten`); FreeRADIUS then wants all check items to match (`Accepted`). `OneDeviceVoucher` is the
promise: issued once, bound to one device for ever, never usable again after it was over; before it is bound any
device gets online with it, afterwards only its own, except while its credentials are loose (`overtaken`). `KeepsPromise` is
the refinement: `Phase` reads off the row whether the voucher is usable. `used` counts as usable
(`Running`: `normalizeVoucherStatus` reads it as `active`), `sold` as over, because `voucherStatusAllowsLogin`
does not accept it.

`PlanTerms` has the arithmetic as operators: `DurationToMinutes`, `DeriveDurationPresentation`,
`HydratePlanDurationPresentation` and `ApplyDurationPatch` of `plans/service.go`,
`RemainingVoucherSeconds`, `TotalLimit` and `MikrotikRateLimit` of `radius/service.go`,
the attribute lengths of `udp_server.go`. `planRow` is a row that is created, or
found without value and unit, and changed; `reply` is the last answer. `ReceivePacket` is the check of the length
field in `parseRadiusPacket` and `ReadAttribute` one turn of its loop, with offsets counted after the 20 bytes of
the header. `Wrapped` is what an int keeps of the seconds and `% Word` what `uint32` keeps of them. The clock has
`Tick` ticks a second, a word `Word` values and an int `MaxInt`, so that the boundaries are small.

### Routers, remote access and accounts

`RouterRecords` is one router's row and what the dashboard and the router's callbacks do to it.

| Model | Code |
|---|---|
| `row` | `routers`: live or deleted, claim token (numbered as issued; `DeletedToken` is `deletedClaimToken`), token expired, linked |
| `op[q].copy`, `.rows` | the row and the assignments (`Preload`) a handler read, and saves back whole |
| `ports` | `router_port_assignments` as the batches `ReplacePortAssignments` inserted; a DELETE sees what was committed |
| `challenges` | `router_delete_challenges` with their actor, used and expired |
| `revoked`, `servedLate`, `overtaken`, `crossed` | history: tokens that must open nothing, a request served for one, a stale save, two crossing replacements |

Callbacks that carry the token (`ReadForCallback`) and dashboard handlers (`ReadForDashboard`) read here
and `Save` later; `ReportStatus` is the one targeted update.

`RemoteAccess` has several routers, since they compete for addresses and ports.

| Model | Code |
|---|---|
| `routers` | tunnel address, public ports by kind, access on or off, live |
| `handler[h].pc` | `saveAddress` (an address was chosen, `ReadForAddress`, and its row is not saved yet); `save` (any other whole-row save, `Touch`); `assign` (the transaction of `EnableWinBoxAccess`/`EnableWebAccess` under the row lock); `queue`, `disable`, `revoke`; `delete`, `deleteBoth`, `cleanUpAccess`, `cleanUpPeer` (`DeleteRouter` and the jobs it queues, with errors only logged) |
| `queue`, `work` | active jobs of a router and operation; the one the agent applies and whether it still holds it (`QueueJob` takes a job that is queued again away) |
| `indexed` | whether the unique indexes of migrations 001 and 004 exist |
| `asked`, `outdated`, `overlapped`, `undone` | history: what merchants asked for last, and the three things that may defeat it. `overlapped` is set when a port or an address is chosen while another choice is in flight, whatever the two choose |

`MerchantAccounts` is one account: `user` is the `users` row, `codes` the `auth_codes` rows, `order` the
`payment_orders` rows with ioTec's side in `provider`. `call[q].pc` is the next statement: `replace`,
`issue` (`issueCode`; `collided` is set when a request for a code of the purpose is between its reads and writes); `use`, `account`, `save` (`consumeCode` and the handler that used the code, with
the copy it read); `repair` (`ensureSubscriptionDefaults` at login); `ask`, `voucher`, `activate`, `store`, `storeUnpaid`
(`applyStatus`: ioTec's word as `PaymentWords` reads it, `ensureVoucher`, `updateUserSubscription`, the save of the whole order).
Passwords and paid periods are numbered as they are made, so that an older one can be told from a newer.

### The edge

`RelayFirewall` is the agent's reconciliation: `Fetch` the targets, `Upsert` each relay, `RemoveStale`,
`ListRules`, then one ufw command a step, by the numbers of that one listing. `rules` is the numbered list
with the administrator's rules as `Foreign`; with IPv6 a rule appears twice (`dual`). Relays are lost
with the agent, rules are not; another program may hold a port.

`HotspotInstall` is a MikroTik that imports the rendered script. `Script` is the order of the command
groups in `RenderRouterOSWithOptions`, `Needs` what RouterOS refuses a command without, `staged` what is there,
`bridge` the bridge of each port. A critical command that fails ends the import, a safe one is skipped;
imports overlap (`configure_router` jobs, an administrator), the power fails, roles change in
between.
## 4. Runs and bounds

| Run | Checks | Shows |
|---|---|---|
| `wallet_relays` | all safety invariants of withdrawals and `ImplementsLifecycle`; `ReconcileExact`, `RelaysConverge` | no interleaving of two requests, two codes and two withdrawals with lost answers and a crash breaks ledger, codes or life-cycle; passes end exact and converge |
| `money_live` | `ReferencedSettles`, `PaidIsDelivered` | a withdrawal ioTec answered for ends paid or failed; a charged customer is delivered whatever single crash or failed sync comes between |
| `wallet_overdraft` | `MerchantNeverOverdrawn`, violated | finding 1 |
| `wallet_lost_reply` | `ReleaseMeansNotPaidOut`, violated | finding 2 |
| `portal` | all safety invariants of settlement and `ImplementsDelivery`; `InstallSound` | two requests polling and settling two purchases deliver each once; imports never show clients a half-installed portal |
| `hotspot_words` | `VoucherAfterPayment`, violated | finding 3 |
| `wg_jobs` | all safety invariants and `FinishedStays` | no interleaving of callbacks, agent and one fault breaks the queue, forgets the router or hides a half-done change |
| `wg_live` | `EveryJobEnds` | jobs end whatever single fault happens |
| `wg_automigrate` | `SingleActive`, violated | finding 4 |
| `vouchers` | `TypeOK`, `BindingEnforced`, `OverLeavesRadius`, `NoForeignDevice`, `KeepsPromise`; `ShownIsSold`, `PatchKeepsTerms`, `RadiusAnswersExact` | whatever two requests and two devices do, with and without the trigger, a bound voucher serves its device only and is never revived; RADIUS follows the row unless an outdated copy was written; the arithmetic is exact at its boundaries |
| `vouchers_stale_copy` | `BoundDeviceOnly`, violated | finding 5 |
| `control_plane` | `RevocationHolds`, `OnePortOneRole`, `EndpointsExclusive`, `AccessFollowsRequests`, `CodesGovernAccount`, `PaymentsHonoured` | revocations, ports, addresses, passwords, paid periods hold but for the overlaps and whole-row saves the histories name |
Bounds. Every race listed in the hazards is between two handlers over one or two rows: two requests,
two withdrawals (or purchases), two codes and two wallet ids let each happen, and the opening balance of
2 with amounts 1 and 2 lets two withdrawals fit together or not. One crash at any step is enough for a
lost step; `MaxCrashes` and `MaxCodes` keep the state space finite, and the theorems are for every value of
them. The commission rate only decides whether a sale can be booked (`CommissionValid`).
A collection that is pending or failed may answer with a word that says so or with no known one, a paid one with
"success" or a word that is late, a reversed one with words that are read as failed, paid or neither.
In `money_live` (93,281 states) there is one amount, one code and one purchase. Symmetry is used
only in runs without liveness, over requests and rows, which no operator orders; `wallet_relays` (1,603,049 states) does without.
`portal` has 2,140,732 states; wallet ids are numbers because
`First(&wallet)` orders them. In `wg_jobs` two rows, three
callbacks and two keys allow an upsert, its replacement under a running agent and a removal or a configuration beside
it; two attempts separate the last failure from the others, and one agent is what a VPS runs (one systemd
service). One fault of any kind may happen at any step. 

`vouchers` (1,931,249 states) has one code, since codes share only the plan and no race needs two (the batch of
`GenerateCodes` and the list of `SyncAllVouchers` are then of one code); two requests and two devices are
one more than any single handler uses. A deleted plan is as unusable as an inactive one, so it is explored only
while a patch in flight may still save the plan back, and the limit of an inactive plan is not changed (`PlanExplored`); the theorems
leave both open. The minutes and values of `PlanTerms` are the boundaries of every
unit, a value that overflows `MaxInt` with every unit but minutes, and negative ones; the seconds of up to
four minutes fit a word of 256, those of longer plans do not and the longest wrap an int; times left are around whole
seconds and a few durations, sizes around one and two words. Packets are all byte strings up to
length four over 0..4, with every claimed length from -1 to one more than there are bytes. `control_plane` (2,174,203 states) has two requests, two tokens, one challenge, two
batches of ports, two routers that compete for two ports and two addresses, two codes, passwords, periods and
vouchers of one order: one thing and its successor each. The relays have two ports and two targets, three changes
of wishes and two faults, the imports four sockets, two sessions, one change of roles and one fault.

The runs of `MCWalletRelays`, `MCMoneyLive`, `MCPortal`, `MCVoucherRadius` and `MCControlPlane` explore components that share no state one after the other
instead of as a product (`AtRest` and its like in the MC modules): every interleaving of one component is there, products of
unrelated ones are not. In `control_plane`, where a history already excuses a property (a stale save, crossed batches, an
undone removal, and overlapping choices unless the unique indexes exist), the exploration stops, because the property says
nothing more there; overlapping requests for codes (`collided`) are explored to the end;
remote access is explored while at most one job waits and then only with a handler that is free,
choosing or saving (`AccessExplored`), so two jobs that wait for different routers are beyond this run.
`CHECK_DEADLOCK FALSE` is used throughout: rows are bounded and
all of them may be finished, so the system may really stop.

## 5. Fairness

Weak fairness of each step of a request says that a goroutine runs on; it is not assumed of starting a
request, so nobody has to order or withdraw. ioTec decides what it took (weak fairness of
`ProviderSettles`; for a collection nothing is assumed, since the property speaks of payments already
made). Strong fairness of `RefreshStatus` and `PollStatus` is the dashboard and the portal page that ask
again while the order is open (`provisioning/commerce.go:355-425` polls every three seconds; it gives up
after about a hundred tries and starts again when the page is reopened): strong, because the request slots of
the model may be busy now and then. Strong fairness of a successful `SyncRadius` says the database does
not refuse the RADIUS rows for ever. The crashes are bounded, hence finitely many.
In `wg_live` handlers and the agent's loop run on (weak fairness; the ticker of `runWireGuardWorker` claims
every few seconds), a lease nobody renews runs out, and every job is claimed again and again (strong
fairness of `ClaimJob` for each row: the claim takes the oldest `available_at`, which a retry moves back). No
fairness is assumed of success: `ApplyFails` may happen every time. Faults are bounded: a job whose agent
dies in every attempt is really never ended, since `ClaimJob` does not look at `max_attempts`.

In `wallet_relays` the agent's steps are weakly fair: the ticker of `runWireGuardWorker` never stops and each pass
is a sequence of commands. Nothing is assumed of ports that other programs hold: `RelaysConverge` speaks of
behaviours in which they are given back. Its faults are bounded, hence finitely many.
## 6. Proofs

`WalletWithdrawals_proofs` and `HotspotSettlement_proofs` prove, for every set of requests, rows, amounts
and every bound, from `ConstantsAssumption` alone (ids distinct from the null id, amounts, prices and
bounds natural numbers; the commission is any integer), and where ioTec's words matter from `PlainWords`, which is a
hypothesis of the theorems `ProviderAgreement` and `Refinement` of sales and not an assumption of the module:

- `TypeCorrectness`, and each safety invariant of the safety runs;
- `Refinement`: the detailed specification implements the abstract one.

The properties are not inductive. The invariants that are, both called `IInv` and checked as conjunctions of
named parts, add what the requests in flight know. For withdrawals: a request in `payout` or `apply` owns
a row that exists and is of its withdrawal, at most one request holds the lock on a code, a request in
`reserve` found the balance covering its amount under that lock, fresh ids are used by one request, and an answer in flight is
consistent with what ioTec has done (`processing` is a past state of every answer; `paid` and `failed`
never change). `OverdraftNeedsOverlap` needs in addition that without overlap all unused codes are one, so that all
confirming transactions contend for one row, and that one platform withdrawal at most is past its balance check, which
its amount still passes (`PlatformGuarded`). The conservation of funds sums over withdrawals; it is proved unit by
unit instead, as the size of the set of pairs of a withdrawal that still counts and a unit of its amount (`FundsCounted`),
so that cardinality takes the place of an induction. For sales: an answer in flight, if its word was plain, was true when it was fetched and
`reversed` only follows `paid`; only one request is inside a purchase's transaction; a wallet id in
flight is not yet committed or is the lowest one, unless `raced`; tracking ids exist only for
collections ioTec has. Each action is one step of the preservation proof and each part of `IInv` one
step below it; refinement is proved action by action from the same invariant.

`WireGuardJobs_proofs` proves all safety properties of the job queue:

- `TypeCorrectness` with `Refer`: agents and calls only speak of rows that exist, without which a report
  could write a row of no type.
- `OneActiveJob`, assuming the unique index. Its inductive form `OneActive` says that two active rows of one
  operation are one row; the only steps that make a row active are the INSERT and a report, and both
  pass the index. Counting is left to the last lemma.
- `RouterIsTold`: `RouterHears` is inductive with the type invariant.
- `AppliedJobs` and `FinishedJobs` rest on `Claims`: the attempt counter tells the claims of a job apart, one agent or
  one late call holds each of them (`OneHolder`), none is above the row's counter (`AttemptsKnown`), the holder of the
  last claim of a locked row has the row's key (`KeyKnown`) and has run it if it reports completion
  (`RanKnown`), and a finished row has no holder of its last claim left unless `stale` (`NoneLeft`). This is also what
  the code would have to compare, attempt against attempt, to make both theorems hold without `stale`.
- `Divergence` needs the most, because the file and the interface change in commands of their own and the property
  holds between any two of them. `Traced` names the trace: a job that is half done is open or failed, no
  report of its completion is under way, and if it is a removal its key is out of the file and still in the
  interface (`HalfDone`). That a removal never leaves another key behind needs `OneRemoval` (a router is deleted once, so
  all removals are of one key) and that a job at work is not over, `AtWorkUndone`, from `Claims`, `LastClaim` (a lone
  agent works on the last claim of its job) and `CancelledConfigure` (only configurations are cancelled).
  `AtCommand` is what the agent knows between two commands.

These theorems allow any number of agents, also with one id; `DivergenceShows` itself speaks of one, and
`LastClaim`, `AtCommand` and `Traced` are proved under that assumption (`Alone`).

`VoucherRadius_proofs` proves all properties of `VoucherRadius` and its refinement, for any number of requests, vouchers and
devices, from `ConstantsAssumption`. Three facts make them inductive. `RowAgrees`: the row of a usable voucher names its
owner (at the end a stale save may have forgotten it, which is why the history is kept). `RadiusAgrees`: besides the three stated
properties, a code that was never issued has no radcheck rows. `RequestWell` and `OneBinder`: the copy of a synchronisation is of an
issued row and names no device but the owner; a binding holds a row that is usable and free or its own, and the row lock admits one
binding per voucher; an answer of the UDP server goes to the owner. Each step keeps what matters of a row (`Kept`), ends,
issues or binds it; the preservation proof and the refinement both follow this classification. Logins and
the trigger only keep: a login changes `served` alone, and needs that the rows name the owner unless they are
`overtaken`; the trigger leaves a usable voucher usable and a voucher that is over as it is.

`RouterRecords_proofs` proves `Revocation`, `PortRoles` and `Renderable` for any number of requests, tokens,
challenges and batches, from `RecordsAssumption`. `RevocationHolds` becomes inductive with the types and four
facts: every token in the row, in a copy or revoked was handed out (`TokensKnown`, so that a new token is
never a revoked one); nothing was revoked of a router that was never created; handlers save copies of a live router
(`CopiesLive`, so that saving one over a deletion sets `overtaken`); and without `crossed` and `overtaken` the
stored batches are one, each valid when it was chosen (`BatchesValid`).

`MerchantAccounts_proofs` proves `CodesGovern` and `Payments` from `AccountsAssumption`, the latter under `PlainWords`. The codes need
`CodesOrdered` (without `collided` only the newest code of a purpose can be unused) and `CodesApart` (nor does a request hold
a code, or the turn to issue one, while another does for the same purpose). The orders need what
a check knows at each stage (`RequestWell`: past ioTec's answer the money came in, before the order is stored as paid
it has given, a package has its voucher in hand) and `VouchersTracked`: each voucher created for an order is on
the order, or in the hand of a check, or the order is in `voucherLost`. `AccountBehind` says that there is an
account behind whatever is verified, reset or paid, so that no sign-up follows it.

The second part of `VoucherRadius_proofs` proves `Shown` and `PatchKeeps` of `TermsSpec` from `TermsAssumption`, for
every `MaxInt`, every set of integers as values and every set of minutes up to `MaxInt`: a stored row is the product
of its value and unit, or predates them; the largest unit that divides its minutes gives them back. `AnswerInv` adds the
three parts of `RadiusAnswersExact` (`TimeGranted`, `LimitsExact`, `PacketsSplit`), and `Answers` holds for every width of a word and of an int, every clock and every sequence of
bytes. The arithmetic rests on `DivMod`, `ModSmall` and `ModLess` (a quotient and remainder add up, and a remainder
is never more than the number), the rounding on `TimeLeft`. A packet's loop keeps two facts: its offset lies on every
sequence of whole attributes that ends at the claimed length (`OnEveryChain`), so that one it refuses has none, and what it
has read is covered without gap or overlap (`SplitSoFar`). `PacketsSplit` asks about chains instead of a
recursive parse, so no induction over the bytes is needed.

`RemoteAccess_proofs` proves `Endpoints` and `Access` of `AccessSpec` for any number of routers, handlers, ports and
addresses, from `AccessAssumption`. Its `IInv` adds what the handlers know: the row a handler has locked can be given a port
(`HandlerWell`) and no other handler has locked it (`OneLock`); where the unique indexes exist, they keep addresses and
WinBox ports apart (`Indexed`); where nothing overlapped, all of them are apart (`Apart`) and the port a handler has
chosen is still nobody else's (`Chosen`), as is the address a handler is going to save (`AddressChosen`). That relays follow requests are two implications: who holds a port
has asked (`PortMeansAsked`), who asked is relayed (`AskedMeansRelayed`).

`Edge_proofs` proves `Install` of `InstallSpec`, from `InstallAssumption`, for every set of ports and imports and every
choice of roles. Failing, repeated and overlapping imports keep what is staged in the order of the script
(`StagedInOrder`), and so a port is attached only once everything that serves it is there (`ServedBeforeAttached`); what a
complete import reports needs more, namely what an import that ran alone has done to each port (`Aloneness`, `LonePorts`),
and the NAT that roles only go out of date where they were changed (`RolesCurrent`). `Reconciled` of `RelaySpec`, from
`RelayAssumption`, is for every set of public ports and targets and any number of rules: a pass keeps the relays of the ports it has
looked at (`RelaysSoFar`); what stays after the deletions, with what is still to be allowed, is what was
wanted, and no number on the list is of a rule of the administrator (`RulesSoFar`), because the deletions go from the
last number down and leave the smaller ones in place; foreign rules are counted by finite cardinality (`ForeignKept`).
Where the proofs need a least number they take it from the well-foundedness of < on the natural numbers.
## 7. What is only model-checked

Liveness (`ReferencedSettles`, `PaidIsDelivered`, `EveryJobEnds`, `RelaysConverge`): fairness and ENABLED are out of the prover's
reach. Every safety invariant and action property of the passing runs is proved as well. The violated properties are TLC
counterexamples.

The histories (`overtaken`, `outdated`, `stale`, `collided`, `crossed`, `undone`, `shifted`, `raced`, `skipped`) name the
events after which a property asks for less. Each is set by the event and never by the harm: a theorem that mentions one
says that nothing else in the code does the harm, and says nothing for the event itself. The notes of the hazards in
`PROJECT.json` say where that leaves a hazard open, and section 9 where a run shows it going wrong.

`KeepsPromise` speaks of a voucher from its binding on. Before, its rows name no device (`radius/service.go:437`), and every
device that logs in with the code without the portal's prepare step is let in and not bound (`Login`); the trigger of
`migrations/003` deletes the rows only after the first answer is recorded, and a synchronisation writes them
again. `vouchers/models.go:25` says more ("binds the voucher to the first physical client that activates
it"); that holds of activations through the portal.

## 8. Not modelled

Revenue reports and lists (they only read), configuration and wiring, the MikroTik wire protocol,
schema creation; the text of RouterOS scripts, portal HTML and e-mails (the order and conditions of the
portal's commands are in `HotspotInstall`); HTTP parsing, session tokens (signed, no row), MD5 authenticators of RADIUS
packets; job heartbeats and telemetry, which no decision reads; the legacy Node files under
`src/src/`. Times are abstracted to "expired or not", money to small numbers, names, phones and codes to ids. The
database is trusted to give READ COMMITTED, row locks, atomic transactions and unique indexes. A reversal of a
settled payment is modelled (the status changes) but no property asks for the money back: no code does.

## 9. Findings

1. `finance/service.go:419`: old codes are invalidated and the new one is created in two statements without a
   transaction. Two overlapping requests leave two usable codes; their confirmations lock different rows, both
   see the same balance and both commit (`wallet_overdraft`). `OverdraftNeedsOverlap`, checked and
   proved, says that this is the only way to overdraw the merchant's wallet.
2. `finance/service.go:664`: every error of the payout call, including a lost answer, is applied as a failure
   and the reservation is released although ioTec may pay (`wallet_lost_reply`). `BooksFollowProvider`,
   checked and proved, shows that with a stored provider reference this cannot happen.
3. `payments/service.go:607`: an answer is a payment if it contains "paid" or "success", so "Unpaid" and
   "Unsuccessful" are payments and a customer who was not charged gets a voucher (`hotspot_words`), or a subscription
   (`applyStatus` reads answers alike). `server.go:199` says that purchases "create their voucher after
   payment succeeds". Whether ioTec has such a word is nowhere in the repository; an answer without a status is classified by its
   free text (`service.go:478`). `PlainWords` is what has to be true of the words.
4. `wireguard/service.go:482`: without the partial unique index, which `migrations/002` creates and
   `AutoMigrate` does not, two overlapping `QueueJob` calls insert two active jobs (`wg_automigrate`).
   `docs/wireguard-agent.md:117` offers the two ways to set up the schema as alternatives. With the index
   `SingleActive` is proved.

5. `radius/service.go:325`: `SyncVoucher` reads the voucher outside its transaction; if a binding commits in between, the
   rows of the copy, which name no device, replace those of the binding (`vouchers_stale_copy`), although
   `radius/service.go:171` says that `Calling-Station-Id` is enforced before the login. `BindingEnforced`, checked
   and proved, says that only such a copy has this effect, and `NoForeignDevice` that it names no wrong device either.
