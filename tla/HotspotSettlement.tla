------------------------- MODULE HotspotSettlement -------------------------
(***************************************************************************)
(* Online hotspot sales: the captive portal starts a mobile-money order    *)
(* (src/internal/payments/hotspot.go), polls it, and a poll that learns of *)
(* the payment settles the purchase (src/internal/finance/service.go):     *)
(* voucher, sale and wallet credits in one transaction, then the RADIUS    *)
(* records the voucher logs in with.                                       *)
(*                                                                         *)
(* req[r] is the HTTP request r in flight.  Its steps are the statements   *)
(* and transactions other requests can see and the answers of ioTec.  The  *)
(* purchases are of one merchant, and "paid_at" is only set or not set.    *)
(***************************************************************************)
EXTENDS Integers, FiniteSets, PaymentWords

CONSTANTS Requests,       \* requests that can be in flight together
          Purchases,      \* ids of hotspot_purchases rows
          NoPurchase,
          Price,          \* purchase |-> price of its plan
          CommissionBps,  \* cfg.MobileMoneyCommissionBPS, any integer in the environment
          WalletIds,      \* ids of wallets rows, ordered as the primary key is
          MaxCrashes      \* bound on requests that die half-way

ASSUME ConstantsAssumption ==
  /\ NoPurchase \notin Purchases
  /\ Price \in [Purchases -> Nat \ {0}]
  /\ CommissionBps \in Int
  /\ WalletIds \subseteq Nat \ {0}
  /\ MaxCrashes \in Nat

Kinds == {"merchant", "platform"}

VARIABLES purchases,  \* hotspot_purchases rows
          provider,   \* what ioTec has done about each collection
          voucher,    \* the vouchers row of each purchase
          sales,      \* how often a purchase was booked, and the wallets it was credited to last
          wallets,    \* kind |-> ids of its wallets rows
          radius,     \* purchases whose voucher FreeRADIUS knows
          req,        \* requests in flight
          crashes,
          raced       \* history: a wallet was looked up in vain while another was being created

vars == <<purchases, provider, voucher, sales, wallets, radius, req, crashes, raced>>

NoRow == [status |-> "absent", tracking |-> FALSE, paidAt |-> FALSE]

NoWallet == [k \in Kinds |-> 0]

NoSale == [booked |-> 0, wallet |-> NoWallet]

Idle == [pc |-> "idle", purchase |-> NoPurchase, answer |-> "unpaid", wallet |-> NoWallet]

At(r, p) == req[r].pc = p

\* The row lock of SELECT ... FOR UPDATE in settlePaidHotspotPurchase.
Locked(p) == \E r \in Requests : /\ req[r].pc \in {"merchantWallet", "platformWallet", "commit"}
                                 /\ req[r].purchase = p

Init == /\ purchases = [p \in Purchases |-> NoRow]
        /\ provider = [p \in Purchases |-> "none"]
        /\ voucher = [p \in Purchases |-> "none"]
        /\ sales = [p \in Purchases |-> NoSale]
        /\ wallets = [k \in Kinds |-> {}]
        /\ radius = {}
        /\ req = [r \in Requests |-> Idle]
        /\ crashes = 0
        /\ raced = FALSE

-----------------------------------------------------------------------------
(* StartHotspotOrder: the row, the collection at ioTec, the tracking id.   *)

StartOrder(r, p) ==
  /\ At(r, "idle")
  /\ purchases[p].status = "absent"
  /\ purchases' = [purchases EXCEPT ![p].status = "pending"]
  /\ req' = [req EXCEPT ![r].pc = "submit", ![r].purchase = p]
  /\ UNCHANGED <<provider, voucher, sales, wallets, radius, crashes, raced>>

\* The answer of submitIotecCollection: refused, accepted, or accepted and lost on its way.
SubmitCollection(r) ==
  /\ At(r, "submit")
  /\ \/ /\ req' = [req EXCEPT ![r].pc = "markFailed"]
        /\ UNCHANGED provider
     \/ /\ provider' = [provider EXCEPT ![req[r].purchase] = "pending"]
        /\ \E next \in {"saveTracking", "markFailed"} : req' = [req EXCEPT ![r].pc = next]
  /\ UNCHANGED <<purchases, voucher, sales, wallets, radius, crashes, raced>>

SaveTracking(r) ==
  /\ At(r, "saveTracking")
  /\ purchases' = [purchases EXCEPT ![req[r].purchase].tracking = TRUE]
  /\ req' = [req EXCEPT ![r] = Idle]
  /\ UNCHANGED <<provider, voucher, sales, wallets, radius, crashes, raced>>

MarkFailed(r) ==
  /\ At(r, "markFailed")
  /\ purchases' = [purchases EXCEPT ![req[r].purchase].status = "failed"]
  /\ req' = [req EXCEPT ![r] = Idle]
  /\ UNCHANGED <<provider, voucher, sales, wallets, radius, crashes, raced>>

\* The customer approves or declines; ioTec may give a payment back later.
ProviderDecides(p) ==
  /\ \/ /\ provider[p] = "pending"
        /\ \E s \in {"paid", "failed"} : provider' = [provider EXCEPT ![p] = s]
     \/ /\ provider[p] = "paid"
        /\ provider' = [provider EXCEPT ![p] = "reversed"]
  /\ UNCHANGED <<purchases, voucher, sales, wallets, radius, req, crashes, raced>>

-----------------------------------------------------------------------------
(* CheckHotspotOrder: ioTec is asked, and the answer is written later over  *)
(* whatever the row says by then.                                           *)

PollStatus(r, p) ==
  /\ At(r, "idle")
  /\ purchases[p].tracking
  /\ \E word \in Says[provider[p]] :
       req' = [req EXCEPT ![r].pc = "write", ![r].purchase = p,
                          ![r].answer = NormalizePaymentStatus(word)]
  /\ UNCHANGED <<purchases, provider, voucher, sales, wallets, radius, crashes, raced>>

\* Mutants: the normalized word is stored; what is not paid has failed.
PersistedRaw(a) == a

PersistedUnpaidFails(a) == IF a = "unpaid" THEN "failed" ELSE a

Persisted(a) == IF a = "unpaid" THEN "pending" ELSE a

WriteStatus(r) ==
  LET p == req[r].purchase
      a == req[r].answer
  IN  /\ At(r, "write")
      /\ ~Locked(p)
      /\ purchases' = [purchases EXCEPT ![p].status = Persisted(a), ![p].paidAt = @ \/ a = "paid"]
      /\ req' = [req EXCEPT ![r] = IF a = "paid" THEN [req[r] EXCEPT !.pc = "settle"] ELSE Idle]
      /\ UNCHANGED <<provider, voucher, sales, wallets, radius, crashes, raced>>

-----------------------------------------------------------------------------
(* settlePaidHotspotPurchase: the transaction that locks the row, and the   *)
(* wallet look-ups inside it, which lock nothing.                           *)

\* CalculateCommission
Fee(p) == (Price[p] * CommissionBps) \div 10000

CommissionValid(p) == CommissionBps >= 0 /\ Fee(p) <= Price[p]

\* A deleted voucher is not found, and the row put in its place violates the unique code.
Settleable(p) ==
  /\ purchases[p].status = "paid"
  /\ voucher[p] # "deleted"
  /\ sales[p].booked > 0 \/ CommissionValid(p)

RejectSettle(r) ==
  /\ At(r, "settle")
  /\ ~Locked(req[r].purchase)
  /\ ~Settleable(req[r].purchase)
  /\ req' = [req EXCEPT ![r] = Idle]
  /\ UNCHANGED <<purchases, provider, voucher, sales, wallets, radius, crashes, raced>>

\* Mutant: a purchase settled before is not synced again.
SyncOnlyNew(p) == IF sales[p].booked > 0 THEN "idle" ELSE "merchantWallet"

\* ensureOnlineVoucher and ensureOnlineSale find the rows of an earlier settlement.
StepAfterLock(p) == IF sales[p].booked > 0 THEN "sync" ELSE "merchantWallet"

\* Mutant: the voucher is created outside the transaction of the sale.
VoucherFirst(r) ==
  /\ At(r, "settle")
  /\ ~Locked(req[r].purchase)
  /\ Settleable(req[r].purchase)
  /\ voucher' = [voucher EXCEPT ![req[r].purchase] = "live"]
  /\ req' = [req EXCEPT ![r].pc = StepAfterLock(req[r].purchase)]
  /\ UNCHANGED <<purchases, provider, sales, wallets, radius, crashes, raced>>

BeginSettle(r) ==
  /\ At(r, "settle")
  /\ ~Locked(req[r].purchase)
  /\ Settleable(req[r].purchase)
  /\ req' = [req EXCEPT ![r].pc = StepAfterLock(req[r].purchase)]
  /\ UNCHANGED <<purchases, provider, voucher, sales, wallets, radius, crashes, raced>>

\* Wallet ids that a request has made up and not yet committed.
Uncommitted(k) == {req[r].wallet[k] : r \in Requests} \ (wallets[k] \union {0})

\* Mutant: an existing wallet is never found.
NeverExists(k) == FALSE

WalletExists(k) == wallets[k] # {}

\* First(&wallet) takes the lowest id; when there is none, Create makes one up.
LookUpWallet(k, i) ==
  IF WalletExists(k)
  THEN /\ i \in wallets[k] /\ \A j \in wallets[k] : i <= j
       /\ UNCHANGED raced
  ELSE /\ i \notin wallets[k] \union Uncommitted(k)
       /\ raced' = (raced \/ Uncommitted(k) # {})

FindMerchantWallet(r, i) ==
  /\ At(r, "merchantWallet")
  /\ LookUpWallet("merchant", i)
  /\ req' = [req EXCEPT ![r].pc = "platformWallet", ![r].wallet["merchant"] = i]
  /\ UNCHANGED <<purchases, provider, voucher, sales, wallets, radius, crashes>>

FindPlatformWallet(r, i) ==
  /\ At(r, "platformWallet")
  /\ LookUpWallet("platform", i)
  /\ req' = [req EXCEPT ![r].pc = "commit", ![r].wallet["platform"] = i]
  /\ UNCHANGED <<purchases, provider, voucher, sales, wallets, radius, crashes>>

BookSale(r) ==
  LET p == req[r].purchase
  IN  sales' = [sales EXCEPT ![p] = [booked |-> @.booked + 1, wallet |-> req[r].wallet]]

CommitWallets(r) == wallets' = [k \in Kinds |-> wallets[k] \union ({req[r].wallet[k]} \ {0})]

CommitSettle(r) ==
  /\ At(r, "commit")
  /\ voucher' = [voucher EXCEPT ![req[r].purchase] = "live"]
  /\ purchases' = [purchases EXCEPT ![req[r].purchase].status = "paid",
                                   ![req[r].purchase].paidAt = TRUE]
  /\ BookSale(r)
  /\ CommitWallets(r)
  /\ req' = [req EXCEPT ![r].pc = "sync", ![r].wallet = NoWallet]
  /\ UNCHANGED <<provider, radius, crashes, raced>>

\* SyncVoucherForVoucher; its error leaves a settled purchase to the next poll.
SyncRadius(r) ==
  /\ At(r, "sync")
  /\ voucher[req[r].purchase] = "live"
  /\ radius' = radius \union {req[r].purchase}
  /\ req' = [req EXCEPT ![r] = Idle]
  /\ UNCHANGED <<purchases, provider, voucher, sales, wallets, crashes, raced>>

SyncFails(r) ==
  /\ At(r, "sync")
  /\ req' = [req EXCEPT ![r] = Idle]
  /\ UNCHANGED <<purchases, provider, voucher, sales, wallets, radius, crashes, raced>>

-----------------------------------------------------------------------------
(* The dashboard: WalletSummary opens the wallet it does not find, and a    *)
(* merchant may delete a voucher (a soft delete).                           *)

OpenDashboard(r, k, i) ==
  /\ At(r, "idle")
  /\ ~WalletExists(k)
  /\ LookUpWallet(k, i)
  /\ req' = [req EXCEPT ![r].pc = "openWallet", ![r].wallet[k] = i]
  /\ UNCHANGED <<purchases, provider, voucher, sales, wallets, radius, crashes>>

CreateWallet(r) ==
  /\ At(r, "openWallet")
  /\ CommitWallets(r)
  /\ req' = [req EXCEPT ![r] = Idle]
  /\ UNCHANGED <<purchases, provider, voucher, sales, radius, crashes, raced>>

DeleteVoucher(p) ==
  /\ voucher[p] = "live"
  /\ voucher' = [voucher EXCEPT ![p] = "deleted"]
  /\ UNCHANGED <<purchases, provider, sales, wallets, radius, req, crashes, raced>>

\* The instance serving r dies; PostgreSQL rolls its open transaction back.
Crash(r) ==
  /\ ~At(r, "idle")
  /\ crashes < MaxCrashes
  /\ crashes' = crashes + 1
  /\ req' = [req EXCEPT ![r] = Idle]
  /\ UNCHANGED <<purchases, provider, voucher, sales, wallets, radius, raced>>

-----------------------------------------------------------------------------
RequestNext(r) ==
  \/ \E p \in Purchases : StartOrder(r, p) \/ PollStatus(r, p)
  \/ SubmitCollection(r) \/ SaveTracking(r) \/ MarkFailed(r)
  \/ WriteStatus(r) \/ RejectSettle(r) \/ BeginSettle(r)
  \/ \E i \in WalletIds : FindMerchantWallet(r, i) \/ FindPlatformWallet(r, i)
  \/ CommitSettle(r) \/ SyncRadius(r) \/ SyncFails(r)
  \/ \E k \in Kinds, i \in WalletIds : OpenDashboard(r, k, i)
  \/ CreateWallet(r)
  \/ Crash(r)

Next == \/ \E r \in Requests : RequestNext(r)
        \/ \E p \in Purchases : ProviderDecides(p) \/ DeleteVoucher(p)

Spec == Init /\ [][Next]_vars

\* What the liveness property assumes: goroutines run on, the portal page polls again (every three
\* seconds, and again when it is reopened), and RADIUS syncs do not fail for ever.
Serving(r, p) == req[r].purchase = p

Fairness ==
  /\ \A r \in Requests :
       /\ WF_vars(SubmitCollection(r)) /\ WF_vars(SaveTracking(r)) /\ WF_vars(MarkFailed(r))
       /\ WF_vars(WriteStatus(r)) /\ WF_vars(RejectSettle(r) \/ BeginSettle(r))
       /\ WF_vars(\E i \in WalletIds : FindMerchantWallet(r, i))
       /\ WF_vars(\E i \in WalletIds : FindPlatformWallet(r, i))
       /\ WF_vars(CommitSettle(r)) /\ WF_vars(CreateWallet(r))
       /\ WF_vars(SyncRadius(r) \/ SyncFails(r))
  /\ \A p \in Purchases :
       /\ SF_vars(\E r \in Requests : PollStatus(r, p))
       /\ SF_vars(\E r \in Requests : Serving(r, p) /\ SyncRadius(r))

FairSpec == Spec /\ Fairness

-----------------------------------------------------------------------------
(* Properties                                                              *)

PurchaseRow == [status : {"absent", "pending", "paid", "failed"},
                tracking : BOOLEAN, paidAt : BOOLEAN]

SaleRow == [booked : Nat, wallet : [Kinds -> WalletIds \union {0}]]

RequestState ==
  [pc : {"idle", "submit", "saveTracking", "markFailed", "write", "settle", "merchantWallet",
         "platformWallet", "commit", "sync", "openWallet"},
   purchase : Purchases \union {NoPurchase},
   answer : {"unpaid", "paid", "failed"},
   wallet : [Kinds -> WalletIds \union {0}]]

\* Every variable keeps to its columns and value sets.
TypeOK ==
  /\ purchases \in [Purchases -> PurchaseRow]
  /\ provider \in [Purchases -> {"none", "pending", "failed"} \union Taken]
  /\ voucher \in [Purchases -> {"none", "live", "deleted"}]
  /\ sales \in [Purchases -> SaleRow]
  /\ wallets \in [Kinds -> SUBSET WalletIds]
  /\ radius \subseteq Purchases
  /\ req \in [Requests -> RequestState]
  /\ crashes \in 0 .. MaxCrashes
  /\ raced \in BOOLEAN

\* A purchase is booked at most once, however many polls settle it and whatever crashes between them,
\* and it is booked exactly when the customer has a voucher; FreeRADIUS knows no voucher that was not
\* sold.
DeliveredTogether ==
  \A p \in Purchases :
    /\ sales[p].booked = IF voucher[p] = "none" THEN 0 ELSE 1
    /\ p \in radius => sales[p].booked = 1

\* A row says "paid" only of money ioTec took, with the time it was, and a row ioTec knows says
\* "failed" only of money it did not take or gave back: an answer written late is old, never wrong.
\* This needs ioTec to use plain words.
StatusFollowsProvider ==
  \A p \in Purchases :
    LET row == purchases[p]
    IN  /\ row.status = "paid" => row.paidAt
        /\ row.paidAt => provider[p] \in Taken
        /\ row.status = "failed" /\ row.tracking => provider[p] \in {"failed", "reversed"}

\* The credits of a sale are in a wallet that exists, and in the one First(&wallet) finds, unless
\* two requests once looked for a missing wallet together: nothing else can split a balance.
CreditsVisible ==
  \A p \in Purchases, k \in Kinds :
    sales[p].booked > 0 =>
      /\ sales[p].wallet[k] \in wallets[k]
      /\ ~raced => \A j \in wallets[k] : sales[p].wallet[k] <= j

\* "Online hotspot purchases create their voucher after payment succeeds" (server.go).  With words
\* that are not plain the code breaks it.
VoucherAfterPayment == \A p \in Purchases : voucher[p] # "none" => provider[p] \in Taken

\* A purchase is charged, delivered and connected once each, in this order.
Delivery == INSTANCE PaidDelivery WITH
  charged <- {p \in Purchases : provider[p] \in Taken},
  delivered <- {p \in Purchases : sales[p].booked > 0},
  online <- radius

ImplementsDelivery == Delivery!Spec

\* A customer who was charged and whose order has its tracking id gets a voucher that logs in,
\* unless ioTec reverses the payment or the merchant deletes the voucher.
PaidIsDelivered ==
  \A p \in Purchases :
    purchases[p].tracking /\ provider[p] = "paid"
      ~> p \in radius \/ voucher[p] = "deleted" \/ provider[p] = "reversed"
=============================================================================
