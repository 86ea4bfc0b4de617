---------------------- MODULE HotspotSettlement_proofs ----------------------
(***************************************************************************)
(* Theorems about HotspotSettlement, for every number of requests and      *)
(* purchases, every price and every commission rate; those about what      *)
(* ioTec took, for plain words.                                            *)
(***************************************************************************)
EXTENDS HotspotSettlement, TLAPS

Starting(r) == req[r].pc \in {"submit", "saveTracking", "markFailed"}

Locking(r) == req[r].pc \in {"merchantWallet", "platformWallet", "commit"}

Settling(r) == Locking(r) \/ At(r, "settle") \/ At(r, "sync")

Polling(r) == Settling(r) \/ At(r, "write")

\* What an answer in plain words says of ioTec's record.
AnswerTrue(answer, outcome) ==
  /\ answer = "paid" => outcome \in Taken
  /\ answer = "failed" => outcome \in {"failed", "reversed"}

\* What a request may rely on at each of its steps: its row, ioTec's answer and its wallets.
RequestWellPlaced(r) ==
  LET p == req[r].purchase
  IN  /\ Starting(r) => /\ p \in Purchases
                        /\ purchases[p].status = "pending" /\ ~purchases[p].tracking
      /\ At(r, "submit") => provider[p] = "none"
      /\ At(r, "saveTracking") => provider[p] # "none"
      /\ Polling(r) => /\ p \in Purchases /\ purchases[p].tracking
                       /\ PlainWords => AnswerTrue(req[r].answer, provider[p])
      /\ Settling(r) => req[r].answer = "paid"
      /\ Locking(r) => /\ purchases[p].status = "paid" /\ sales[p].booked = 0
      /\ At(r, "sync") => sales[p].booked = 1
      /\ At(r, "platformWallet") \/ At(r, "commit") => req[r].wallet["merchant"] \in WalletIds
      /\ At(r, "commit") => req[r].wallet["platform"] \in WalletIds

\* One request starts an order, and one holds the lock of its row.
Exclusive ==
  \A r, s \in Requests :
    r # s /\ ((Starting(r) /\ Starting(s)) \/ (Locking(r) /\ Locking(s))) =>
      req[r].purchase # req[s].purchase

RowWellFormed(p) ==
  /\ purchases[p].status = "absent" =>
       provider[p] = "none" /\ ~purchases[p].tracking /\ ~purchases[p].paidAt
  /\ purchases[p].tracking => provider[p] # "none"

CreditsPlaced ==
  \A p \in Purchases, k \in Kinds : sales[p].booked > 0 => sales[p].wallet[k] \in wallets[k]

Known(k) == wallets[k] \union Uncommitted(k)

\* While no two requests looked for a missing wallet together, there is at most one of each kind.
NoTwins == ~raced => \A k \in Kinds : \A i, j \in Known(k) : i = j

RowsAgree == PlainWords => StatusFollowsProvider

IInv == /\ TypeOK
        /\ \A p \in Purchases : RowWellFormed(p)
        /\ \A r \in Requests : RequestWellPlaced(r)
        /\ Exclusive
        /\ DeliveredTogether
        /\ RowsAgree
        /\ CreditsPlaced
        /\ NoTwins

-----------------------------------------------------------------------------
(* Steps that only move a request.                                         *)

\* A wallet id new to a request is the only one of its kind, unless a race is on record.
NoNewTwin(old, new) ==
  \A k \in Kinds : \/ new.wallet[k] \in {0, old.wallet[k]} \union wallets[k]
                   \/ raced'
                   \/ Known(k) = {}

\* A recorded race stays recorded.
RaceKept == raced' \in BOOLEAN /\ (raced => raced')

\* The state of a request without work.
LEMMA IdleIsState == Idle \in RequestState
BY DEF Idle, NoWallet, RequestState

\* A step that moves request r to a state v that is well placed keeps the invariant: v starts or
\* locks only what r did or nobody does, and a wallet id new to v is the only one of its kind
\* unless the step has recorded a race.
LEMMA RequestMoves ==
  ASSUME IInv, NEW r \in Requests, NEW v \in RequestState,
         req' = [req EXCEPT ![r] = v],
         UNCHANGED <<purchases, provider, voucher, sales, wallets, radius>>,
         crashes' \in 0 .. MaxCrashes,
         RequestWellPlaced(r)',
         Starting(r)' => Starting(r) /\ v.purchase = req[r].purchase,
         Locking(r)' => \/ Locking(r) /\ v.purchase = req[r].purchase
                        \/ ~Locked(v.purchase),
         RaceKept,
         NoNewTwin(req[r], v)
  PROVE  IInv'
<1>1. /\ req' \in [Requests -> RequestState] /\ req'[r] = v
      /\ \A s \in Requests \ {r} : req'[s] = req[s]
  BY DEF IInv, TypeOK
<1>2. TypeOK'
  BY <1>1 DEF IInv, TypeOK, RaceKept
<1>3. /\ DeliveredTogether' /\ RowsAgree' /\ CreditsPlaced'
      /\ \A p \in Purchases : RowWellFormed(p)'
  BY DEF IInv, DeliveredTogether, RowsAgree, StatusFollowsProvider, CreditsPlaced,
         RowWellFormed
<1>4. ASSUME NEW s \in Requests PROVE RequestWellPlaced(s)'
  BY <1>1 DEF IInv, RequestWellPlaced, Starting, Locking, Settling, Polling, At
<1>5. Exclusive'
  BY <1>1 DEF IInv, Exclusive, Starting, Locking, Locked
<1>6. NoTwins'
  <2> SUFFICES ASSUME ~raced', NEW k \in Kinds,
                      NEW i \in Known(k)', NEW j \in Known(k)'
               PROVE  i = j
    BY DEF NoTwins
  <2>1. Known(k)' \subseteq Known(k) \union ({v.wallet[k]} \ {0})
    BY <1>1 DEF Known, Uncommitted
  <2>2. CASE v.wallet[k] \in {0, req[r].wallet[k]} \union wallets[k]
    <3>1. Known(k)' \subseteq Known(k)
      BY <2>1, <2>2 DEF Known, Uncommitted
    <3> QED BY <3>1 DEF IInv, NoTwins, RaceKept
  <2>3. CASE Known(k) = {}
    BY <2>1, <2>3
  <2> QED BY <2>2, <2>3 DEF NoNewTwin
<1> QED BY <1>2, <1>3, <1>4, <1>5, <1>6 DEF IInv

\* A request that ends, with an answer, an error or a crash, keeps the invariant.
LEMMA RequestEnds ==
  ASSUME IInv, NEW r \in Requests,
         req' = [req EXCEPT ![r] = Idle],
         UNCHANGED <<purchases, provider, voucher, sales, wallets, radius, raced>>,
         crashes' \in 0 .. MaxCrashes
  PROVE  IInv'
<1>1. req'[r] = Idle /\ RaceKept
  BY DEF IInv, TypeOK, RaceKept
<1>2. RequestWellPlaced(r)' /\ ~Starting(r)' /\ ~Locking(r)'
  BY <1>1 DEF RequestWellPlaced, Starting, Locking, Settling, Polling, At, Idle
<1>3. NoNewTwin(req[r], Idle)
  BY DEF NoNewTwin, Idle, NoWallet
<1> QED
  BY <1>1, <1>2, <1>3, RequestMoves, IdleIsState

\* Errors and crashes end a request.
LEMMA EndsKeep ==
  ASSUME IInv, NEW r \in Requests, RejectSettle(r) \/ SyncFails(r) \/ Crash(r)
  PROVE  IInv'
<1>1. crashes' \in 0 .. MaxCrashes
  BY ConstantsAssumption DEF IInv, TypeOK, RejectSettle, SyncFails, Crash
<1> QED
  BY <1>1, RequestEnds DEF RejectSettle, SyncFails, Crash

\* A poll carries away what ioTec says at that moment.
LEMMA PollStatusKeeps ==
  ASSUME IInv, NEW r \in Requests, NEW p \in Purchases, PollStatus(r, p)
  PROVE  IInv'
<1>0. PICK word \in Says[provider[p]] :
        req' = [req EXCEPT ![r].pc = "write", ![r].purchase = p,
                           ![r].answer = NormalizePaymentStatus(word)]
  BY DEF PollStatus
<1> DEFINE answer == NormalizePaymentStatus(word)
           v == [req[r] EXCEPT !.pc = "write", !.purchase = p,
                               !.answer = answer]
<1>1. /\ answer \in {"unpaid", "paid", "failed"}
      /\ PlainWords => AnswerTrue(answer, provider[p])
  <2>1. provider[p] \in Outcomes
    BY DEF IInv, TypeOK, RowWellFormed, PollStatus, Outcomes, Taken
  <2> QED BY <1>0, <2>1 DEF PlainWords, AnswerTrue, NormalizePaymentStatus
<1>2. /\ v \in RequestState
      /\ v.pc = "write" /\ v.purchase = p /\ v.answer = answer
      /\ v.wallet = req[r].wallet
  BY <1>1 DEF IInv, TypeOK, RequestState
<1>3. req' = [req EXCEPT ![r] = v]
  BY <1>0 DEF IInv, TypeOK
<1>4. /\ UNCHANGED <<purchases, provider, voucher, sales, wallets, radius, raced>>
      /\ crashes' \in 0 .. MaxCrashes /\ RaceKept
      /\ purchases[p].tracking
  BY DEF PollStatus, IInv, TypeOK, RaceKept
<1>5. NoNewTwin(req[r], v)
  BY <1>2 DEF NoNewTwin
<1> HIDE DEF v
<1>6. req'[r] = v
  BY <1>3 DEF IInv, TypeOK
<1>7. RequestWellPlaced(r)' /\ ~Starting(r)' /\ ~Locking(r)'
  BY <1>1, <1>2, <1>4, <1>6 DEF RequestWellPlaced, Starting, Locking, Settling, Polling, At
<1> QED
  BY <1>2, <1>3, <1>4, <1>5, <1>7, RequestMoves

\* The settling transaction has its lock, or finds that there is nothing left to book.
LEMMA BeginSettleKeeps ==
  ASSUME IInv, NEW r \in Requests, BeginSettle(r)
  PROVE  IInv'
<1> DEFINE p == req[r].purchase
           v == [req[r] EXCEPT !.pc = StepAfterLock(p)]
<1>1. p \in Purchases /\ StepAfterLock(p) \in {"sync", "merchantWallet"}
  BY DEF IInv, RequestWellPlaced, Polling, Settling, BeginSettle, StepAfterLock
<1>2. /\ v \in RequestState
      /\ v.pc = StepAfterLock(p) /\ v.purchase = p /\ v.answer = req[r].answer
      /\ v.wallet = req[r].wallet
  BY <1>1 DEF IInv, TypeOK, RequestState
<1>3. req' = [req EXCEPT ![r] = v]
  BY DEF BeginSettle, IInv, TypeOK
<1>4. /\ UNCHANGED <<purchases, provider, voucher, sales, wallets, radius, raced>>
      /\ crashes' \in 0 .. MaxCrashes /\ RaceKept
      /\ At(r, "settle") /\ ~Locked(p) /\ Settleable(p)
  BY DEF BeginSettle, IInv, TypeOK, RaceKept
<1>5. NoNewTwin(req[r], v)
  BY <1>2 DEF NoNewTwin
<1> HIDE DEF v
<1>6. req'[r] = v
  BY <1>3 DEF IInv, TypeOK
<1>7. ~Starting(r)'
  BY <1>1, <1>2, <1>6 DEF Starting
<1>8. sales[p].booked \in {0, 1}
  BY <1>1 DEF IInv, DeliveredTogether
<1>9. RequestWellPlaced(r)'
  BY <1>1, <1>2, <1>4, <1>6, <1>8
     DEF IInv, RequestWellPlaced, Starting, Locking, Settling, Polling, At, StepAfterLock,
         Settleable
<1> QED
  BY <1>2, <1>3, <1>4, <1>5, <1>7, <1>9, RequestMoves

\* A look-up finds the wallet, or makes up an id and records whether somebody else has.
LEMMA LookUpFacts ==
  ASSUME IInv, NEW k \in Kinds, NEW i \in WalletIds, LookUpWallet(k, i)
  PROVE  /\ RaceKept
         /\ i \in wallets[k] \/ raced' \/ Known(k) = {}
<1>1. raced \in BOOLEAN
  BY DEF IInv, TypeOK
<1>2. CASE WalletExists(k)
  BY <1>1, <1>2 DEF LookUpWallet, RaceKept
<1>3. CASE ~WalletExists(k)
  <2>1. raced' = (raced \/ Uncommitted(k) # {}) /\ wallets[k] = {}
    BY <1>3 DEF LookUpWallet, WalletExists
  <2> QED BY <1>1, <2>1 DEF Known, RaceKept
<1> QED BY <1>2, <1>3

\* The look-ups of the transaction, and the one of the dashboard.
LEMMA FindWalletKeeps ==
  ASSUME IInv, NEW r \in Requests, NEW i \in WalletIds, NEW k \in Kinds,
         \/ FindMerchantWallet(r, i) /\ k = "merchant"
         \/ FindPlatformWallet(r, i) /\ k = "platform"
         \/ OpenDashboard(r, k, i)
  PROVE  IInv'
<1> DEFINE next == IF At(r, "merchantWallet") THEN "platformWallet"
                   ELSE IF At(r, "platformWallet") THEN "commit" ELSE "openWallet"
           v == [req[r] EXCEPT !.pc = next, !.wallet[k] = i]
<1>1. /\ req[r] \in RequestState /\ req[r].wallet \in [Kinds -> WalletIds \union {0}]
      /\ [req[r].wallet EXCEPT ![k] = i] \in [Kinds -> WalletIds \union {0}]
  BY DEF IInv, TypeOK, RequestState
<1>2. /\ v \in RequestState
      /\ v.pc = next /\ v.purchase = req[r].purchase /\ v.answer = req[r].answer
      /\ v.wallet = [req[r].wallet EXCEPT ![k] = i]
  BY <1>1 DEF RequestState
<1>3. req' = [req EXCEPT ![r] = v]
  BY DEF FindMerchantWallet, FindPlatformWallet, OpenDashboard, At, IInv, TypeOK
<1>4. /\ UNCHANGED <<purchases, provider, voucher, sales, wallets, radius>>
      /\ crashes' \in 0 .. MaxCrashes
      /\ LookUpWallet(k, i)
      /\ \/ At(r, "merchantWallet") /\ k = "merchant"
         \/ At(r, "platformWallet") /\ k = "platform"
         \/ At(r, "idle")
  BY DEF FindMerchantWallet, FindPlatformWallet, OpenDashboard, IInv, TypeOK
<1>5. /\ RaceKept
      /\ i \in wallets[k] \/ raced' \/ Known(k) = {}
  BY <1>4, LookUpFacts
<1>6. NoNewTwin(req[r], v)
  BY <1>1, <1>2, <1>5 DEF NoNewTwin
<1>7. /\ v.wallet[k] = i
      /\ \A l \in Kinds \ {k} : v.wallet[l] = req[r].wallet[l]
  BY <1>1, <1>2
<1>8. /\ At(r, "merchantWallet") => next = "platformWallet"
      /\ At(r, "platformWallet") => next = "commit"
      /\ At(r, "idle") => next = "openWallet"
  BY DEF At
<1> HIDE DEF v, next
<1>9. req'[r] = v
  BY <1>3 DEF IInv, TypeOK
<1>10. ~Starting(r)' /\ (Locking(r)' => Locking(r) /\ v.purchase = req[r].purchase)
  BY <1>2, <1>4, <1>8, <1>9 DEF Starting, Locking, At
<1>11. RequestWellPlaced(r)'
  <2>1. CASE At(r, "idle")
    BY <1>2, <1>8, <1>9, <2>1 DEF RequestWellPlaced, Starting, Locking, Settling, Polling, At
  <2> DEFINE p == req[r].purchase
  <2>2. CASE At(r, "merchantWallet") \/ At(r, "platformWallet")
    <3>1. /\ p \in Purchases /\ purchases[p].tracking /\ req[r].answer = "paid"
          /\ PlainWords => AnswerTrue(req[r].answer, provider[p])
          /\ purchases[p].status = "paid" /\ sales[p].booked = 0
      BY <2>2 DEF IInv, RequestWellPlaced, Locking, Settling, Polling, At
    <3>2. /\ req'[r].purchase = p /\ req'[r].answer = "paid"
          /\ purchases' = purchases /\ provider' = provider /\ sales' = sales
          /\ req'[r].pc \in {"platformWallet", "commit"}
      BY <1>2, <1>4, <1>8, <1>9, <2>2, <3>1
    <3>4. req'[r].wallet["merchant"] \in WalletIds
      BY <1>2, <1>4, <1>7, <1>9, <2>2 DEF IInv, RequestWellPlaced, At, Kinds
    <3>5. req'[r].pc = "commit" => req'[r].wallet["platform"] \in WalletIds
      BY <1>4, <1>7, <1>8, <1>9, <1>2, <2>2 DEF At
    <3> QED
      BY <3>1, <3>2, <3>4, <3>5
         DEF RequestWellPlaced, Starting, Locking, Settling, Polling, At
  <2> QED BY <1>4, <2>1, <2>2
<1>12. /\ v \in RequestState /\ crashes' \in 0 .. MaxCrashes
       /\ UNCHANGED <<purchases, provider, voucher, sales, wallets, radius>>
       /\ RaceKept
  BY <1>2, <1>4, <1>5
<1> QED
  BY <1>3, <1>6, <1>10, <1>11, <1>12, RequestMoves
-----------------------------------------------------------------------------
(* Steps that change a purchase row or ioTec's records.                    *)

\* The invariant after a step that changes only purchases, provider and requests: what is left to
\* show is what it says of these three.
LEMMA RowsMove ==
  ASSUME IInv, NEW r \in Requests, NEW v \in RequestState,
         req' = [req EXCEPT ![r] = v],
         UNCHANGED <<voucher, sales, wallets, radius, crashes, raced>>,
         purchases' \in [Purchases -> PurchaseRow],
         provider' \in [Purchases -> {"none", "pending", "failed"} \union Taken],
         \A p \in Purchases : RowWellFormed(p)',
         \A s \in Requests : RequestWellPlaced(s)',
         RowsAgree', Exclusive',
         v.wallet \in {NoWallet, req[r].wallet}
  PROVE  IInv'
<1>1. /\ req' \in [Requests -> RequestState] /\ req'[r] = v
      /\ \A s \in Requests \ {r} : req'[s] = req[s]
  BY DEF IInv, TypeOK
<1>2. TypeOK'
  BY <1>1 DEF IInv, TypeOK
<1>3. DeliveredTogether' /\ CreditsPlaced'
  BY DEF IInv, DeliveredTogether, CreditsPlaced
<1>4. \A k \in Kinds : Known(k)' \subseteq Known(k)
  BY <1>1 DEF Known, Uncommitted, NoWallet
<1>5. NoTwins'
  BY <1>4 DEF IInv, NoTwins
<1> QED BY <1>2, <1>3, <1>5 DEF IInv

\* A new order has a row of its own.
LEMMA StartOrderKeeps ==
  ASSUME IInv, NEW r \in Requests, NEW p \in Purchases, StartOrder(r, p)
  PROVE  IInv'
<1> DEFINE v == [req[r] EXCEPT !.pc = "submit", !.purchase = p]
           row == [purchases[p] EXCEPT !.status = "pending"]
<1>1. v \in RequestState /\ v.pc = "submit" /\ v.purchase = p /\ v.wallet = req[r].wallet
  BY DEF IInv, TypeOK, RequestState
<1>2. /\ row \in PurchaseRow /\ row.status = "pending" /\ ~row.tracking /\ ~row.paidAt
      /\ provider[p] = "none" /\ purchases[p].status = "absent" /\ ~purchases[p].tracking
  BY DEF IInv, TypeOK, PurchaseRow, RowWellFormed, StartOrder
<1>3. /\ req' = [req EXCEPT ![r] = v]
      /\ purchases' = [purchases EXCEPT ![p] = row]
      /\ UNCHANGED <<provider, voucher, sales, wallets, radius, crashes, raced>>
      /\ At(r, "idle")
  BY DEF StartOrder, IInv, TypeOK
<1> HIDE DEF v, row
<1>4. /\ purchases' \in [Purchases -> PurchaseRow] /\ purchases'[p] = row
      /\ \A q \in Purchases \ {p} : purchases'[q] = purchases[q]
      /\ provider' \in [Purchases -> {"none", "pending", "failed"} \union Taken]
      /\ req'[r] = v /\ \A s \in Requests \ {r} : req'[s] = req[s]
  BY <1>1, <1>2, <1>3 DEF IInv, TypeOK
<1>5. \A q \in Purchases : RowWellFormed(q)'
  BY <1>2, <1>3, <1>4 DEF IInv, RowWellFormed
<1>6. \A s \in Requests \ {r} :
        /\ Starting(s) \/ Locking(s) => req[s].purchase # p
        /\ Polling(s) => req[s].purchase # p
  BY <1>2 DEF IInv, RequestWellPlaced, Polling, Settling
<1>7. ASSUME NEW s \in Requests PROVE RequestWellPlaced(s)'
  <2>1. CASE s = r
    BY <1>1, <1>2, <1>3, <1>4, <2>1
       DEF RequestWellPlaced, Starting, Locking, Settling, Polling, At
  <2>2. CASE s # r
    BY <1>3, <1>4, <1>6, <2>2
       DEF IInv, RequestWellPlaced, Starting, Locking, Settling, Polling, At
  <2> QED BY <2>1, <2>2
<1>8. RowsAgree'
  BY <1>2, <1>3, <1>4 DEF IInv, RowsAgree, StatusFollowsProvider
<1>9. Exclusive'
  BY <1>1, <1>4, <1>6 DEF IInv, Exclusive, Starting, Locking
<1> QED
  BY <1>1, <1>3, <1>4, <1>5, <1>7, <1>8, <1>9, RowsMove

\* ioTec takes the collection or not, and the request goes on to store its id or its failure.
LEMMA SubmitKeeps ==
  ASSUME IInv, NEW r \in Requests, SubmitCollection(r)
  PROVE  IInv'
<1> DEFINE p == req[r].purchase
<1>1. /\ p \in Purchases /\ purchases[p].status = "pending" /\ ~purchases[p].tracking
      /\ provider[p] = "none" /\ At(r, "submit") /\ Starting(r)
  BY DEF IInv, RequestWellPlaced, Starting, At, SubmitCollection
<1>2. PICK next \in {"saveTracking", "markFailed"} :
        /\ req' = [req EXCEPT ![r].pc = next]
        /\ \/ provider' = [provider EXCEPT ![p] = "pending"]
           \/ provider' = provider /\ next = "markFailed"
  BY DEF SubmitCollection
<1> DEFINE v == [req[r] EXCEPT !.pc = next]
<1>3. /\ v \in RequestState /\ v.pc = next /\ v.purchase = p /\ v.wallet = req[r].wallet
      /\ req' = [req EXCEPT ![r] = v]
  BY <1>2 DEF IInv, TypeOK, RequestState
<1>4. UNCHANGED <<purchases, voucher, sales, wallets, radius, crashes, raced>>
  BY DEF SubmitCollection
<1> HIDE DEF v
<1>5. /\ provider' \in [Purchases -> {"none", "pending", "failed"} \union Taken]
      /\ provider'[p] \in {"none", "pending"}
      /\ next = "saveTracking" => provider'[p] = "pending"
      /\ \A q \in Purchases \ {p} : provider'[q] = provider[q]
      /\ purchases' \in [Purchases -> PurchaseRow]
      /\ req'[r] = v /\ \A s \in Requests \ {r} : req'[s] = req[s]
  BY <1>1, <1>2, <1>3, <1>4 DEF IInv, TypeOK
<1>6. \A q \in Purchases : RowWellFormed(q)'
  BY <1>1, <1>4, <1>5 DEF IInv, RowWellFormed
<1>7. \A s \in Requests \ {r} :
        Starting(s) \/ Polling(s) => req[s].purchase # p
  <2>1. ASSUME NEW s \in Requests \ {r}, Starting(s) PROVE req[s].purchase # p
    BY <1>1, <2>1 DEF IInv, Exclusive
  <2>2. ASSUME NEW s \in Requests \ {r}, Polling(s) PROVE req[s].purchase # p
    BY <1>1, <2>2 DEF IInv, RequestWellPlaced
  <2> QED BY <2>1, <2>2
<1>8. ASSUME NEW s \in Requests PROVE RequestWellPlaced(s)'
  <2>1. CASE s = r
    BY <1>1, <1>3, <1>4, <1>5, <2>1
       DEF RequestWellPlaced, Starting, Locking, Settling, Polling, At
  <2>2. CASE s # r
    BY <1>4, <1>5, <1>7, <2>2
       DEF IInv, RequestWellPlaced, Starting, Locking, Settling, Polling, At
  <2> QED BY <2>1, <2>2
<1>9. RowsAgree'
  BY <1>1, <1>4, <1>5 DEF IInv, RowsAgree, StatusFollowsProvider, Taken
<1>10. Exclusive'
  BY <1>1, <1>3, <1>5, <1>7 DEF IInv, Exclusive, Starting, Locking, Polling, Settling
<1> QED
  BY <1>3, <1>4, <1>5, <1>6, <1>8, <1>9, <1>10, RowsMove

\* The tracking id, or the failure, of an order that nobody polls yet.
LEMMA SubmittedKeeps ==
  ASSUME IInv, NEW r \in Requests, SaveTracking(r) \/ MarkFailed(r)
  PROVE  IInv'
<1> DEFINE p == req[r].purchase
           row == purchases'[p]
<1>1. /\ p \in Purchases /\ purchases[p].status = "pending" /\ ~purchases[p].tracking
      /\ SaveTracking(r) => provider[p] # "none"
      /\ Starting(r)
  BY DEF IInv, RequestWellPlaced, Starting, At, SaveTracking, MarkFailed
<1>2. /\ req' = [req EXCEPT ![r] = Idle]
      /\ UNCHANGED <<provider, voucher, sales, wallets, radius, crashes, raced>>
  BY DEF SaveTracking, MarkFailed
<1>3. /\ purchases' \in [Purchases -> PurchaseRow]
      /\ \/ row.tracking /\ row.status = "pending" /\ provider[p] # "none"
         \/ ~row.tracking /\ row.status = "failed"
      /\ row.paidAt = purchases[p].paidAt
      /\ \A q \in Purchases \ {p} : purchases'[q] = purchases[q]
  <2>1. purchases \in [Purchases -> PurchaseRow] /\ purchases[p] \in PurchaseRow
    BY <1>1 DEF IInv, TypeOK
  <2>2. CASE SaveTracking(r)
    <3> DEFINE new == [purchases[p] EXCEPT !.tracking = TRUE]
    <3>1. /\ new \in PurchaseRow /\ new.tracking /\ new.status = "pending"
          /\ new.paidAt = purchases[p].paidAt
      BY <1>1, <2>1 DEF PurchaseRow
    <3>2. purchases' = [purchases EXCEPT ![p] = new]
      BY <2>2 DEF SaveTracking
    <3> HIDE DEF new
    <3> QED BY <1>1, <2>1, <2>2, <3>1, <3>2
  <2>3. CASE MarkFailed(r)
    <3> DEFINE new == [purchases[p] EXCEPT !.status = "failed"]
    <3>1. /\ new \in PurchaseRow /\ ~new.tracking /\ new.status = "failed"
          /\ new.paidAt = purchases[p].paidAt
      BY <1>1, <2>1 DEF PurchaseRow
    <3>2. purchases' = [purchases EXCEPT ![p] = new]
      BY <2>3 DEF MarkFailed
    <3> HIDE DEF new
    <3> QED BY <1>1, <2>1, <3>1, <3>2
  <2>4. SaveTracking(r) \/ MarkFailed(r)
    OBVIOUS
  <2> QED BY <2>2, <2>3, <2>4
<1>4. /\ provider' \in [Purchases -> {"none", "pending", "failed"} \union Taken]
      /\ req'[r] = Idle /\ \A s \in Requests \ {r} : req'[s] = req[s]
      /\ Idle.pc = "idle" /\ Idle.wallet = NoWallet
  BY <1>2 DEF IInv, TypeOK, Idle
<1> HIDE DEF row
<1>5. \A q \in Purchases : RowWellFormed(q)'
  BY <1>1, <1>2, <1>3 DEF IInv, RowWellFormed, row
<1>6. \A s \in Requests \ {r} :
        Starting(s) \/ Polling(s) => req[s].purchase # p
  <2>1. ASSUME NEW s \in Requests \ {r}, Starting(s) PROVE req[s].purchase # p
    BY <1>1, <2>1 DEF IInv, Exclusive
  <2>2. ASSUME NEW s \in Requests \ {r}, Polling(s) PROVE req[s].purchase # p
    BY <1>1, <2>2 DEF IInv, RequestWellPlaced
  <2> QED BY <2>1, <2>2
<1>7. ASSUME NEW s \in Requests PROVE RequestWellPlaced(s)'
  <2>1. CASE s = r
    BY <1>4, <2>1 DEF RequestWellPlaced, Starting, Locking, Settling, Polling, At
  <2>2. CASE s # r
    BY <1>2, <1>3, <1>4, <1>6, <2>2
       DEF IInv, RequestWellPlaced, Starting, Locking, Settling, Polling, At
  <2> QED BY <2>1, <2>2
<1>8. RowsAgree'
  BY <1>1, <1>2, <1>3 DEF IInv, RowsAgree, StatusFollowsProvider, row
<1>9. Exclusive'
  BY <1>4 DEF IInv, Exclusive, Starting, Locking
<1> QED
  BY <1>2, <1>3, <1>4, <1>5, <1>7, <1>8, <1>9, IdleIsState, RowsMove

\* A poll writes its answer, however old, to a row nobody has locked.
LEMMA WriteStatusKeeps ==
  ASSUME IInv, NEW r \in Requests, WriteStatus(r)
  PROVE  IInv'
<1> DEFINE p == req[r].purchase
           a == req[r].answer
           row == [purchases[p] EXCEPT !.status = Persisted(a), !.paidAt = @ \/ a = "paid"]
           v == IF a = "paid" THEN [req[r] EXCEPT !.pc = "settle"] ELSE Idle
<1>1. /\ p \in Purchases /\ purchases[p].tracking /\ a \in {"unpaid", "paid", "failed"}
      /\ PlainWords => AnswerTrue(a, provider[p])
      /\ At(r, "write") /\ ~Locked(p)
  BY DEF IInv, TypeOK, RequestState, RequestWellPlaced, Polling, WriteStatus
<1>2. /\ v \in RequestState /\ v.wallet \in {NoWallet, req[r].wallet}
      /\ a = "paid" => v.pc = "settle" /\ v.purchase = p /\ v.answer = "paid"
      /\ a # "paid" => v.pc = "idle"
  BY IdleIsState DEF IInv, TypeOK, RequestState, Idle
<1>3. /\ row \in PurchaseRow /\ row.tracking = purchases[p].tracking
      /\ row.status = Persisted(a) /\ row.paidAt = (purchases[p].paidAt \/ a = "paid")
  BY <1>1 DEF IInv, TypeOK, PurchaseRow, Persisted
<1>4. /\ req' = [req EXCEPT ![r] = v]
      /\ purchases' = [purchases EXCEPT ![p] = row]
      /\ UNCHANGED <<provider, voucher, sales, wallets, radius, crashes, raced>>
  BY DEF WriteStatus
<1> HIDE DEF v, row
<1>5. /\ purchases' \in [Purchases -> PurchaseRow] /\ purchases'[p] = row
      /\ \A q \in Purchases \ {p} : purchases'[q] = purchases[q]
      /\ provider' \in [Purchases -> {"none", "pending", "failed"} \union Taken]
      /\ req'[r] = v /\ \A s \in Requests \ {r} : req'[s] = req[s]
  BY <1>1, <1>2, <1>3, <1>4 DEF IInv, TypeOK
<1>6. Persisted(a) \in {"pending", "paid", "failed"}
  BY <1>1 DEF Persisted
<1>7. \A q \in Purchases : RowWellFormed(q)'
  BY <1>1, <1>3, <1>4, <1>5, <1>6 DEF IInv, RowWellFormed
<1>8. \A s \in Requests \ {r} : Starting(s) \/ Locking(s) => req[s].purchase # p
  BY <1>1 DEF IInv, RequestWellPlaced, Locked, Locking
<1>9. ASSUME NEW s \in Requests PROVE RequestWellPlaced(s)'
  <2>1. CASE s = r
    <3>1. req'[r].pc \in {"settle", "idle"}
      BY <1>2, <1>5
    <3>2. req'[r].pc = "settle" =>
            /\ req'[r].purchase = p /\ req'[r].answer = "paid"
            /\ purchases'[p].tracking /\ (PlainWords => AnswerTrue("paid", provider'[p]))
      BY <1>1, <1>2, <1>3, <1>4, <1>5
    <3> QED
      BY <1>1, <2>1, <3>1, <3>2
         DEF RequestWellPlaced, Starting, Locking, Settling, Polling, At
  <2>2. CASE s # r
    <3>1. /\ purchases'[req[s].purchase].tracking = purchases[req[s].purchase].tracking
             \/ req[s].purchase \notin Purchases
          /\ req'[s] = req[s] /\ provider' = provider /\ sales' = sales
      BY <1>3, <1>4, <1>5, <2>2
    <3> QED
      BY <1>5, <1>8, <2>2, <3>1
         DEF IInv, RequestWellPlaced, Starting, Locking, Settling, Polling, At
  <2> QED BY <2>1, <2>2
<1>10. RowsAgree'
  BY <1>1, <1>3, <1>4, <1>5 DEF IInv, RowsAgree, StatusFollowsProvider, Persisted, AnswerTrue
<1>11. Exclusive'
  BY <1>2, <1>5 DEF IInv, Exclusive, Starting, Locking
<1> QED
  BY <1>2, <1>4, <1>5, <1>7, <1>9, <1>10, <1>11, RowsMove

\* ioTec's decisions only ever add to what it took or gave back.
LEMMA ProviderDecidesKeeps ==
  ASSUME IInv, NEW p \in Purchases, ProviderDecides(p)
  PROVE  IInv'
<1>1. /\ UNCHANGED <<purchases, voucher, sales, wallets, radius, req, crashes, raced>>
      /\ provider' \in [Purchases -> {"none", "pending", "failed"} \union Taken]
      /\ provider[p] \in {"pending", "paid"}
      /\ provider'[p] \in {"paid", "failed", "reversed"}
      /\ provider[p] = "paid" => provider'[p] = "reversed"
      /\ \A q \in Purchases \ {p} : provider'[q] = provider[q]
  BY DEF ProviderDecides, IInv, TypeOK, Taken
<1>2. TypeOK'
  BY <1>1 DEF IInv, TypeOK
<1>3. /\ DeliveredTogether' /\ CreditsPlaced' /\ Exclusive' /\ NoTwins'
  BY <1>1 DEF IInv, DeliveredTogether, CreditsPlaced, Exclusive, NoTwins,
              Known, Uncommitted, Starting, Locking
<1>4. \A q \in Purchases : RowWellFormed(q)'
  BY <1>1 DEF IInv, RowWellFormed
<1>5. RowsAgree'
  BY <1>1 DEF IInv, RowsAgree, StatusFollowsProvider, Taken
<1>6. ASSUME NEW s \in Requests PROVE RequestWellPlaced(s)'
  <2> DEFINE q == req[s].purchase
  <2>1. req' = req /\ purchases' = purchases /\ sales' = sales
    BY <1>1
  <2>2. /\ q \in Purchases /\ provider[q] # "none" => provider'[q] # "none"
        /\ q \in Purchases /\ provider[q] \in Taken => provider'[q] \in Taken
        /\ q \in Purchases /\ provider[q] \in {"failed", "reversed"} => provider'[q] = provider[q]
        /\ q \in Purchases /\ provider[q] = "none" => provider'[q] = "none"
    BY <1>1 DEF Taken
  <2> QED
    BY <2>1, <2>2
       DEF IInv, RequestWellPlaced, Starting, Locking, Settling, Polling, At, AnswerTrue
<1> QED BY <1>2, <1>3, <1>4, <1>5, <1>6 DEF IInv

-----------------------------------------------------------------------------
(* Settlements, syncs, wallets and deletions.                              *)

\* The rows of a committed settlement.
Settled(r) ==
  LET p == req[r].purchase
  IN  /\ sales' \in [Purchases -> SaleRow]
      /\ sales'[p].booked = 1
      /\ sales'[p].wallet = req[r].wallet
      /\ \A q \in Purchases \ {p} : sales'[q] = sales[q]
      /\ purchases' \in [Purchases -> PurchaseRow]
      /\ purchases'[p].status = "paid" /\ purchases'[p].paidAt
      /\ purchases'[p].tracking = purchases[p].tracking
      /\ \A q \in Purchases \ {p} : purchases'[q] = purchases[q]
      /\ voucher' = [voucher EXCEPT ![p] = "live"]

\* What a committing settlement writes is well-formed and touches one purchase only.
LEMMA SettledFacts ==
  ASSUME IInv, NEW r \in Requests, CommitSettle(r)
  PROVE  Settled(r)
<1> DEFINE p == req[r].purchase
           sale == [booked |-> sales[p].booked + 1, wallet |-> req[r].wallet]
           row == [purchases[p] EXCEPT !.status = "paid", !.paidAt = TRUE]
<1>1. /\ p \in Purchases /\ sales[p].booked = 0
      /\ req[r].wallet \in [Kinds -> WalletIds \union {0}]
  BY DEF IInv, TypeOK, RequestState, RequestWellPlaced, Locking, Settling, Polling, At,
         CommitSettle
<1>3. sale \in SaleRow /\ sale.booked = 1 /\ sale.wallet = req[r].wallet
  BY <1>1 DEF SaleRow
<1>4. row \in PurchaseRow /\ row.status = "paid" /\ row.paidAt /\ row.tracking = purchases[p].tracking
  <2> DEFINE old == purchases[p]
  <2>1. old \in PurchaseRow
    BY <1>1 DEF IInv, TypeOK
  <2> HIDE DEF old
  <2>2. /\ [old EXCEPT !.status = "paid", !.paidAt = TRUE] \in PurchaseRow
        /\ [old EXCEPT !.status = "paid", !.paidAt = TRUE].status = "paid"
        /\ [old EXCEPT !.status = "paid", !.paidAt = TRUE].tracking = old.tracking
    BY <2>1 DEF PurchaseRow
  <2>3. [old EXCEPT !.status = "paid", !.paidAt = TRUE].paidAt
    BY <2>1 DEF PurchaseRow
  <2> QED BY <2>2, <2>3 DEF old
<1>5. sales' = [sales EXCEPT ![p] = sale] /\ voucher' = [voucher EXCEPT ![p] = "live"]
  BY <1>1 DEF IInv, TypeOK, SaleRow, CommitSettle, BookSale
<1>6. purchases' = [purchases EXCEPT ![p] = row]
  BY DEF CommitSettle
<1>7. sales \in [Purchases -> SaleRow] /\ purchases \in [Purchases -> PurchaseRow]
  BY DEF IInv, TypeOK
<1> HIDE DEF sale, row
<1>8. /\ sales' \in [Purchases -> SaleRow] /\ sales'[p] = sale
      /\ \A q \in Purchases \ {p} : sales'[q] = sales[q]
  BY <1>1, <1>3, <1>5, <1>7
<1>9. /\ purchases' \in [Purchases -> PurchaseRow] /\ purchases'[p] = row
      /\ \A q \in Purchases \ {p} : purchases'[q] = purchases[q]
  BY <1>1, <1>4, <1>6, <1>7
<1> QED BY <1>3, <1>4, <1>5, <1>8, <1>9 DEF Settled

\* Committing wallets makes rows of ids that were made up before.
LEMMA WalletsCommitted ==
  ASSUME IInv, NEW r \in Requests, CommitWallets(r),
         req' \in [Requests -> RequestState], req'[r].wallet = NoWallet,
         \A s \in Requests \ {r} : req'[s] = req[s]
  PROVE  /\ wallets' \in [Kinds -> SUBSET WalletIds]
         /\ \A k \in Kinds : /\ wallets[k] \subseteq wallets'[k]
                             /\ req[r].wallet[k] # 0 => req[r].wallet[k] \in wallets'[k]
                             /\ Known(k)' \subseteq Known(k)
<1>1. /\ wallets \in [Kinds -> SUBSET WalletIds]
      /\ req[r].wallet \in [Kinds -> WalletIds \union {0}]
  BY DEF IInv, TypeOK, RequestState
<1>2. \A k \in Kinds : wallets'[k] = wallets[k] \union ({req[r].wallet[k]} \ {0})
  BY DEF CommitWallets
<1>3. wallets' \in [Kinds -> SUBSET WalletIds]
  BY <1>1 DEF CommitWallets
<1>4. ASSUME NEW k \in Kinds PROVE Known(k)' \subseteq Known(k)
  <2>1. \A s \in Requests : req'[s].wallet[k] \in {0, req[s].wallet[k]}
    BY DEF NoWallet
  <2> QED BY <1>2, <2>1 DEF Known, Uncommitted
<1> QED BY <1>2, <1>3, <1>4

\* The settling transaction commits: voucher, sale and credits appear together.
LEMMA CommitSettleKeeps ==
  ASSUME IInv, NEW r \in Requests, CommitSettle(r)
  PROVE  IInv'
<1> DEFINE p == req[r].purchase
           v == [req[r] EXCEPT !.pc = "sync", !.wallet = NoWallet]
<1>1. /\ p \in Purchases /\ purchases[p].tracking
      /\ PlainWords => AnswerTrue("paid", provider[p])
      /\ req[r].answer = "paid" /\ sales[p].booked = 0 /\ Locking(r)
      /\ \A k \in Kinds : req[r].wallet[k] \in WalletIds
  BY DEF IInv, RequestWellPlaced, Locking, Settling, Polling, At, CommitSettle, Kinds
<1>2. /\ v \in RequestState /\ v.pc = "sync" /\ v.purchase = p /\ v.answer = "paid"
      /\ v.wallet = NoWallet
  BY <1>1 DEF IInv, TypeOK, RequestState, NoWallet
<1>3. /\ req' = [req EXCEPT ![r] = v] /\ CommitWallets(r)
      /\ UNCHANGED <<provider, radius, crashes, raced>>
  BY DEF CommitSettle
<1>4. Settled(r)
  BY SettledFacts
<1> HIDE DEF v
<1>5. /\ req' \in [Requests -> RequestState] /\ req'[r] = v
      /\ \A s \in Requests \ {r} : req'[s] = req[s]
  BY <1>2, <1>3 DEF IInv, TypeOK
<1>6. /\ wallets' \in [Kinds -> SUBSET WalletIds]
      /\ \A k \in Kinds : /\ wallets[k] \subseteq wallets'[k]
                          /\ req[r].wallet[k] # 0 => req[r].wallet[k] \in wallets'[k]
                          /\ Known(k)' \subseteq Known(k)
  BY <1>2, <1>3, <1>5, WalletsCommitted
<1>7. TypeOK'
  BY <1>1, <1>3, <1>4, <1>5, <1>6 DEF IInv, TypeOK, Settled
<1>8. \A q \in Purchases : RowWellFormed(q)'
  BY <1>1, <1>3, <1>4 DEF IInv, RowWellFormed, Settled
<1>9. \A s \in Requests \ {r} : Starting(s) \/ Locking(s) => req[s].purchase # p
  <2>1. ASSUME NEW s \in Requests \ {r}, Starting(s) PROVE req[s].purchase # p
    BY <1>1, <2>1 DEF IInv, RequestWellPlaced
  <2>2. ASSUME NEW s \in Requests \ {r}, Locking(s) PROVE req[s].purchase # p
    BY <1>1, <2>2 DEF IInv, Exclusive
  <2> QED BY <2>1, <2>2
<1>10. ASSUME NEW s \in Requests PROVE RequestWellPlaced(s)'
  <2>1. CASE s = r
    BY <1>1, <1>2, <1>3, <1>4, <1>5, <2>1
       DEF RequestWellPlaced, Starting, Locking, Settling, Polling, At, Settled
  <2>2. CASE s # r
    <3> DEFINE q == req[s].purchase
    <3>1. req'[s] = req[s] /\ provider' = provider
      BY <1>3, <1>5, <2>2
    <3>2. CASE q = p
      <4>1. /\ ~Starting(s) /\ ~Locking(s)
            /\ purchases'[p].tracking /\ sales'[p].booked = 1
        BY <1>1, <1>4, <1>9, <2>2, <3>2 DEF Settled
      <4> QED
        BY <3>1, <3>2, <4>1
           DEF IInv, RequestWellPlaced, Starting, Locking, Settling, Polling, At
    <3>3. CASE q # p
      <4>1. q \in Purchases => purchases'[q] = purchases[q] /\ sales'[q] = sales[q]
        BY <1>4, <3>3 DEF Settled
      <4>2. At(s, "sync") \/ Starting(s) \/ Polling(s) => q \in Purchases
        BY DEF IInv, RequestWellPlaced, Polling, Settling
      <4> QED
        BY <3>1, <4>1, <4>2
           DEF IInv, RequestWellPlaced, Starting, Locking, Settling, Polling, At
    <3> QED BY <3>2, <3>3
  <2> QED BY <2>1, <2>2
<1>11. Exclusive'
  BY <1>2, <1>5 DEF IInv, Exclusive, Starting, Locking
<1>12. DeliveredTogether'
  BY <1>3, <1>4 DEF IInv, TypeOK, DeliveredTogether, Settled
<1>13. RowsAgree'
  BY <1>1, <1>3, <1>4 DEF IInv, RowsAgree, StatusFollowsProvider, Settled, AnswerTrue
<1>15. CreditsPlaced'
  <2> SUFFICES ASSUME NEW q \in Purchases, NEW k \in Kinds, sales'[q].booked > 0
               PROVE  sales'[q].wallet[k] \in wallets'[k]
    BY DEF CreditsPlaced
  <2>1. CASE q = p
    <3>1. req[r].wallet[k] # 0
      BY <1>1, ConstantsAssumption
    <3> QED BY <1>4, <1>6, <2>1, <3>1 DEF Settled
  <2>2. CASE q # p
    BY <1>4, <1>6, <2>2 DEF IInv, CreditsPlaced, Settled
  <2> QED BY <2>1, <2>2
<1>16. NoTwins'
  BY <1>3, <1>6 DEF IInv, NoTwins
<1> QED
  BY <1>7, <1>8, <1>10, <1>11, <1>12, <1>13, <1>15, <1>16 DEF IInv

\* A dashboard's wallet row appears.
LEMMA CreateWalletKeeps ==
  ASSUME IInv, NEW r \in Requests, CreateWallet(r)
  PROVE  IInv'
<1>1. /\ req' = [req EXCEPT ![r] = Idle] /\ CommitWallets(r)
      /\ UNCHANGED <<purchases, provider, voucher, sales, radius, crashes, raced>>
  BY DEF CreateWallet
<1>2. /\ req' \in [Requests -> RequestState] /\ req'[r] = Idle
      /\ \A s \in Requests \ {r} : req'[s] = req[s]
      /\ Idle.pc = "idle" /\ Idle.wallet = NoWallet
  BY <1>1, IdleIsState DEF IInv, TypeOK, Idle
<1>3. /\ wallets' \in [Kinds -> SUBSET WalletIds]
      /\ \A k \in Kinds : wallets[k] \subseteq wallets'[k] /\ Known(k)' \subseteq Known(k)
  BY <1>1, <1>2, WalletsCommitted
<1>4. TypeOK'
  BY <1>1, <1>2, <1>3 DEF IInv, TypeOK
<1>5. /\ DeliveredTogether' /\ RowsAgree' /\ CreditsPlaced'
      /\ \A p \in Purchases : RowWellFormed(p)'
  BY <1>1, <1>3 DEF IInv, DeliveredTogether, RowsAgree, StatusFollowsProvider, CreditsPlaced, RowWellFormed
<1>6. Exclusive'
  BY <1>2 DEF IInv, Exclusive, Starting, Locking
<1>7. NoTwins'
  BY <1>1, <1>3 DEF IInv, NoTwins
<1>8. ASSUME NEW s \in Requests PROVE RequestWellPlaced(s)'
  <2>1. CASE s = r
    BY <1>2, <2>1 DEF RequestWellPlaced, Starting, Locking, Settling, Polling, At
  <2>2. CASE s # r
    BY <1>1, <1>2, <2>2
       DEF IInv, RequestWellPlaced, Starting, Locking, Settling, Polling, At
  <2> QED BY <2>1, <2>2
<1> QED BY <1>4, <1>5, <1>6, <1>7, <1>8 DEF IInv

\* A synced voucher belongs to a sale; a deletion leaves the sale alone.
LEMMA SyncRadiusKeeps ==
  ASSUME IInv, NEW r \in Requests, SyncRadius(r)
  PROVE  IInv'
<1>1. /\ req' = [req EXCEPT ![r] = Idle]
      /\ UNCHANGED <<purchases, provider, voucher, sales, wallets, crashes, raced>>
      /\ radius' = radius \union {req[r].purchase}
      /\ req[r].purchase \in Purchases /\ sales[req[r].purchase].booked = 1
  BY DEF SyncRadius, IInv, RequestWellPlaced, Polling, Settling
<1>2. /\ req' \in [Requests -> RequestState] /\ req'[r] = Idle
      /\ \A s \in Requests \ {r} : req'[s] = req[s]
      /\ Idle.pc = "idle" /\ Idle.wallet = NoWallet
  BY <1>1, IdleIsState DEF IInv, TypeOK, Idle
<1>3. TypeOK'
  BY <1>1, <1>2 DEF IInv, TypeOK
<1>4. DeliveredTogether'
  BY <1>1 DEF IInv, DeliveredTogether
<1>5. /\ RowsAgree' /\ CreditsPlaced'
      /\ \A p \in Purchases : RowWellFormed(p)'
  BY <1>1 DEF IInv, RowsAgree, StatusFollowsProvider, CreditsPlaced, RowWellFormed
<1>6. Exclusive'
  BY <1>2 DEF IInv, Exclusive, Starting, Locking
<1>7. \A k \in Kinds : Known(k)' \subseteq Known(k)
  BY <1>1, <1>2 DEF Known, Uncommitted, NoWallet
<1>8. NoTwins'
  BY <1>1, <1>7 DEF IInv, NoTwins
<1>9. ASSUME NEW s \in Requests PROVE RequestWellPlaced(s)'
  <2>1. CASE s = r
    BY <1>2, <2>1 DEF RequestWellPlaced, Starting, Locking, Settling, Polling, At
  <2>2. CASE s # r
    BY <1>1, <1>2, <2>2
       DEF IInv, RequestWellPlaced, Starting, Locking, Settling, Polling, At
  <2> QED BY <2>1, <2>2
<1> QED BY <1>3, <1>4, <1>5, <1>6, <1>8, <1>9 DEF IInv

\* Deleting a voucher takes nothing else away.
LEMMA DeleteVoucherKeeps ==
  ASSUME IInv, NEW p \in Purchases, DeleteVoucher(p)
  PROVE  IInv'
<1>1. /\ UNCHANGED <<purchases, provider, sales, wallets, radius, req, crashes, raced>>
      /\ voucher' = [voucher EXCEPT ![p] = "deleted"] /\ voucher[p] = "live"
  BY DEF DeleteVoucher
<1>2. TypeOK'
  BY <1>1 DEF IInv, TypeOK
<1>3. DeliveredTogether'
  BY <1>1 DEF IInv, TypeOK, DeliveredTogether
<1>4. /\ RowsAgree' /\ CreditsPlaced' /\ Exclusive' /\ NoTwins'
      /\ \A q \in Purchases : RowWellFormed(q)'
      /\ \A s \in Requests : RequestWellPlaced(s)'
  BY <1>1 DEF IInv, RowsAgree, StatusFollowsProvider, CreditsPlaced, RowWellFormed,
              Exclusive, NoTwins, Known, Uncommitted, RequestWellPlaced, Starting, Locking,
              Settling, Polling, At
<1> QED BY <1>2, <1>3, <1>4 DEF IInv

-----------------------------------------------------------------------------
(* The theorems.                                                           *)

\* The invariant holds at the start.
LEMMA InitEstablishes == Init => IInv
<1> SUFFICES ASSUME Init PROVE IInv
  OBVIOUS
<1>1. NoRow \in PurchaseRow /\ NoSale \in SaleRow /\ crashes \in 0 .. MaxCrashes
  BY ConstantsAssumption DEF Init, NoRow, PurchaseRow, NoSale, SaleRow, NoWallet
<1>2. TypeOK
  BY <1>1, IdleIsState DEF Init, TypeOK
<1>3. DeliveredTogether /\ RowsAgree /\ CreditsPlaced
  BY DEF Init, NoRow, NoSale, DeliveredTogether, RowsAgree, StatusFollowsProvider, CreditsPlaced
<1>4. /\ \A p \in Purchases : RowWellFormed(p)
      /\ \A r \in Requests : RequestWellPlaced(r)
      /\ Exclusive
  BY DEF Init, NoRow, Idle, RowWellFormed, RequestWellPlaced, Exclusive, Starting, Locking,
         Settling, Polling, At
<1>5. \A k \in Kinds : Known(k) = {}
  BY DEF Init, Idle, NoWallet, Known, Uncommitted
<1>6. NoTwins
  BY <1>5 DEF NoTwins
<1> QED BY <1>2, <1>3, <1>4, <1>6 DEF IInv

\* Every step keeps it.
LEMMA StepKeeps == IInv /\ [Next]_vars => IInv'
<1> SUFFICES ASSUME IInv, [Next]_vars PROVE IInv'
  OBVIOUS
<1>1. ASSUME NEW r \in Requests, RequestNext(r) PROVE IInv'
  <2>1. CASE \E p \in Purchases : StartOrder(r, p)
    BY <2>1, StartOrderKeeps
  <2>2. CASE \E p \in Purchases : PollStatus(r, p)
    BY <2>2, PollStatusKeeps
  <2>3. CASE SubmitCollection(r)
    BY <2>3, SubmitKeeps
  <2>4. CASE SaveTracking(r) \/ MarkFailed(r)
    BY <2>4, SubmittedKeeps
  <2>5. CASE WriteStatus(r)
    BY <2>5, WriteStatusKeeps
  <2>6. CASE RejectSettle(r) \/ SyncFails(r) \/ Crash(r)
    BY <2>6, EndsKeep
  <2>7. CASE BeginSettle(r)
    BY <2>7, BeginSettleKeeps
  <2>8. CASE \E i \in WalletIds : FindMerchantWallet(r, i)
    BY <2>8, FindWalletKeeps DEF Kinds
  <2>9. CASE \E i \in WalletIds : FindPlatformWallet(r, i)
    BY <2>9, FindWalletKeeps DEF Kinds
  <2>10. CASE \E k \in Kinds, i \in WalletIds : OpenDashboard(r, k, i)
    BY <2>10, FindWalletKeeps
  <2>11. CASE CommitSettle(r)
    BY <2>11, CommitSettleKeeps
  <2>12. CASE SyncRadius(r)
    BY <2>12, SyncRadiusKeeps
  <2>13. CASE CreateWallet(r)
    BY <2>13, CreateWalletKeeps
  <2> QED
    BY <1>1, <2>1, <2>2, <2>3, <2>4, <2>5, <2>6, <2>7, <2>8, <2>9, <2>10, <2>11, <2>12, <2>13
       DEF RequestNext
<1>2. CASE \E p \in Purchases : ProviderDecides(p) \/ DeleteVoucher(p)
  BY <1>2, ProviderDecidesKeeps, DeleteVoucherKeeps
<1>3. CASE UNCHANGED vars
  BY <1>3 DEF vars, IInv, TypeOK, RowWellFormed, RequestWellPlaced, Exclusive,
              DeliveredTogether, RowsAgree, StatusFollowsProvider, CreditsPlaced,
              NoTwins, Known, Uncommitted, Starting, Locking, Settling, Polling, At
<1> QED BY <1>1, <1>2, <1>3 DEF Next

\* The inductive invariant.
THEOREM Invariance == Spec => []IInv
<1>1. Init => IInv
  BY InitEstablishes
<1>2. IInv /\ [Next]_vars => IInv'
  BY StepKeeps
<1> QED BY <1>1, <1>2, PTL DEF Spec

\* Types, for every instance: the type invariant of the module.
THEOREM TypeCorrectness == Spec => []TypeOK
BY Invariance, PTL DEF IInv

\* Voucher and sale come together, and only their voucher reaches FreeRADIUS.
THEOREM DeliveredOnce == Spec => []DeliveredTogether
BY Invariance, PTL DEF IInv

\* If ioTec uses plain words, then however late its answers are written a purchase row is never ahead
\* of it.
THEOREM ProviderAgreement ==
  ASSUME PlainWords
  PROVE  Spec => []StatusFollowsProvider
<1>1. IInv => StatusFollowsProvider
  BY DEF IInv, RowsAgree
<1> QED BY <1>1, Invariance, PTL

\* Credits are where the dashboard looks, unless two look-ups of a missing wallet overlapped.
THEOREM Credits == Spec => []CreditsVisible
<1>1. IInv => CreditsVisible
  <2> SUFFICES ASSUME IInv, NEW p \in Purchases, NEW k \in Kinds, sales[p].booked > 0
               PROVE  /\ sales[p].wallet[k] \in wallets[k]
                      /\ ~raced => \A j \in wallets[k] : sales[p].wallet[k] <= j
    BY DEF CreditsVisible
  <2>1. sales[p].wallet[k] \in wallets[k]
    BY DEF IInv, CreditsPlaced
  <2>2. ASSUME ~raced, NEW j \in wallets[k] PROVE sales[p].wallet[k] <= j
    <3>1. sales[p].wallet[k] = j
      BY <2>1, <2>2 DEF IInv, NoTwins, Known
    <3>2. j \in Nat
      BY ConstantsAssumption DEF IInv, TypeOK
    <3> QED BY <3>1, <3>2
  <2> QED BY <2>1, <2>2
<1> QED BY <1>1, Invariance, PTL

-----------------------------------------------------------------------------
(* Refinement.                                                             *)

\* Every step charges, delivers or connects one purchase, or is a stutter.
LEMMA StepRefines ==
  ASSUME PlainWords, IInv, [Next]_vars
  PROVE  [Delivery!Next]_(Delivery!vars)
<1> DEFINE charged == {p \in Purchases : provider[p] \in Taken}
           delivered == {p \in Purchases : sales[p].booked > 0}
<1>1. ASSUME UNCHANGED <<provider, sales, radius>>
      PROVE  [Delivery!Next]_(Delivery!vars)
  BY <1>1 DEF Delivery!vars
<1>2. ASSUME NEW r \in Requests, RequestNext(r) PROVE [Delivery!Next]_(Delivery!vars)
  <2> DEFINE p == req[r].purchase
  <2>1. CASE SubmitCollection(r)
    <3>1. /\ p \in Purchases /\ provider[p] = "none"
          /\ provider' \in {provider, [provider EXCEPT ![p] = "pending"]}
          /\ UNCHANGED <<sales, radius>>
      BY <2>1 DEF SubmitCollection, IInv, RequestWellPlaced, Starting, At
    <3>2. charged' = charged
      BY <3>1 DEF IInv, TypeOK, Taken
    <3> QED BY <3>1, <3>2 DEF Delivery!vars
  <2>2. CASE CommitSettle(r)
    <3>1. Settled(r)
      BY <2>2, SettledFacts
    <3>2. /\ p \in Purchases /\ provider[p] \in Taken /\ sales[p].booked = 0
          /\ UNCHANGED <<provider, radius>>
      BY <2>2 DEF CommitSettle, IInv, RequestWellPlaced, Locking, Settling, Polling, At,
                   AnswerTrue
    <3>3. delivered' = delivered \union {p}
      BY <3>1, <3>2 DEF Settled
    <3>4. PICK q \in Purchases : q = p
      BY <3>2
    <3>5. Delivery!Deliver(q)
      BY <3>2, <3>3, <3>4 DEF Delivery!Deliver
    <3> QED BY <3>5 DEF Delivery!Next
  <2>3. CASE SyncRadius(r)
    <3>1. /\ p \in Purchases /\ sales[p].booked > 0
          /\ radius' = radius \union {p} /\ UNCHANGED <<provider, sales>>
      BY <2>3 DEF SyncRadius, IInv, RequestWellPlaced, Polling, Settling
    <3>2. CASE p \in radius
      <4>1. radius' = radius
        BY <3>1, <3>2
      <4> QED BY <1>1, <3>1, <4>1
    <3>3. CASE p \notin radius
      <4>1. Delivery!Connect(p)
        BY <3>1, <3>3 DEF Delivery!Connect
      <4> QED BY <3>1, <4>1 DEF Delivery!Next
    <3> QED BY <3>2, <3>3
  <2>4. CASE UNCHANGED <<provider, sales, radius>>
    BY <1>1, <2>4
  <2> QED
    BY <1>2, <2>1, <2>2, <2>3, <2>4
       DEF RequestNext, StartOrder, PollStatus, SaveTracking, MarkFailed, WriteStatus,
           RejectSettle, BeginSettle, FindMerchantWallet, FindPlatformWallet, SyncFails,
           OpenDashboard, CreateWallet, Crash
<1>3. ASSUME NEW p \in Purchases, ProviderDecides(p) PROVE [Delivery!Next]_(Delivery!vars)
  <2>1. UNCHANGED <<sales, radius>> /\ provider \in [Purchases -> {"none", "pending", "failed"} \union Taken]
    BY <1>3 DEF ProviderDecides, IInv, TypeOK
  <2>2. CASE provider[p] = "pending" /\ provider' = [provider EXCEPT ![p] = "paid"]
    <3>1. p \notin charged /\ charged' = charged \union {p}
      BY <2>1, <2>2 DEF Taken
    <3>2. Delivery!Charge(p)
      BY <2>1, <3>1 DEF Delivery!Charge
    <3> QED BY <3>2 DEF Delivery!Next
  <2>3. CASE \/ provider[p] = "pending" /\ provider' = [provider EXCEPT ![p] = "failed"]
             \/ provider[p] = "paid" /\ provider' = [provider EXCEPT ![p] = "reversed"]
    <3>1. charged' = charged
      BY <2>1, <2>3 DEF Taken
    <3> QED BY <2>1, <3>1 DEF Delivery!vars
  <2> QED BY <1>3, <2>2, <2>3 DEF ProviderDecides
<1>4. CASE \E p \in Purchases : DeleteVoucher(p)
  BY <1>1, <1>4 DEF DeleteVoucher
<1>5. CASE UNCHANGED vars
  BY <1>1, <1>5 DEF vars
<1> QED BY <1>2, <1>3, <1>4, <1>5 DEF Next

\* If ioTec uses plain words, the service implements the promise: each purchase is charged, then
\* delivered once, then connected.
THEOREM Refinement ==
  ASSUME PlainWords
  PROVE  Spec => ImplementsDelivery
<1>1. Init => Delivery!Init
  BY DEF Init, NoSale, Delivery!Init, Taken
<1>2. IInv /\ [Next]_vars => [Delivery!Next]_(Delivery!vars)
  BY StepRefines
<1> QED
  BY <1>1, <1>2, Invariance, PTL DEF Spec, ImplementsDelivery, Delivery!Spec
=============================================================================
