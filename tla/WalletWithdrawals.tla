------------------------- MODULE WalletWithdrawals -------------------------
(***************************************************************************)
(* Withdrawals from the NobliFi wallets (src/internal/finance/service.go): *)
(* a merchant asks for an e-mailed code, confirms with it, the amount is   *)
(* reserved in the ledger and paid out through ioTec; the superadmin       *)
(* withdraws from the platform wallet without a code.                      *)
(*                                                                         *)
(* The API server runs each HTTP request in a goroutine over PostgreSQL at *)
(* READ COMMITTED.  req[r] is the request r in flight; a step of r is a    *)
(* statement or transaction whose effect other requests can see, or a call *)
(* to ioTec.  One merchant is modelled: codes are looked up by the         *)
(* caller's e-mail and wallets by the caller's id.                         *)
(***************************************************************************)
EXTENDS Integers, Sequences, FiniteSets

CONSTANTS Requests,            \* requests that can be in flight together
          WithdrawalIds,       \* ids of withdrawal rows (bounds their number)
          NoWithdrawal,
          Amounts,             \* amounts a caller may ask for
          MinimumWithdrawal,   \* cfg.MinimumWithdrawalUGX
          Opening,             \* wallet |-> sales already credited to it
          MaxCodes,            \* bound on auth_codes rows
          MaxCrashes           \* bound on requests that die half-way

Wallets == {"merchant", "platform"}

ASSUME ConstantsAssumption ==
  /\ NoWithdrawal \notin WithdrawalIds
  /\ Amounts \subseteq Nat
  /\ MinimumWithdrawal \in Nat
  /\ Opening \in [Wallets -> Nat]
  /\ MaxCodes \in Nat
  /\ MaxCrashes \in Nat

VARIABLES codes,        \* auth_codes rows of purpose "withdrawal", in order of created_at
          withdrawals,  \* withdrawals rows
          ledger,       \* idempotency keys of the wallet_transactions rows of withdrawals
          available,    \* wallet |-> credits - debits over its wallet_transactions rows
          payout,       \* what ioTec has done about each withdrawal
          req,          \* requests in flight
          crashes,
          overlapped    \* history: wallets for which two codes were unused together, or two
                        \* withdrawals between balance check and debit

vars == <<codes, withdrawals, ledger, available, payout, req, crashes, overlapped>>

Terminal == {"paid", "failed"}

\* The result handed to applyWithdrawalPayoutResult: "refused" is the failure made up from an
\* error of InitiatePayout, which carries no provider reference.
Answers == {"refused", "processing", "paid", "failed"}

NoRow == [status |-> "absent", wallet |-> "merchant", amount |-> 0, code |-> 0, ref |-> FALSE]

Idle == [pc |-> "idle", amount |-> 0, code |-> 0, wd |-> NoWithdrawal, answer |-> "refused"]

At(r, p) == req[r].pc = p

Unused == {c \in DOMAIN codes : ~codes[c].used}

\* Mutant: the row is read without FOR UPDATE.
NeverLocked(c) == FALSE

\* The row lock of SELECT ... FOR UPDATE, held until the confirming transaction ends.
Locked(c) == \E r \in Requests : At(r, "reserve") /\ req[r].code = c

\* uuid.New(): an id no row and no request has.
Fresh(w) == /\ withdrawals[w].status = "absent"
            /\ \A r \in Requests : req[r].wd # w

Init == /\ codes = << >>
        /\ withdrawals = [w \in WithdrawalIds |-> NoRow]
        /\ ledger = {}
        /\ available = Opening
        /\ payout = [w \in WithdrawalIds |-> "none"]
        /\ req = [r \in Requests |-> Idle]
        /\ crashes = 0
        /\ overlapped = {}

-----------------------------------------------------------------------------
(* RequestWithdrawalCode: three statements, no transaction.                *)

CodesAskedFor ==
  Len(codes) + Cardinality({r \in Requests : req[r].pc \in {"invalidate", "createCode"}})

RequestCode(r, a) ==
  /\ At(r, "idle")
  /\ CodesAskedFor < MaxCodes
  /\ a > 0 /\ a >= MinimumWithdrawal /\ a <= available["merchant"]
  /\ req' = [req EXCEPT ![r] = [Idle EXCEPT !.pc = "invalidate", !.amount = a]]
  /\ UNCHANGED <<codes, withdrawals, ledger, available, payout, crashes, overlapped>>

\* The UPDATE of used_at waits for rows a confirmation has locked.
InvalidateCodes(r) ==
  /\ At(r, "invalidate")
  /\ \A c \in Unused : ~Locked(c)
  /\ codes' = [c \in DOMAIN codes |-> [codes[c] EXCEPT !.used = TRUE]]
  /\ req' = [req EXCEPT ![r].pc = "createCode"]
  /\ UNCHANGED <<withdrawals, ledger, available, payout, crashes, overlapped>>

CreateCode(r) ==
  /\ At(r, "createCode")
  /\ codes' = Append(codes, [amount |-> req[r].amount, used |-> FALSE, expired |-> FALSE])
  /\ overlapped' = IF Unused = {} THEN overlapped ELSE overlapped \union {"merchant"}
  /\ req' = [req EXCEPT ![r] = Idle]
  /\ UNCHANGED <<withdrawals, ledger, available, payout, crashes>>

\* Fifteen minutes pass.
ExpireCode(c) ==
  /\ c \in Unused /\ ~codes[c].expired
  /\ codes' = [codes EXCEPT ![c].expired = TRUE]
  /\ UNCHANGED <<withdrawals, ledger, available, payout, req, crashes, overlapped>>

-----------------------------------------------------------------------------
(* The rows of one reservation or release: createLedger ignores a row whose *)
(* idempotency key is there already.                                        *)

\* Mutant: reservation and release share an idempotency key.
SharedLedgerKey(kind, w) == <<"reserve", w>>

LedgerKey(kind, w) == <<kind, w>>

CreateLedger(key, wallet, change) ==
  IF key \in ledger
  THEN UNCHANGED <<ledger, available>>
  ELSE /\ ledger' = ledger \union {key}
       /\ available' = [available EXCEPT ![wallet] = @ + change]

\* Create(&out) and the reserving debit, in one transaction.
ReserveWithdrawal(w, wallet, amount, code) ==
  /\ withdrawals' = [withdrawals EXCEPT ![w] =
        [status |-> "requested", wallet |-> wallet, amount |-> amount,
         code |-> code, ref |-> FALSE]]
  /\ CreateLedger(LedgerKey("reserve", w), wallet, -amount)

-----------------------------------------------------------------------------
(* ConfirmWithdrawal.  A wrong code or details that differ from the code's *)
(* end in an error and leave nothing behind.                               *)

\* SELECT ... ORDER BY created_at DESC: the row the transaction will lock.
BeginConfirm(r, a, w) ==
  /\ At(r, "idle")
  /\ Unused # {}
  /\ Fresh(w)
  /\ \E c \in Unused :
       /\ \A d \in Unused : d <= c
       /\ req' = [req EXCEPT ![r] =
                    [Idle EXCEPT !.pc = "lock", !.amount = a, !.code = c, !.wd = w]]
  /\ UNCHANGED <<codes, withdrawals, ledger, available, payout, crashes, overlapped>>

\* Mutants: the row is not checked again under the lock; the details are not compared.
CodeAcceptedUnchecked(r) ==
  LET code == codes[req[r].code] IN ~code.expired /\ code.amount = req[r].amount

CodeAcceptedAnyDetails(r) ==
  LET code == codes[req[r].code] IN ~code.used /\ ~code.expired

\* Once it holds the row PostgreSQL checks "used_at IS NULL" again; the code checks the rest.
CodeAccepted(r) ==
  LET code == codes[req[r].code]
  IN  /\ ~code.used
      /\ ~code.expired
      /\ code.amount = req[r].amount

\* validateMerchantWithdrawal inside the transaction.  The sums of credits and of debits are two
\* statements, credits first, so a commit between them only makes the balance look smaller.
BalanceCovers(r) ==
  /\ req[r].amount > 0 /\ req[r].amount >= MinimumWithdrawal
  /\ req[r].amount <= available["merchant"]

LockCode(r) ==
  /\ At(r, "lock")
  /\ ~Locked(req[r].code)
  /\ CodeAccepted(r) /\ BalanceCovers(r)
  /\ req' = [req EXCEPT ![r].pc = "reserve"]
  /\ UNCHANGED <<codes, withdrawals, ledger, available, payout, crashes, overlapped>>

RejectConfirm(r) ==
  /\ At(r, "lock")
  /\ ~Locked(req[r].code)
  /\ ~(CodeAccepted(r) /\ BalanceCovers(r))
  /\ req' = [req EXCEPT ![r] = Idle]
  /\ UNCHANGED <<codes, withdrawals, ledger, available, payout, crashes, overlapped>>

CommitConfirm(r) ==
  /\ At(r, "reserve")
  /\ codes' = [codes EXCEPT ![req[r].code].used = TRUE]
  /\ ReserveWithdrawal(req[r].wd, "merchant", req[r].amount, req[r].code)
  /\ req' = [req EXCEPT ![r] = [Idle EXCEPT !.pc = "payout", !.wd = req[r].wd]]
  /\ UNCHANGED <<payout, crashes, overlapped>>

-----------------------------------------------------------------------------
(* RequestPlatformWithdrawal: the balance is read, nothing is locked.      *)

RequestPlatformWithdrawal(r, a, w) ==
  /\ At(r, "idle")
  /\ Fresh(w)
  /\ a > 0 /\ a <= available["platform"]
  /\ req' = [req EXCEPT ![r] =
               [Idle EXCEPT !.pc = "platformReserve", !.amount = a, !.wd = w]]
  /\ overlapped' = IF \E s \in Requests : At(s, "platformReserve")
                   THEN overlapped \union {"platform"} ELSE overlapped
  /\ UNCHANGED <<codes, withdrawals, ledger, available, payout, crashes>>

CommitPlatformWithdrawal(r) ==
  /\ At(r, "platformReserve")
  /\ ReserveWithdrawal(req[r].wd, "platform", req[r].amount, 0)
  /\ req' = [req EXCEPT ![r] = [Idle EXCEPT !.pc = "payout", !.wd = req[r].wd]]
  /\ UNCHANGED <<codes, payout, crashes, overlapped>>

-----------------------------------------------------------------------------
(* initiateWithdrawalPayout, after the reservation has been committed.     *)

Answered(r, a) == req' = [req EXCEPT ![r].pc = "apply", ![r].answer = a]

\* No provider, an amount or number ioTec would not take, no token, or a refusal.
PayoutRefused(r) ==
  /\ At(r, "payout")
  /\ Answered(r, "refused")
  /\ UNCHANGED <<codes, withdrawals, ledger, available, payout, crashes, overlapped>>

PayoutAccepted(r, s) ==
  /\ At(r, "payout")
  /\ payout' = [payout EXCEPT ![req[r].wd] = s]
  /\ Answered(r, s)
  /\ UNCHANGED <<codes, withdrawals, ledger, available, crashes, overlapped>>

\* ioTec takes the payout and the answer is lost: a timeout, a reset, a body without an id.
PayoutReplyLost(r) ==
  /\ At(r, "payout")
  /\ payout' = [payout EXCEPT ![req[r].wd] = "processing"]
  /\ Answered(r, "refused")
  /\ UNCHANGED <<codes, withdrawals, ledger, available, crashes, overlapped>>

InitiatePayout(r) ==
  \/ PayoutRefused(r)
  \/ \E s \in {"processing", "paid", "failed"} : PayoutAccepted(r, s)
  \/ PayoutReplyLost(r)

\* ioTec decides a payout it has taken.
ProviderSettles(w, s) ==
  /\ payout[w] = "processing"
  /\ s \in Terminal
  /\ payout' = [payout EXCEPT ![w] = s]
  /\ UNCHANGED <<codes, withdrawals, ledger, available, req, crashes, overlapped>>

-----------------------------------------------------------------------------
(* RefreshWithdrawalStatus: the row and then ioTec are read, and the answer *)
(* is applied later, when either may have moved on.                         *)

\* Mutant: a withdrawal seen "processing" once is not asked about again.
RefreshRequestedOnly(r, w) ==
  /\ At(r, "idle")
  /\ withdrawals[w].status = "requested" /\ withdrawals[w].ref
  /\ req' = [req EXCEPT ![r] =
               [Idle EXCEPT !.pc = "apply", !.wd = w, !.answer = payout[w]]]
  /\ UNCHANGED <<codes, withdrawals, ledger, available, payout, crashes, overlapped>>

RefreshStatus(r, w) ==
  /\ At(r, "idle")
  /\ withdrawals[w].status \in {"requested", "processing"}
  /\ withdrawals[w].ref
  /\ req' = [req EXCEPT ![r] =
               [Idle EXCEPT !.pc = "apply", !.wd = w, !.answer = payout[w]]]
  /\ UNCHANGED <<codes, withdrawals, ledger, available, payout, crashes, overlapped>>

-----------------------------------------------------------------------------
(* applyWithdrawalPayoutResult: one transaction under the row's lock.      *)

\* Mutants: the raw answer is stored; an undecided payout counts as paid; a settled withdrawal is
\* updated like any other; a failure gives nothing back.
RawStatusAfter(a) == a

UnknownIsPaid(a) == CASE a = "refused" -> "failed" [] a = "processing" -> "paid" [] OTHER -> a

NeverSettled(w) == FALSE

ReleaseNothing(w) == UNCHANGED <<ledger, available>>

StatusAfter(a) == IF a = "refused" THEN "failed" ELSE a

Settled(w) == withdrawals[w].status \in Terminal

UpdateWithdrawal(w, a) ==
  withdrawals' = [withdrawals EXCEPT ![w].status = StatusAfter(a),
                                     ![w].ref = @ \/ a # "refused"]

ReleaseFunds(w) ==
  CreateLedger(LedgerKey("release", w), withdrawals[w].wallet, withdrawals[w].amount)

ApplyPayoutResult(r) ==
  LET w == req[r].wd
      a == req[r].answer
  IN  /\ At(r, "apply")
      /\ IF Settled(w)
         THEN UNCHANGED <<withdrawals, ledger, available>>
         ELSE /\ UpdateWithdrawal(w, a)
              /\ IF StatusAfter(a) = "failed"
                 THEN ReleaseFunds(w)
                 ELSE UNCHANGED <<ledger, available>>
      /\ req' = [req EXCEPT ![r] = Idle]
      /\ UNCHANGED <<codes, payout, crashes, overlapped>>

\* The instance serving r dies; PostgreSQL rolls its open transaction back.
Crash(r) ==
  /\ ~At(r, "idle")
  /\ crashes < MaxCrashes
  /\ crashes' = crashes + 1
  /\ req' = [req EXCEPT ![r] = Idle]
  /\ UNCHANGED <<codes, withdrawals, ledger, available, payout, overlapped>>

-----------------------------------------------------------------------------
RequestNext(r) ==
  \/ \E a \in Amounts : RequestCode(r, a)
  \/ InvalidateCodes(r)
  \/ CreateCode(r)
  \/ \E a \in Amounts, w \in WithdrawalIds : BeginConfirm(r, a, w)
  \/ LockCode(r)
  \/ RejectConfirm(r)
  \/ CommitConfirm(r)
  \/ \E a \in Amounts, w \in WithdrawalIds : RequestPlatformWithdrawal(r, a, w)
  \/ CommitPlatformWithdrawal(r)
  \/ InitiatePayout(r)
  \/ \E w \in WithdrawalIds : RefreshStatus(r, w)
  \/ ApplyPayoutResult(r)
  \/ Crash(r)

Next == \/ \E r \in Requests : RequestNext(r)
        \/ \E c \in DOMAIN codes : ExpireCode(c)
        \/ \E w \in WithdrawalIds, s \in Terminal : ProviderSettles(w, s)

Spec == Init /\ [][Next]_vars

\* What the liveness property assumes: goroutines run on, ioTec decides every payout it took, and
\* the dashboard asks again for the status of a withdrawal that is still open.
Fairness ==
  /\ \A r \in Requests :
       /\ WF_vars(InvalidateCodes(r)) /\ WF_vars(CreateCode(r))
       /\ WF_vars(LockCode(r) \/ RejectConfirm(r)) /\ WF_vars(CommitConfirm(r))
       /\ WF_vars(CommitPlatformWithdrawal(r))
       /\ WF_vars(InitiatePayout(r)) /\ WF_vars(ApplyPayoutResult(r))
  /\ \A w \in WithdrawalIds :
       /\ WF_vars(\E s \in Terminal : ProviderSettles(w, s))
       /\ SF_vars(\E r \in Requests : RefreshStatus(r, w))

FairSpec == Spec /\ Fairness

-----------------------------------------------------------------------------
(* Properties                                                              *)

CodeRow == [amount : Amounts, used : BOOLEAN, expired : BOOLEAN]

WithdrawalRow ==
  [status : {"absent", "requested", "processing"} \union Terminal,
   wallet : Wallets, amount : Amounts \union {0}, code : Nat, ref : BOOLEAN]

RequestState ==
  [pc : {"idle", "invalidate", "createCode", "lock", "reserve", "platformReserve",
         "payout", "apply"},
   amount : Amounts \union {0}, code : Nat,
   wd : WithdrawalIds \union {NoWithdrawal}, answer : Answers]

\* Every variable keeps to its columns and value sets.
TypeOK ==
  /\ codes \in Seq(CodeRow)
  /\ withdrawals \in [WithdrawalIds -> WithdrawalRow]
  /\ ledger \subseteq {"reserve", "release"} \X WithdrawalIds
  /\ available \in [Wallets -> Int]
  /\ payout \in [WithdrawalIds -> {"none", "processing"} \union Terminal]
  /\ req \in [Requests -> RequestState]
  /\ crashes \in 0 .. MaxCrashes
  /\ overlapped \subseteq Wallets

\* A withdrawal row and its reserving debit come together, and the debit is given back exactly for
\* the failed ones, whatever order payout answers, refreshes and crashes come in
\* (createMerchantWithdrawal, applyWithdrawalPayoutResult).
LedgerFollowsStatus ==
  \A w \in WithdrawalIds :
    /\ LedgerKey("reserve", w) \in ledger <=> withdrawals[w].status # "absent"
    /\ LedgerKey("release", w) \in ledger <=> withdrawals[w].status = "failed"

\* One e-mailed code pays for one withdrawal, however many confirmations race on it
\* (SELECT ... FOR UPDATE in ConfirmWithdrawal).
OneWithdrawalPerCode ==
  \A v, w \in WithdrawalIds :
    v # w /\ withdrawals[v].code # 0 => withdrawals[v].code # withdrawals[w].code

\* A merchant withdrawal moves the amount the e-mail named, and its code cannot be used again.
CodeMatchesWithdrawal ==
  \A w \in WithdrawalIds :
    LET row == withdrawals[w]
    IN  row.status # "absent" /\ row.wallet = "merchant" =>
          /\ row.code \in DOMAIN codes
          /\ codes[row.code].used
          /\ codes[row.code].amount = row.amount

\* A row says "paid" only of money ioTec sent, and a row with a provider reference says "failed"
\* only of money ioTec did not send; answers that arrive late change nothing.
BooksFollowProvider ==
  \A w \in WithdrawalIds :
    /\ withdrawals[w].status = "paid" => payout[w] = "paid"
    /\ withdrawals[w].status = "failed" /\ withdrawals[w].ref => payout[w] = "failed"

\* What a wallet holds is what came in less every unit of every withdrawal from it that has not
\* failed: a reservation is never lost, doubled or given back twice, whatever the requests' order.
Outgoing(x) == {w \in WithdrawalIds : /\ withdrawals[w].wallet = x
                                      /\ withdrawals[w].status \notin {"absent", "failed"}}

Withdrawn(x) == UNION {{w} \X (1 .. withdrawals[w].amount) : w \in Outgoing(x)}

FundsConserved == \A x \in Wallets : available[x] = Opening[x] - Cardinality(Withdrawn(x))

\* The merchant's balance can be overdrawn only if two codes were once unused together: a single
\* unused code makes its row lock serialize the balance check and the debit.  The platform's, which
\* nothing locks, only if two superadmin requests were once past the check together.
OverdraftNeedsOverlap == \A x \in Wallets \ overlapped : available[x] >= 0

\* The withdrawal life-cycle is kept, with its money.
Lifecycle == INSTANCE WithdrawalLifecycle WITH
  status <- [w \in WithdrawalIds |-> withdrawals[w].status],
  funds <- [w \in WithdrawalIds |->
              IF LedgerKey("release", w) \in ledger THEN "released"
              ELSE IF LedgerKey("reserve", w) \in ledger THEN "reserved" ELSE "free"]

ImplementsLifecycle == Lifecycle!Spec

\* A withdrawal ioTec answered for ends up paid or failed.
ReferencedSettles ==
  \A w \in WithdrawalIds : withdrawals[w].ref ~> Settled(w)

\* What the error "insufficient available wallet balance" of validateMerchantWithdrawal is for: a
\* merchant never withdraws more than the wallet holds.
MerchantNeverOverdrawn == available["merchant"] >= 0

\* What "Withdrawal reservation released after ioTec payout failure" says of a release: ioTec did
\* not send that money.
ReleaseMeansNotPaidOut ==
  \A w \in WithdrawalIds : LedgerKey("release", w) \in ledger => payout[w] # "paid"
=============================================================================
