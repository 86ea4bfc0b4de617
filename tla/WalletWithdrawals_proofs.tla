---------------------- MODULE WalletWithdrawals_proofs ----------------------
(***************************************************************************)
(* Theorems about WalletWithdrawals, for every number of requests, codes,  *)
(* withdrawals and amounts.                                                *)
(***************************************************************************)
EXTENDS WalletWithdrawals, SequenceTheorems, FiniteSetTheorems, TLAPS

Holding == {"lock", "reserve", "platformReserve"}

\* A request that carries a withdrawal id: before the commit no row has it, at "payout" the row is
\* untouched, at "apply" the answer is not ahead of ioTec.
RequestWellPlaced(r) ==
  LET w == req[r].wd
      a == req[r].answer
  IN  /\ req[r].pc \in Holding =>
           w \in WithdrawalIds /\ withdrawals[w].status = "absent" /\ req[r].amount \in Amounts
      /\ At(r, "createCode") \/ At(r, "invalidate") => req[r].amount \in Amounts
      /\ At(r, "payout") =>
           /\ w \in WithdrawalIds
           /\ withdrawals[w].status = "requested" /\ ~withdrawals[w].ref
           /\ payout[w] = "none"
      /\ At(r, "apply") =>
           /\ w \in WithdrawalIds
           /\ withdrawals[w].status # "absent"
           /\ a = "refused" => ~withdrawals[w].ref
           /\ a # "refused" => payout[w] # "none"
           /\ a \in Terminal => payout[w] = a

\* A row's columns agree with each other and with ioTec.
RowWellFormed(w) ==
  LET row == withdrawals[w]
  IN  /\ row.status = "absent" => ~row.ref /\ payout[w] = "none" /\ row.code = 0
      /\ row.wallet = "platform" => row.code = 0
      /\ row.ref => payout[w] # "none"

\* Two requests work on one withdrawal only after ioTec's reference is stored.
SharedOnlyWithRef ==
  \A r, s \in Requests :
    r # s /\ req[r].wd = req[s].wd /\ req[r].wd # NoWithdrawal => withdrawals[req[r].wd].ref

\* A request past the lock holds an unused code of its own, for the amount it moves.
CodeHeld(r) ==
  /\ At(r, "lock") \/ At(r, "reserve") => req[r].code \in DOMAIN codes
  /\ At(r, "reserve") =>
       ~codes[req[r].code].used /\ codes[req[r].code].amount = req[r].amount

LocksExclusive ==
  \A r, s \in Requests :
    r # s /\ At(r, "reserve") /\ At(s, "reserve") => req[r].code # req[s].code

\* While no two codes were ever unused together, the one confirmation that may be past its
\* balance check is still covered.
BalanceGuarded ==
  "merchant" \notin overlapped =>
    /\ \A c, d \in Unused : c = d
    /\ available["merchant"] >= 0
    /\ \A r \in Requests : At(r, "reserve") => req[r].amount <= available["merchant"]

IInv == /\ TypeOK
        /\ LedgerFollowsStatus
        /\ \A w \in WithdrawalIds : RowWellFormed(w)
        /\ \A r \in Requests : RequestWellPlaced(r)
        /\ SharedOnlyWithRef
        /\ \A r \in Requests : CodeHeld(r)
        /\ LocksExclusive
        /\ CodeMatchesWithdrawal
        /\ OneWithdrawalPerCode
        /\ BooksFollowProvider
        /\ BalanceGuarded

-----------------------------------------------------------------------------
(* Steps that only move a request.                                         *)

\* A step that only moves request r to a state v that is well placed, shares no withdrawal without
\* a reference and, past the lock, holds a code nobody else holds, keeps the invariant.
LEMMA RequestMoves ==
  ASSUME IInv, NEW r \in Requests, NEW v \in RequestState,
         req' = [req EXCEPT ![r] = v],
         UNCHANGED <<codes, withdrawals, ledger, available, payout>>,
         overlapped' \in {overlapped, overlapped \union {"platform"}},
         crashes' \in 0 .. MaxCrashes,
         RequestWellPlaced(r)', CodeHeld(r)',
         \/ v.wd = NoWithdrawal \/ Fresh(v.wd) \/ v.wd = req[r].wd
         \/ v.wd \in WithdrawalIds /\ withdrawals[v.wd].ref,
         v.pc = "reserve" => ~Locked(v.code) /\ v.amount <= available["merchant"]
  PROVE  IInv'
<1> USE DEF At
<1>1. TypeOK'
  BY DEF IInv, TypeOK, Wallets
<1>2. /\ LedgerFollowsStatus' /\ CodeMatchesWithdrawal'
      /\ OneWithdrawalPerCode' /\ BooksFollowProvider'
  BY DEF IInv, LedgerFollowsStatus, CodeMatchesWithdrawal, OneWithdrawalPerCode,
         BooksFollowProvider
<1>3. ASSUME NEW w \in WithdrawalIds PROVE RowWellFormed(w)'
  BY DEF IInv, RowWellFormed
<1>4. ASSUME NEW s \in Requests PROVE RequestWellPlaced(s)' /\ CodeHeld(s)'
  <2>1. CASE s = r
    BY <2>1
  <2>2. CASE s # r
    BY <2>2 DEF IInv, TypeOK, RequestWellPlaced, CodeHeld
  <2> QED BY <2>1, <2>2
<1>5. SharedOnlyWithRef'
  BY DEF IInv, TypeOK, SharedOnlyWithRef, Fresh
<1>6. LocksExclusive'
  BY DEF IInv, TypeOK, LocksExclusive, Locked
<1>7. BalanceGuarded'
  BY DEF IInv, TypeOK, BalanceGuarded, Unused
<1> QED
  BY <1>1, <1>2, <1>3, <1>4, <1>5, <1>6, <1>7 DEF IInv

\* The state of a request without work.
LEMMA IdleIsState == Idle \in RequestState
BY DEF Idle, RequestState, Answers

\* A request that ends, with an error or by a crash, keeps the invariant.
LEMMA RequestEnds ==
  ASSUME IInv, NEW r \in Requests,
         req' = [req EXCEPT ![r] = Idle],
         UNCHANGED <<codes, withdrawals, ledger, available, payout, overlapped>>,
         crashes' \in 0 .. MaxCrashes
  PROVE  IInv'
<1>1. req'[r] = Idle
  BY DEF IInv, TypeOK
<1>2. RequestWellPlaced(r)' /\ CodeHeld(r)'
  BY <1>1 DEF RequestWellPlaced, CodeHeld, Idle, At, Holding
<1> QED
  BY <1>2, RequestMoves, IdleIsState DEF Idle

\* A code request that has been validated has written nothing.
LEMMA RequestCodeKeeps ==
  ASSUME IInv, NEW r \in Requests, NEW a \in Amounts, RequestCode(r, a)
  PROVE  IInv'
<1> DEFINE v == [Idle EXCEPT !.pc = "invalidate", !.amount = a]
<1>1. /\ v \in RequestState
      /\ v.pc = "invalidate" /\ v.amount = a /\ v.wd = NoWithdrawal
  BY DEF Idle, RequestState, Answers
<1>2. req' = [req EXCEPT ![r] = v] /\ req'[r] = v /\ crashes' \in 0 .. MaxCrashes
  BY DEF RequestCode, IInv, TypeOK
<1>3. RequestWellPlaced(r)' /\ CodeHeld(r)'
  BY <1>1, <1>2 DEF RequestWellPlaced, CodeHeld, At, Holding
<1> QED
  BY <1>1, <1>2, <1>3, RequestMoves DEF RequestCode

\* A confirmation that has read the request body has written nothing.
LEMMA BeginConfirmKeeps ==
  ASSUME IInv, NEW r \in Requests, NEW a \in Amounts, NEW w \in WithdrawalIds,
         BeginConfirm(r, a, w)
  PROVE  IInv'
<1>1. PICK c \in Unused :
        req' = [req EXCEPT ![r] =
                  [Idle EXCEPT !.pc = "lock", !.amount = a, !.code = c, !.wd = w]]
  BY DEF BeginConfirm
<1> DEFINE v == [Idle EXCEPT !.pc = "lock", !.amount = a, !.code = c, !.wd = w]
<1>2. c \in DOMAIN codes /\ c \in Nat
  BY LenProperties DEF Unused, IInv, TypeOK
<1>3. /\ v \in RequestState
      /\ v.pc = "lock" /\ v.amount = a /\ v.code = c /\ v.wd = w
  BY <1>2 DEF Idle, RequestState, Answers
<1>4. req'[r] = v /\ crashes' \in 0 .. MaxCrashes
  BY <1>1 DEF BeginConfirm, IInv, TypeOK
<1>5. RequestWellPlaced(r)'
  BY <1>3, <1>4 DEF RequestWellPlaced, At, Holding, BeginConfirm, Fresh
<1>6. CodeHeld(r)'
  BY <1>2, <1>3, <1>4 DEF CodeHeld, At, BeginConfirm
<1>7. Fresh(v.wd)
  BY <1>3 DEF BeginConfirm
<1>8. UNCHANGED <<codes, withdrawals, ledger, available, payout, overlapped>>
  BY DEF BeginConfirm
<1> HIDE DEF v
<1> QED
  BY <1>1, <1>3, <1>4, <1>5, <1>6, <1>7, <1>8, RequestMoves DEF v

\* The confirming transaction gets the lock of a code nobody else has locked.
LEMMA LockCodeKeeps ==
  ASSUME IInv, NEW r \in Requests, LockCode(r)
  PROVE  IInv'
<1> DEFINE v == [req[r] EXCEPT !.pc = "reserve"]
<1>1. /\ v \in RequestState
      /\ v.pc = "reserve" /\ v.amount = req[r].amount /\ v.code = req[r].code
      /\ v.wd = req[r].wd
  BY DEF IInv, TypeOK, RequestState
<1>2. req' = [req EXCEPT ![r] = v] /\ req'[r] = v /\ crashes' \in 0 .. MaxCrashes
  BY DEF LockCode, IInv, TypeOK
<1>3. RequestWellPlaced(r)'
  BY <1>1, <1>2 DEF RequestWellPlaced, At, Holding, LockCode, IInv
<1>4. CodeHeld(r)'
  BY <1>1, <1>2 DEF CodeHeld, CodeAccepted, At, LockCode, IInv
<1>5. ~Locked(v.code) /\ v.amount <= available["merchant"]
  BY <1>1 DEF LockCode, BalanceCovers
<1>6. UNCHANGED <<codes, withdrawals, ledger, available, payout, overlapped>>
  BY DEF LockCode
<1> HIDE DEF v
<1> QED
  BY <1>1, <1>2, <1>3, <1>4, <1>5, <1>6, RequestMoves

\* A platform withdrawal starts with a balance read outside its transaction.
LEMMA RequestPlatformKeeps ==
  ASSUME IInv, NEW r \in Requests, NEW a \in Amounts, NEW w \in WithdrawalIds,
         RequestPlatformWithdrawal(r, a, w)
  PROVE  IInv'
<1> DEFINE v == [Idle EXCEPT !.pc = "platformReserve", !.amount = a, !.wd = w]
<1>1. /\ v \in RequestState
      /\ v.pc = "platformReserve" /\ v.amount = a /\ v.wd = w
  BY DEF Idle, RequestState, Answers
<1>2. req' = [req EXCEPT ![r] = v] /\ req'[r] = v /\ crashes' \in 0 .. MaxCrashes
  BY DEF RequestPlatformWithdrawal, IInv, TypeOK
<1>3. RequestWellPlaced(r)' /\ CodeHeld(r)'
  BY <1>1, <1>2 DEF RequestWellPlaced, CodeHeld, At, Holding, RequestPlatformWithdrawal, Fresh
<1>4. Fresh(v.wd)
  BY <1>1 DEF RequestPlatformWithdrawal
<1>5. /\ UNCHANGED <<codes, withdrawals, ledger, available, payout>>
      /\ overlapped' \in {overlapped, overlapped \union {"platform"}}
  BY DEF RequestPlatformWithdrawal
<1> HIDE DEF v
<1> QED
  BY <1>1, <1>2, <1>3, <1>4, <1>5, RequestMoves

\* ioTec refuses the payout: nothing was paid, and the request goes on to release.
LEMMA PayoutRefusedKeeps ==
  ASSUME IInv, NEW r \in Requests, PayoutRefused(r)
  PROVE  IInv'
<1> DEFINE v == [req[r] EXCEPT !.pc = "apply", !.answer = "refused"]
<1>1. /\ v \in RequestState
      /\ v.pc = "apply" /\ v.answer = "refused" /\ v.wd = req[r].wd
  BY DEF IInv, TypeOK, RequestState, Answers
<1>2. req' = [req EXCEPT ![r] = v] /\ req'[r] = v /\ crashes' \in 0 .. MaxCrashes
  BY DEF PayoutRefused, Answered, IInv, TypeOK
<1>3. RequestWellPlaced(r)' /\ CodeHeld(r)'
  BY <1>1, <1>2 DEF RequestWellPlaced, CodeHeld, At, Holding, PayoutRefused, IInv, Terminal
<1>4. UNCHANGED <<codes, withdrawals, ledger, available, payout, overlapped>>
  BY DEF PayoutRefused
<1> HIDE DEF v
<1> QED
  BY <1>1, <1>2, <1>3, <1>4, RequestMoves

\* A status check carries away what ioTec says at that moment.
LEMMA RefreshStatusKeeps ==
  ASSUME IInv, NEW r \in Requests, NEW w \in WithdrawalIds, RefreshStatus(r, w)
  PROVE  IInv'
<1> DEFINE v == [Idle EXCEPT !.pc = "apply", !.wd = w, !.answer = payout[w]]
<1>1. payout[w] \in {"processing", "paid", "failed"}
  BY DEF IInv, TypeOK, RowWellFormed, RefreshStatus, Terminal
<1>2. /\ v \in RequestState
      /\ v.pc = "apply" /\ v.answer = payout[w] /\ v.wd = w
  BY <1>1 DEF Idle, RequestState, Answers
<1>3. req' = [req EXCEPT ![r] = v] /\ req'[r] = v /\ crashes' \in 0 .. MaxCrashes
  BY DEF RefreshStatus, IInv, TypeOK
<1>4. RequestWellPlaced(r)' /\ CodeHeld(r)'
  BY <1>1, <1>2, <1>3 DEF RequestWellPlaced, CodeHeld, At, Holding, RefreshStatus
<1>5. UNCHANGED <<codes, withdrawals, ledger, available, payout, overlapped>>
  BY DEF RefreshStatus
<1>6. v.wd \in WithdrawalIds /\ withdrawals[v.wd].ref
  BY <1>2 DEF RefreshStatus
<1> HIDE DEF v
<1> QED
  BY <1>2, <1>3, <1>4, <1>5, <1>6, RequestMoves

\* A rejected confirmation and a crash end the request.
LEMMA RejectAndCrashKeep ==
  ASSUME IInv, NEW r \in Requests, RejectConfirm(r) \/ Crash(r)
  PROVE  IInv'
<1>1. crashes' \in 0 .. MaxCrashes
  BY ConstantsAssumption DEF IInv, TypeOK, RejectConfirm, Crash
<1> QED
  BY <1>1, RequestEnds DEF RejectConfirm, Crash

-----------------------------------------------------------------------------
(* Steps that change the codes.                                            *)

\* The codes a new request invalidates are not those a transaction has locked.
LEMMA InvalidateCodesKeeps ==
  ASSUME IInv, NEW r \in Requests, InvalidateCodes(r)
  PROVE  IInv'
<1> DEFINE n == Len(codes)
<1>1. n \in Nat /\ codes \in [1 .. n -> CodeRow] /\ DOMAIN codes = 1 .. n
  BY LenProperties DEF IInv, TypeOK
<1>2. /\ codes' = [c \in 1 .. n |-> [codes[c] EXCEPT !.used = TRUE]]
      /\ DOMAIN codes' = 1 .. n
      /\ \A c \in 1 .. n : /\ codes'[c] \in CodeRow
                           /\ codes'[c].used
                           /\ codes'[c].amount = codes[c].amount
  BY <1>1 DEF InvalidateCodes, CodeRow
<1>3. codes' \in Seq(CodeRow)
  BY <1>1, <1>2, IsASeq
<1>4. /\ req' = [req EXCEPT ![r].pc = "createCode"]
      /\ UNCHANGED <<withdrawals, ledger, available, payout, crashes, overlapped>>
      /\ At(r, "invalidate")
  BY DEF InvalidateCodes
<1>5. req' \in [Requests -> RequestState]
  BY <1>4 DEF IInv, TypeOK, RequestState
<1>6. TypeOK'
  BY <1>3, <1>4, <1>5 DEF IInv, TypeOK
<1>7. LedgerFollowsStatus' /\ OneWithdrawalPerCode' /\ BooksFollowProvider'
  BY <1>4 DEF IInv, LedgerFollowsStatus, OneWithdrawalPerCode, BooksFollowProvider
<1>8. CodeMatchesWithdrawal'
  BY <1>1, <1>2, <1>4 DEF IInv, CodeMatchesWithdrawal
<1>9. ASSUME NEW w \in WithdrawalIds PROVE RowWellFormed(w)'
  BY <1>4 DEF IInv, RowWellFormed
<1>10. ASSUME NEW s \in Requests PROVE RequestWellPlaced(s)'
  BY <1>4 DEF IInv, TypeOK, RequestWellPlaced, At, Holding
<1>11. SharedOnlyWithRef'
  BY <1>4 DEF IInv, TypeOK, SharedOnlyWithRef
<1>12. \A s \in Requests : ~At(s, "reserve")
  BY <1>1 DEF IInv, CodeHeld, InvalidateCodes, Locked, Unused, At
<1>13. \A s \in Requests : ~At(s, "reserve")'
  BY <1>4, <1>12 DEF IInv, TypeOK, At
<1>14. ASSUME NEW s \in Requests PROVE CodeHeld(s)'
  <2>1. req'[s].code = req[s].code /\ (At(s, "lock")' => At(s, "lock"))
    BY <1>4 DEF IInv, TypeOK, At
  <2> QED
    BY <1>1, <1>2, <1>13, <2>1 DEF IInv, CodeHeld
<1>15. LocksExclusive'
  BY <1>13 DEF LocksExclusive
<1>16. Unused' = {}
  BY <1>2 DEF Unused
<1>17. BalanceGuarded'
  BY <1>4, <1>13, <1>16 DEF IInv, BalanceGuarded
<1> QED
  BY <1>6, <1>7, <1>8, <1>9, <1>10, <1>11, <1>14, <1>15, <1>17 DEF IInv

\* The new code is unused and belongs to no withdrawal.
LEMMA CreateCodeKeeps ==
  ASSUME IInv, NEW r \in Requests, CreateCode(r)
  PROVE  IInv'
<1> DEFINE n == Len(codes)
           row == [amount |-> req[r].amount, used |-> FALSE, expired |-> FALSE]
<1>1. n \in Nat /\ codes \in Seq(CodeRow) /\ DOMAIN codes = 1 .. n
  BY LenProperties DEF IInv, TypeOK
<1>2. row \in CodeRow
  BY DEF IInv, RequestWellPlaced, CreateCode, CodeRow
<1>3. /\ codes' = Append(codes, row)
      /\ codes' \in Seq(CodeRow) /\ Len(codes') = n + 1
      /\ \A c \in 1 .. n : codes'[c] = codes[c]
      /\ codes'[n + 1] = row
  BY <1>1, <1>2, AppendProperties DEF CreateCode
<1>4. DOMAIN codes' = 1 .. n + 1
  BY <1>3, LenProperties
<1>5. DOMAIN codes \subseteq DOMAIN codes' /\ \A c \in DOMAIN codes : codes'[c] = codes[c]
  BY <1>1, <1>3, <1>4
<1>6. /\ req' = [req EXCEPT ![r] = Idle]
      /\ UNCHANGED <<withdrawals, ledger, available, payout, crashes>>
      /\ overlapped' = IF Unused = {} THEN overlapped ELSE overlapped \union {"merchant"}
  BY DEF CreateCode
<1>7. /\ req'[r].pc = "idle" /\ req'[r].wd = NoWithdrawal
      /\ \A s \in Requests \ {r} : req'[s] = req[s]
      /\ req' \in [Requests -> RequestState]
  BY <1>6, IdleIsState DEF IInv, TypeOK, Idle
<1>8. TypeOK'
  BY <1>3, <1>6, <1>7 DEF IInv, TypeOK, Wallets
<1>9. LedgerFollowsStatus' /\ OneWithdrawalPerCode' /\ BooksFollowProvider'
  BY <1>6 DEF IInv, LedgerFollowsStatus, OneWithdrawalPerCode, BooksFollowProvider
<1>10. CodeMatchesWithdrawal'
  BY <1>5, <1>6 DEF IInv, CodeMatchesWithdrawal
<1>11. ASSUME NEW w \in WithdrawalIds PROVE RowWellFormed(w)'
  BY <1>6 DEF IInv, RowWellFormed
<1>12. ASSUME NEW s \in Requests PROVE RequestWellPlaced(s)' /\ CodeHeld(s)'
  BY <1>5, <1>6, <1>7 DEF IInv, RequestWellPlaced, CodeHeld, At, Holding
<1>13. SharedOnlyWithRef' /\ LocksExclusive'
  BY <1>6, <1>7 DEF IInv, SharedOnlyWithRef, LocksExclusive, At
<1>14. BalanceGuarded'
  <2> SUFFICES ASSUME "merchant" \notin overlapped' PROVE BalanceGuarded'
    BY DEF BalanceGuarded
  <2>1. "merchant" \notin overlapped /\ Unused = {}
    BY <1>6
  <2>2. Unused' \subseteq {n + 1}
    BY <1>1, <1>3, <1>4, <2>1 DEF Unused
  <2>3. \A s \in Requests : ~At(s, "reserve")'
    BY <1>7, <2>1 DEF IInv, CodeHeld, Unused, At
  <2> QED
    BY <1>6, <2>1, <2>2, <2>3 DEF IInv, BalanceGuarded
<1> QED
  BY <1>8, <1>9, <1>10, <1>11, <1>12, <1>13, <1>14 DEF IInv

\* A code that expires was unused, and no withdrawal points at it.
LEMMA ExpireCodeKeeps ==
  ASSUME IInv, NEW c \in DOMAIN codes, ExpireCode(c)
  PROVE  IInv'
<1> DEFINE n == Len(codes)
           row == [codes[c] EXCEPT !.expired = TRUE]
<1>1. codes \in Seq(CodeRow) /\ DOMAIN codes = 1 .. n /\ codes[c] \in CodeRow
  BY LenProperties, ElementOfSeq DEF IInv, TypeOK
<1>2. row \in CodeRow /\ row.used = codes[c].used /\ row.amount = codes[c].amount
  BY <1>1 DEF CodeRow
<1>3. codes' = [codes EXCEPT ![c] = row]
  BY DEF ExpireCode
<1>4. /\ codes' \in Seq(CodeRow) /\ DOMAIN codes' = DOMAIN codes
      /\ \A d \in DOMAIN codes : /\ codes'[d].used = codes[d].used
                                 /\ codes'[d].amount = codes[d].amount
  <2> HIDE DEF row
  <2> QED BY <1>1, <1>2, <1>3, ExceptSeq
<1>5. UNCHANGED <<withdrawals, ledger, available, payout, req, crashes, overlapped>>
  BY DEF ExpireCode
<1>6. Unused' = Unused
  BY <1>4 DEF Unused
<1>7. TypeOK'
  BY <1>4, <1>5 DEF IInv, TypeOK
<1>8. /\ LedgerFollowsStatus' /\ OneWithdrawalPerCode' /\ BooksFollowProvider'
      /\ SharedOnlyWithRef' /\ LocksExclusive'
      /\ \A w \in WithdrawalIds : RowWellFormed(w)'
  BY <1>5 DEF IInv, LedgerFollowsStatus, OneWithdrawalPerCode, BooksFollowProvider,
              SharedOnlyWithRef, LocksExclusive, RowWellFormed, At
<1>9. CodeMatchesWithdrawal'
  BY <1>4, <1>5 DEF IInv, CodeMatchesWithdrawal
<1>10. ASSUME NEW s \in Requests PROVE RequestWellPlaced(s)' /\ CodeHeld(s)'
  BY <1>4, <1>5 DEF IInv, RequestWellPlaced, CodeHeld, At, Holding
<1>11. BalanceGuarded'
  BY <1>5, <1>6 DEF IInv, BalanceGuarded, At
<1> QED
  BY <1>7, <1>8, <1>9, <1>10, <1>11 DEF IInv

-----------------------------------------------------------------------------
(* Reservations.                                                           *)

\* The common part of CommitConfirm and CommitPlatformWithdrawal.
Reserves(r, x, code) ==
  /\ ReserveWithdrawal(req[r].wd, x, req[r].amount, code)
  /\ req' = [req EXCEPT ![r] = [Idle EXCEPT !.pc = "payout", !.wd = req[r].wd]]

\* What it does to the row, the ledger and the request.
ReservationDone(r, x, code) ==
  LET w == req[r].wd
      amount == req[r].amount
  IN  /\ w \in WithdrawalIds /\ withdrawals[w].status = "absent" /\ amount \in Amounts
      /\ withdrawals' \in [WithdrawalIds -> WithdrawalRow]
      /\ withdrawals'[w] = [status |-> "requested", wallet |-> x, amount |-> amount,
                            code |-> code, ref |-> FALSE]
      /\ \A v \in WithdrawalIds \ {w} : withdrawals'[v] = withdrawals[v]
      /\ ledger' = ledger \union {<<"reserve", w>>}
      /\ available' = [available EXCEPT ![x] = @ - amount]
      /\ available' \in [Wallets -> Int]
      /\ req' \in [Requests -> RequestState]
      /\ req'[r].pc = "payout" /\ req'[r].wd = w
      /\ \A s \in Requests \ {r} : req'[s] = req[s]
      /\ \A s \in Requests \ {r} : req'[s].wd # w

\* The rows a reservation inserts: a requested withdrawal and its debit.
LEMMA ReservationFacts ==
  ASSUME IInv, NEW r \in Requests, NEW x \in Wallets, NEW code \in Nat,
         req[r].pc \in Holding, Reserves(r, x, code)
  PROVE  ReservationDone(r, x, code)
<1> DEFINE w == req[r].wd
           amount == req[r].amount
<1>1. w \in WithdrawalIds /\ withdrawals[w].status = "absent" /\ amount \in Amounts
  BY DEF IInv, RequestWellPlaced
<1>2. <<"reserve", w>> \notin ledger
  BY <1>1 DEF IInv, LedgerFollowsStatus, LedgerKey
<1>3. ledger' = ledger \union {<<"reserve", w>>}
  BY <1>2 DEF Reserves, ReserveWithdrawal, CreateLedger, LedgerKey
<1>4. available' = [available EXCEPT ![x] = @ - amount] /\ available' \in [Wallets -> Int]
  <2>1. available' = [available EXCEPT ![x] = @ + (-amount)]
    BY <1>2 DEF Reserves, ReserveWithdrawal, CreateLedger, LedgerKey
  <2>2. available \in [Wallets -> Int] /\ amount \in Nat
    BY <1>1, ConstantsAssumption DEF IInv, TypeOK
  <2>3. available[x] + (-amount) = available[x] - amount
    BY <2>2
  <2>4. available' = [available EXCEPT ![x] = @ - amount]
    BY <2>1, <2>3, Zenon
  <2> QED BY <2>2, <2>4
<1> DEFINE row == [status |-> "requested", wallet |-> x, amount |-> amount,
                   code |-> code, ref |-> FALSE]
           state == [Idle EXCEPT !.pc = "payout", !.wd = w]
<1>5. row \in WithdrawalRow
  BY <1>1 DEF WithdrawalRow
<1>6. withdrawals' = [withdrawals EXCEPT ![w] = row]
  BY DEF Reserves, ReserveWithdrawal
<1>7. state \in RequestState /\ state.pc = "payout" /\ state.wd = w
  BY <1>1 DEF Idle, RequestState, Answers
<1>8. withdrawals \in [WithdrawalIds -> WithdrawalRow] /\ req \in [Requests -> RequestState]
  BY DEF IInv, TypeOK
<1>9. \A s \in Requests \ {r} : req[s].wd # w
  BY <1>1, ConstantsAssumption DEF IInv, SharedOnlyWithRef, RowWellFormed
<1> HIDE DEF row, state
<1>10. /\ withdrawals' \in [WithdrawalIds -> WithdrawalRow]
       /\ withdrawals'[w] = row
       /\ \A v \in WithdrawalIds \ {w} : withdrawals'[v] = withdrawals[v]
  BY <1>1, <1>5, <1>6, <1>8
<1>11. req' = [req EXCEPT ![r] = state]
  BY DEF Reserves, state
<1>12. /\ req' \in [Requests -> RequestState] /\ req'[r] = state
       /\ \A s \in Requests \ {r} : req'[s] = req[s]
  BY <1>7, <1>8, <1>11
<1> QED
  BY <1>1, <1>3, <1>4, <1>7, <1>9, <1>10, <1>12 DEF row, ReservationDone

\* The part of the invariant a reservation keeps whatever wallet it is for.
LEMMA ReservationKeeps ==
  ASSUME IInv, NEW r \in Requests, NEW x \in Wallets, NEW code \in Nat,
         req[r].pc \in Holding, x = "platform" => code = 0,
         Reserves(r, x, code),
         UNCHANGED <<payout, crashes, overlapped>>
  PROVE  /\ LedgerFollowsStatus' /\ BooksFollowProvider' /\ SharedOnlyWithRef'
         /\ \A v \in WithdrawalIds : RowWellFormed(v)'
         /\ \A s \in Requests : RequestWellPlaced(s)'
<1> DEFINE w == req[r].wd
           amount == req[r].amount
<1>1. /\ w \in WithdrawalIds /\ withdrawals[w].status = "absent" /\ amount \in Amounts
      /\ withdrawals'[w] = [status |-> "requested", wallet |-> x, amount |-> amount,
                            code |-> code, ref |-> FALSE]
      /\ \A v \in WithdrawalIds \ {w} : withdrawals'[v] = withdrawals[v]
      /\ ledger' = ledger \union {<<"reserve", w>>}
      /\ req'[r].pc = "payout" /\ req'[r].wd = w
      /\ \A s \in Requests \ {r} : req'[s] = req[s]
      /\ \A s \in Requests \ {r} : req'[s].wd # w
  BY ReservationFacts DEF ReservationDone
<1>2. withdrawals'[w].status = "requested" /\ ~withdrawals'[w].ref
  BY <1>1
<1>3. LedgerFollowsStatus'
  BY <1>1, <1>2 DEF IInv, LedgerFollowsStatus, LedgerKey
<1>4. BooksFollowProvider'
  BY <1>1, <1>2 DEF IInv, BooksFollowProvider
<1>5. SharedOnlyWithRef'
  <2> SUFFICES ASSUME NEW s \in Requests, NEW t \in Requests, s # t,
                      req'[s].wd = req'[t].wd, req'[s].wd # NoWithdrawal
               PROVE  withdrawals'[req'[s].wd].ref
    BY DEF SharedOnlyWithRef
  <2>1. s # r /\ t # r
    BY <1>1
  <2>2. req'[s].wd # w /\ req'[s] = req[s] /\ req'[t] = req[t]
    BY <1>1, <2>1
  <2>3. withdrawals[req[s].wd].ref /\ req[s].wd \in WithdrawalIds
    BY <2>2 DEF IInv, SharedOnlyWithRef, TypeOK, RequestState
  <2> QED BY <1>1, <2>2, <2>3
<1>6. ASSUME NEW v \in WithdrawalIds PROVE RowWellFormed(v)'
  <2>1. CASE v = w
    BY <1>1, <2>1 DEF RowWellFormed
  <2>2. CASE v # w
    BY <1>1, <2>2 DEF IInv, RowWellFormed
  <2> QED BY <2>1, <2>2
<1>7. payout[w] = "none"
  BY <1>1 DEF IInv, RowWellFormed
<1>8. ASSUME NEW s \in Requests PROVE RequestWellPlaced(s)'
  <2>1. CASE s = r
    BY <1>1, <1>2, <1>7, <2>1 DEF RequestWellPlaced, At, Holding
  <2>2. CASE s # r
    BY <1>1, <2>2 DEF IInv, RequestWellPlaced, At, Holding
  <2> QED BY <2>1, <2>2
<1> QED BY <1>3, <1>4, <1>5, <1>6, <1>8

\* The platform's reservation commits.
LEMMA CommitPlatformKeeps ==
  ASSUME IInv, NEW r \in Requests, CommitPlatformWithdrawal(r)
  PROVE  IInv'
<1>1. Reserves(r, "platform", 0) /\ req[r].pc \in Holding /\ "platform" \in Wallets /\ 0 \in Nat
  BY DEF CommitPlatformWithdrawal, Reserves, Holding, At, Wallets
<1>2. UNCHANGED <<codes, payout, crashes, overlapped>>
  BY DEF CommitPlatformWithdrawal
<1>3. ReservationDone(r, "platform", 0)
  BY <1>1, ReservationFacts
<1>4. /\ LedgerFollowsStatus' /\ BooksFollowProvider' /\ SharedOnlyWithRef'
      /\ \A v \in WithdrawalIds : RowWellFormed(v)'
      /\ \A s \in Requests : RequestWellPlaced(s)'
  BY <1>1, <1>2, ReservationKeeps
<1>5. TypeOK'
  BY <1>2, <1>3 DEF IInv, TypeOK, ReservationDone
<1>6. withdrawals'[req[r].wd].wallet = "platform" /\ withdrawals'[req[r].wd].code = 0
  BY <1>3 DEF ReservationDone
<1>7. CodeMatchesWithdrawal'
  BY <1>2, <1>3, <1>6 DEF IInv, CodeMatchesWithdrawal, ReservationDone
<1>8. OneWithdrawalPerCode'
  BY <1>3, <1>6 DEF IInv, OneWithdrawalPerCode, ReservationDone
<1>9. ASSUME NEW s \in Requests PROVE CodeHeld(s)'
  BY <1>2, <1>3 DEF IInv, CodeHeld, At, ReservationDone
<1>10. LocksExclusive'
  BY <1>3 DEF IInv, LocksExclusive, At, ReservationDone
<1>11. available'["merchant"] = available["merchant"]
  BY <1>3 DEF IInv, TypeOK, Wallets, ReservationDone
<1>12. BalanceGuarded'
  BY <1>2, <1>3, <1>11 DEF IInv, BalanceGuarded, Unused, At, ReservationDone
<1> QED
  BY <1>4, <1>5, <1>7, <1>8, <1>9, <1>10, <1>12 DEF IInv

\* A confirmation commits: the code is used, the withdrawal is its own, the balance covers it.
LEMMA CommitConfirmKeeps ==
  ASSUME IInv, NEW r \in Requests, CommitConfirm(r)
  PROVE  IInv'
<1> DEFINE c == req[r].code
           w == req[r].wd
           used == [codes[c] EXCEPT !.used = TRUE]
<1>1. /\ At(r, "reserve") /\ req[r].pc \in Holding /\ "merchant" \in Wallets /\ c \in Nat
      /\ c \in DOMAIN codes /\ ~codes[c].used /\ codes[c].amount = req[r].amount
  BY DEF CommitConfirm, Holding, At, Wallets, IInv, TypeOK, RequestState, CodeHeld
<1>2. Reserves(r, "merchant", c) /\ UNCHANGED <<payout, crashes, overlapped>>
  BY DEF CommitConfirm, Reserves
<1>3. ReservationDone(r, "merchant", c)
  BY <1>1, <1>2, ReservationFacts
<1>4. /\ LedgerFollowsStatus' /\ BooksFollowProvider' /\ SharedOnlyWithRef'
      /\ \A v \in WithdrawalIds : RowWellFormed(v)'
      /\ \A s \in Requests : RequestWellPlaced(s)'
  BY <1>1, <1>2, ReservationKeeps
<1>5. codes \in Seq(CodeRow) /\ c \in 1 .. Len(codes) /\ codes[c] \in CodeRow
  BY <1>1, LenProperties, ElementOfSeq DEF IInv, TypeOK
<1>6. used \in CodeRow /\ used.used /\ used.amount = codes[c].amount
  BY <1>5 DEF CodeRow
<1>7. codes' = [codes EXCEPT ![c] = used]
  BY DEF CommitConfirm
<1>8. /\ codes' \in Seq(CodeRow) /\ DOMAIN codes' = DOMAIN codes
      /\ codes'[c] = used
      /\ \A d \in DOMAIN codes \ {c} : codes'[d] = codes[d]
  <2> HIDE DEF used
  <2> QED BY <1>5, <1>6, <1>7, ExceptSeq
<1>9. /\ codes'[c].used
      /\ \A d \in DOMAIN codes : /\ codes'[d].amount = codes[d].amount
                                 /\ codes[d].used => codes'[d].used
                                 /\ d # c => codes'[d].used = codes[d].used
  BY <1>1, <1>6, <1>8
<1> HIDE DEF used
<1>10. TypeOK'
  BY <1>2, <1>3, <1>8 DEF IInv, TypeOK, ReservationDone
<1>11. /\ withdrawals'[w].code = c /\ withdrawals'[w].amount = req[r].amount
       /\ \A v \in WithdrawalIds \ {w} : withdrawals'[v] = withdrawals[v]
  BY <1>3 DEF ReservationDone
<1>12. CodeMatchesWithdrawal'
  <2> SUFFICES ASSUME NEW v \in WithdrawalIds, withdrawals'[v].status # "absent",
                      withdrawals'[v].wallet = "merchant"
               PROVE  /\ withdrawals'[v].code \in DOMAIN codes'
                      /\ codes'[withdrawals'[v].code].used
                      /\ codes'[withdrawals'[v].code].amount = withdrawals'[v].amount
    BY DEF CodeMatchesWithdrawal
  <2>1. CASE v = w
    BY <1>1, <1>8, <1>9, <1>11, <2>1
  <2>2. CASE v # w
    BY <1>8, <1>9, <1>11, <2>2 DEF IInv, CodeMatchesWithdrawal
  <2> QED BY <2>1, <2>2
<1>13. \A v \in WithdrawalIds \ {w} : withdrawals[v].code # c \/ c = 0
  \* a row with code c would have found c used
  BY <1>1 DEF IInv, TypeOK, WithdrawalRow, CodeMatchesWithdrawal, RowWellFormed, Wallets
<1>14. OneWithdrawalPerCode'
  BY <1>11, <1>13 DEF IInv, OneWithdrawalPerCode
<1>15. \A s \in Requests \ {r} : At(s, "reserve") => req[s].code # c
  BY <1>1 DEF IInv, LocksExclusive
<1>16. /\ ~At(r, "lock")' /\ ~At(r, "reserve")'
       /\ \A s \in Requests \ {r} : req'[s] = req[s]
  BY <1>3 DEF ReservationDone, At
<1>17. ASSUME NEW s \in Requests PROVE CodeHeld(s)'
  BY <1>8, <1>9, <1>15, <1>16 DEF IInv, CodeHeld, At
<1>18. LocksExclusive'
  BY <1>16 DEF IInv, LocksExclusive, At
<1>19. BalanceGuarded'
  <2> SUFFICES ASSUME "merchant" \notin overlapped PROVE BalanceGuarded'
    BY <1>2 DEF BalanceGuarded
  <2>1. /\ \A d, e \in Unused : d = e
        /\ req[r].amount <= available["merchant"]
    BY <1>1 DEF IInv, BalanceGuarded
  <2>2. Unused' \subseteq Unused
    BY <1>8, <1>9 DEF Unused
  <2>3. available'["merchant"] = available["merchant"] - req[r].amount
    BY <1>3 DEF IInv, TypeOK, Wallets, ReservationDone
  <2>4. available["merchant"] \in Int /\ req[r].amount \in Nat
    BY <1>3, ConstantsAssumption DEF IInv, TypeOK, Wallets, ReservationDone
  <2>5. \A s \in Requests : ~At(s, "reserve")'
    BY <1>1, <1>15, <1>16, <2>1 DEF IInv, CodeHeld, Unused, At
  <2> QED
    BY <2>1, <2>2, <2>3, <2>4, <2>5 DEF BalanceGuarded
<1> QED
  BY <1>4, <1>10, <1>12, <1>14, <1>17, <1>18, <1>19 DEF IInv

-----------------------------------------------------------------------------
(* Payouts.                                                                *)

\* ioTec takes the payout; the answer that reaches the server is its own or a failure.
LEMMA PayoutTakenKeeps ==
  ASSUME IInv, NEW r \in Requests, At(r, "payout"),
         NEW s \in {"processing", "paid", "failed"}, NEW a \in {s, "refused"},
         payout' = [payout EXCEPT ![req[r].wd] = s],
         Answered(r, a),
         UNCHANGED <<codes, withdrawals, ledger, available, crashes, overlapped>>
  PROVE  IInv'
<1> DEFINE w == req[r].wd
           v == [req[r] EXCEPT !.pc = "apply", !.answer = a]
<1>1. /\ w \in WithdrawalIds /\ withdrawals[w].status = "requested" /\ ~withdrawals[w].ref
      /\ payout[w] = "none"
  BY DEF IInv, RequestWellPlaced
<1>2. v \in RequestState /\ v.pc = "apply" /\ v.answer = a /\ v.wd = w
  BY DEF IInv, TypeOK, RequestState, Answers
<1>3. req' = [req EXCEPT ![r] = v]
  BY DEF Answered, IInv, TypeOK
<1> HIDE DEF v
<1>4. /\ req' \in [Requests -> RequestState] /\ req'[r] = v
      /\ \A t \in Requests \ {r} : req'[t] = req[t]
  BY <1>2, <1>3 DEF IInv, TypeOK
<1>5. /\ payout' \in [WithdrawalIds -> {"none", "processing"} \union Terminal]
      /\ payout'[w] = s
      /\ \A u \in WithdrawalIds \ {w} : payout'[u] = payout[u]
  BY <1>1 DEF IInv, TypeOK, Terminal
<1>6. TypeOK'
  BY <1>4, <1>5 DEF IInv, TypeOK
<1>7. LedgerFollowsStatus' /\ CodeMatchesWithdrawal' /\ OneWithdrawalPerCode'
  BY DEF IInv, LedgerFollowsStatus, CodeMatchesWithdrawal, OneWithdrawalPerCode
<1>8. BooksFollowProvider'
  BY <1>1, <1>5 DEF IInv, BooksFollowProvider
<1>9. ASSUME NEW u \in WithdrawalIds PROVE RowWellFormed(u)'
  BY <1>1, <1>5 DEF IInv, RowWellFormed
<1>10. SharedOnlyWithRef'
  BY <1>2, <1>4 DEF IInv, SharedOnlyWithRef
<1>11. \A t \in Requests \ {r} : req[t].wd # w
  BY <1>1, ConstantsAssumption DEF IInv, SharedOnlyWithRef
<1>12. ASSUME NEW t \in Requests PROVE RequestWellPlaced(t)'
  <2>1. CASE t = r
    BY <1>1, <1>2, <1>4, <1>5, <2>1 DEF RequestWellPlaced, At, Holding, Terminal
  <2>2. CASE t # r
    BY <1>4, <1>5, <1>11, <2>2 DEF IInv, RequestWellPlaced, At, Holding
  <2> QED BY <2>1, <2>2
<1>13. ASSUME NEW t \in Requests PROVE CodeHeld(t)'
  BY <1>2, <1>4 DEF IInv, CodeHeld, At
<1>14. LocksExclusive'
  BY <1>2, <1>4 DEF IInv, LocksExclusive, At
<1>15. BalanceGuarded'
  BY <1>2, <1>4 DEF IInv, BalanceGuarded, Unused, At
<1> QED
  BY <1>6, <1>7, <1>8, <1>9, <1>10, <1>12, <1>13, <1>14, <1>15 DEF IInv

\* ioTec's decisions about a payout it has are final.
LEMMA ProviderSettlesKeeps ==
  ASSUME IInv, NEW w \in WithdrawalIds, NEW s \in Terminal, ProviderSettles(w, s)
  PROVE  IInv'
<1>1. /\ payout[w] = "processing"
      /\ payout' = [payout EXCEPT ![w] = s]
      /\ UNCHANGED <<codes, withdrawals, ledger, available, req, crashes, overlapped>>
  BY DEF ProviderSettles
<1>2. /\ payout' \in [WithdrawalIds -> {"none", "processing"} \union Terminal]
      /\ payout'[w] = s /\ s # "none"
      /\ \A u \in WithdrawalIds \ {w} : payout'[u] = payout[u]
  BY <1>1 DEF IInv, TypeOK, Terminal
<1>3. TypeOK'
  BY <1>1, <1>2 DEF IInv, TypeOK
<1>4. /\ LedgerFollowsStatus' /\ CodeMatchesWithdrawal' /\ OneWithdrawalPerCode'
      /\ SharedOnlyWithRef' /\ LocksExclusive' /\ BalanceGuarded'
      /\ \A t \in Requests : CodeHeld(t)'
  BY <1>1 DEF IInv, LedgerFollowsStatus, CodeMatchesWithdrawal, OneWithdrawalPerCode,
              SharedOnlyWithRef, LocksExclusive, BalanceGuarded, CodeHeld, Unused, At
<1>5. BooksFollowProvider'
  BY <1>1, <1>2 DEF IInv, BooksFollowProvider
<1>6. ASSUME NEW u \in WithdrawalIds PROVE RowWellFormed(u)'
  BY <1>1, <1>2 DEF IInv, RowWellFormed
<1>7. ASSUME NEW t \in Requests PROVE RequestWellPlaced(t)'
  BY <1>1, <1>2 DEF IInv, RequestWellPlaced, At, Holding, Terminal
<1> QED
  BY <1>3, <1>4, <1>5, <1>6, <1>7 DEF IInv

\* The update of an open withdrawal, with the release of its money when the payout failed.
Applies(r) ==
  LET w == req[r].wd
      a == req[r].answer
  IN  /\ ~Settled(w)
      /\ withdrawals'[w].status = StatusAfter(a)
      /\ withdrawals'[w].ref = (withdrawals[w].ref \/ a # "refused")
      /\ withdrawals'[w].wallet = withdrawals[w].wallet
      /\ withdrawals'[w].amount = withdrawals[w].amount
      /\ withdrawals'[w].code = withdrawals[w].code
      /\ \A v \in WithdrawalIds \ {w} : withdrawals'[v] = withdrawals[v]
      /\ withdrawals' \in [WithdrawalIds -> WithdrawalRow]
      /\ ledger' = IF StatusAfter(a) = "failed"
                   THEN ledger \union {<<"release", w>>} ELSE ledger
      /\ available' \in [Wallets -> Int]
      /\ available' = IF StatusAfter(a) = "failed"
                      THEN [available EXCEPT ![withdrawals[w].wallet] = @ + withdrawals[w].amount]
                      ELSE available
      /\ \A x \in Wallets : available'[x] >= available[x]

\* What a payout result does to the row and to the ledger.
LEMMA ApplyFacts ==
  ASSUME IInv, NEW r \in Requests, ApplyPayoutResult(r), ~Settled(req[r].wd)
  PROVE  Applies(r)
<1> DEFINE w == req[r].wd
           a == req[r].answer
           row == [withdrawals[w] EXCEPT !.status = StatusAfter(a), !.ref = @ \/ a # "refused"]
<1>1. /\ w \in WithdrawalIds /\ a \in Answers
      /\ withdrawals[w] \in WithdrawalRow /\ withdrawals[w].status # "absent"
  BY DEF IInv, TypeOK, RequestState, RequestWellPlaced, ApplyPayoutResult
<1>2. withdrawals' = [withdrawals EXCEPT ![w] = row]
  BY <1>1 DEF ApplyPayoutResult, UpdateWithdrawal, WithdrawalRow
<1>3. StatusAfter(a) \in {"processing"} \union Terminal
  BY <1>1 DEF StatusAfter, Answers, Terminal
<1>4. /\ row \in WithdrawalRow
      /\ row.status = StatusAfter(a) /\ row.ref = (withdrawals[w].ref \/ a # "refused")
      /\ row.wallet = withdrawals[w].wallet /\ row.amount = withdrawals[w].amount
      /\ row.code = withdrawals[w].code
  BY <1>1, <1>3 DEF WithdrawalRow
<1> HIDE DEF row
<1>5. /\ withdrawals' \in [WithdrawalIds -> WithdrawalRow] /\ withdrawals'[w] = row
      /\ \A v \in WithdrawalIds \ {w} : withdrawals'[v] = withdrawals[v]
  BY <1>1, <1>2, <1>4 DEF IInv, TypeOK
<1>6. <<"release", w>> \notin ledger
  BY <1>1 DEF IInv, LedgerFollowsStatus, LedgerKey, Settled, Terminal
<1>7. /\ ledger' = IF StatusAfter(a) = "failed"
                   THEN ledger \union {<<"release", w>>} ELSE ledger
      /\ available' = IF StatusAfter(a) = "failed"
                      THEN [available EXCEPT
                              ![withdrawals[w].wallet] = @ + withdrawals[w].amount]
                      ELSE available
  BY <1>6 DEF ApplyPayoutResult, ReleaseFunds, CreateLedger, LedgerKey
<1>8. /\ withdrawals[w].amount \in Nat /\ withdrawals[w].wallet \in Wallets
      /\ available \in [Wallets -> Int]
  <2>1. withdrawals[w].amount \in Amounts \union {0} /\ withdrawals[w].wallet \in Wallets
    BY <1>1 DEF WithdrawalRow
  <2>2. available \in [Wallets -> Int]
    BY DEF IInv, TypeOK
  <2>3. \A n \in Amounts \union {0} : n \in Nat
    BY ConstantsAssumption
  <2> QED BY <2>1, <2>2, <2>3, Zenon
<1>9. available' \in [Wallets -> Int] /\ \A y \in Wallets : available'[y] >= available[y]
  <2> DEFINE x == withdrawals[w].wallet
             amount == withdrawals[w].amount
  <2>1. CASE StatusAfter(a) = "failed"
    <3>1. available' = [available EXCEPT ![x] = @ + amount]
      BY <1>7, <2>1
    <3> HIDE DEF x, amount
    <3>2. amount \in Nat /\ x \in Wallets
      BY <1>8 DEF x, amount
    <3> QED BY <1>8, <3>1, <3>2
  <2>2. CASE StatusAfter(a) # "failed"
    <3>1. available' = available
      BY <1>7, <2>2
    <3> QED BY <1>8, <3>1
  <2> QED BY <2>1, <2>2
<1> QED
  BY <1>4, <1>5, <1>7, <1>9 DEF Applies

\* Applying an answer, however old, keeps row, ledger and provider in step.
LEMMA ApplyKeeps ==
  ASSUME IInv, NEW r \in Requests, ApplyPayoutResult(r)
  PROVE  IInv'
<1> DEFINE w == req[r].wd
           a == req[r].answer
<1>1. /\ req' = [req EXCEPT ![r] = Idle]
      /\ UNCHANGED <<codes, payout, crashes, overlapped>>
      /\ At(r, "apply")
  BY DEF ApplyPayoutResult
<1>2. CASE Settled(w)
  <2>1. UNCHANGED <<withdrawals, ledger, available>>
    BY <1>2 DEF ApplyPayoutResult
  <2>2. crashes' \in 0 .. MaxCrashes
    BY <1>1 DEF IInv, TypeOK
  <2> QED BY <1>1, <2>1, <2>2, RequestEnds
<1>3. CASE ~Settled(w)
  <2>1. Applies(r)
    BY <1>3, ApplyFacts
  <2>2. /\ w \in WithdrawalIds /\ a \in Answers
        /\ withdrawals[w].status # "absent" /\ withdrawals[w].status \notin Terminal
        /\ a = "refused" => ~withdrawals[w].ref
        /\ a # "refused" => payout[w] # "none"
        /\ a \in Terminal => payout[w] = a
    BY <1>1, <1>3 DEF IInv, TypeOK, RequestState, RequestWellPlaced, Settled
  <2>3. StatusAfter(a) \in {"processing"} \union Terminal
    BY <2>2 DEF StatusAfter, Answers, Terminal
  <2>4. /\ req'[r].pc = "idle" /\ req'[r].wd = NoWithdrawal
        /\ \A s \in Requests \ {r} : req'[s] = req[s]
        /\ req' \in [Requests -> RequestState]
    BY <1>1, IdleIsState DEF IInv, TypeOK, Idle
  <2>5. TypeOK'
    BY <1>1, <2>1, <2>2, <2>4 DEF IInv, TypeOK, Applies
  <2>6. LedgerFollowsStatus'
    BY <2>1, <2>2, <2>3 DEF IInv, LedgerFollowsStatus, LedgerKey, Applies, Terminal
  <2>7. CodeMatchesWithdrawal' /\ OneWithdrawalPerCode'
    BY <1>1, <2>1, <2>2 DEF IInv, CodeMatchesWithdrawal, OneWithdrawalPerCode, Applies
  <2>8. BooksFollowProvider'
    BY <1>1, <2>1, <2>2 DEF IInv, BooksFollowProvider, Applies, StatusAfter, Terminal, Answers
  <2>9. ASSUME NEW u \in WithdrawalIds PROVE RowWellFormed(u)'
    BY <1>1, <2>1, <2>2, <2>3 DEF IInv, RowWellFormed, Applies, Terminal
  <2>10. SharedOnlyWithRef'
    <3> SUFFICES ASSUME NEW s \in Requests, NEW t \in Requests, s # t,
                        req'[s].wd = req'[t].wd, req'[s].wd # NoWithdrawal
                 PROVE  withdrawals'[req'[s].wd].ref
      BY DEF SharedOnlyWithRef
    <3>1. req'[s] = req[s] /\ req'[t] = req[t]
      BY <2>4
    <3>2. withdrawals[req[s].wd].ref /\ req[s].wd \in WithdrawalIds
      BY <3>1 DEF IInv, SharedOnlyWithRef, TypeOK, RequestState
    <3>3. withdrawals'[w].ref = (withdrawals[w].ref \/ a # "refused")
      BY <2>1 DEF Applies
    <3>4. req[s].wd # w => withdrawals'[req[s].wd] = withdrawals[req[s].wd]
      BY <2>1, <3>2 DEF Applies
    <3> QED BY <3>1, <3>2, <3>3, <3>4
  <2>11. ASSUME NEW s \in Requests \ {r}, req[s].wd = w PROVE withdrawals[w].ref
    BY <2>2, <2>11, ConstantsAssumption DEF IInv, SharedOnlyWithRef
  <2>12. ASSUME NEW s \in Requests PROVE RequestWellPlaced(s)'
    <3>1. CASE s = r
      BY <2>4, <3>1 DEF RequestWellPlaced, At, Holding
    <3>2. CASE s # r /\ req[s].wd # w
      BY <1>1, <2>1, <2>4, <3>2 DEF IInv, RequestWellPlaced, At, Holding, Applies
    <3>3. CASE s # r /\ req[s].wd = w
      \* s can only be applying an answer of its own
      <4>1. withdrawals[w].ref
        BY <2>11, <3>3
      <4>2. /\ req[s].pc \notin Holding /\ ~At(s, "payout")
            /\ At(s, "apply") => req[s].answer # "refused"
        BY <2>2, <3>3, <4>1 DEF IInv, RequestWellPlaced
      <4>3. withdrawals'[w].status # "absent"
        BY <2>1, <2>3 DEF Applies, Terminal
      <4> QED
        BY <1>1, <2>2, <2>4, <3>3, <4>2, <4>3 DEF IInv, RequestWellPlaced, At, Holding
    <3> QED BY <3>1, <3>2, <3>3
  <2>13. ASSUME NEW s \in Requests PROVE CodeHeld(s)'
    BY <1>1, <2>4 DEF IInv, CodeHeld, At
  <2>14. LocksExclusive'
    BY <2>4 DEF IInv, LocksExclusive, At
  <2>15. BalanceGuarded'
    <3> SUFFICES ASSUME "merchant" \notin overlapped PROVE BalanceGuarded'
      BY <1>1 DEF BalanceGuarded
    <3>1. /\ available["merchant"] \in Int /\ available'["merchant"] \in Int
          /\ available'["merchant"] >= available["merchant"]
      BY <2>1 DEF IInv, TypeOK, Applies, Wallets
    <3>2. \A s \in Requests : At(s, "reserve")' =>
            /\ req'[s].amount = req[s].amount /\ At(s, "reserve")
            /\ req[s].amount \in Nat
      BY <2>4, ConstantsAssumption DEF At, IInv, RequestWellPlaced, Holding
    <3> QED
      BY <1>1, <3>1, <3>2 DEF IInv, BalanceGuarded, Unused
  <2> QED
    BY <2>5, <2>6, <2>7, <2>8, <2>9, <2>10, <2>12, <2>13, <2>14, <2>15 DEF IInv
<1> QED BY <1>2, <1>3

-----------------------------------------------------------------------------
(* The theorems.                                                           *)

\* The invariant holds at the start.
LEMMA InitEstablishes == Init => IInv
<1> SUFFICES ASSUME Init PROVE IInv
  OBVIOUS
<1>1. TypeOK
  <2>1. codes \in Seq(CodeRow)
    BY EmptySeq DEF Init
  <2>2. NoRow \in WithdrawalRow
    BY DEF NoRow, WithdrawalRow, Wallets
  <2>3. available \in [Wallets -> Int] /\ crashes \in 0 .. MaxCrashes
    BY ConstantsAssumption DEF Init
  <2> QED
    BY <2>1, <2>2, <2>3, IdleIsState DEF Init, TypeOK
<1>2. LedgerFollowsStatus /\ CodeMatchesWithdrawal /\ OneWithdrawalPerCode /\ BooksFollowProvider
  BY DEF Init, NoRow, LedgerFollowsStatus, CodeMatchesWithdrawal, OneWithdrawalPerCode,
         BooksFollowProvider, LedgerKey
<1>3. \A w \in WithdrawalIds : RowWellFormed(w)
  BY DEF Init, NoRow, RowWellFormed
<1>4. \A r \in Requests : RequestWellPlaced(r) /\ CodeHeld(r)
  BY DEF Init, Idle, RequestWellPlaced, CodeHeld, At, Holding
<1>5. SharedOnlyWithRef /\ LocksExclusive
  BY DEF Init, Idle, SharedOnlyWithRef, LocksExclusive, At
<1>6. DOMAIN codes = {}
  BY DEF Init
<1>7. Unused = {} /\ available["merchant"] >= 0
  BY <1>6, ConstantsAssumption DEF Init, Unused, Wallets
<1>8. BalanceGuarded
  BY <1>7 DEF Init, Idle, BalanceGuarded, At
<1> QED
  BY <1>1, <1>2, <1>3, <1>4, <1>5, <1>8 DEF IInv

\* Every step keeps it.
LEMMA StepKeeps == IInv /\ [Next]_vars => IInv'
<1> SUFFICES ASSUME IInv, [Next]_vars PROVE IInv'
  OBVIOUS
<1>1. ASSUME NEW r \in Requests, RequestNext(r) PROVE IInv'
  <2>1. CASE \E a \in Amounts : RequestCode(r, a)
    BY <2>1, RequestCodeKeeps
  <2>2. CASE InvalidateCodes(r)
    BY <2>2, InvalidateCodesKeeps
  <2>3. CASE CreateCode(r)
    BY <2>3, CreateCodeKeeps
  <2>4. CASE \E a \in Amounts, w \in WithdrawalIds : BeginConfirm(r, a, w)
    BY <2>4, BeginConfirmKeeps
  <2>5. CASE LockCode(r)
    BY <2>5, LockCodeKeeps
  <2>6. CASE RejectConfirm(r) \/ Crash(r)
    BY <2>6, RejectAndCrashKeep
  <2>7. CASE CommitConfirm(r)
    BY <2>7, CommitConfirmKeeps
  <2>8. CASE \E a \in Amounts, w \in WithdrawalIds : RequestPlatformWithdrawal(r, a, w)
    BY <2>8, RequestPlatformKeeps
  <2>9. CASE CommitPlatformWithdrawal(r)
    BY <2>9, CommitPlatformKeeps
  <2>10. CASE PayoutRefused(r)
    BY <2>10, PayoutRefusedKeeps
  <2>11. CASE \E s \in {"processing", "paid", "failed"} : PayoutAccepted(r, s)
    BY <2>11, PayoutTakenKeeps DEF PayoutAccepted
  <2>12. CASE PayoutReplyLost(r)
    BY <2>12, PayoutTakenKeeps DEF PayoutReplyLost
  <2>13. CASE \E w \in WithdrawalIds : RefreshStatus(r, w)
    BY <2>13, RefreshStatusKeeps
  <2>14. CASE ApplyPayoutResult(r)
    BY <2>14, ApplyKeeps
  <2> QED
    BY <1>1, <2>1, <2>2, <2>3, <2>4, <2>5, <2>6, <2>7, <2>8, <2>9, <2>10, <2>11, <2>12,
       <2>13, <2>14 DEF RequestNext, InitiatePayout
<1>2. CASE \E c \in DOMAIN codes : ExpireCode(c)
  BY <1>2, ExpireCodeKeeps
<1>3. CASE \E w \in WithdrawalIds, s \in Terminal : ProviderSettles(w, s)
  BY <1>3, ProviderSettlesKeeps
<1>4. CASE UNCHANGED vars
  BY <1>4 DEF vars, IInv, TypeOK, LedgerFollowsStatus, RowWellFormed, RequestWellPlaced,
              SharedOnlyWithRef, CodeHeld, LocksExclusive, CodeMatchesWithdrawal,
              OneWithdrawalPerCode, BooksFollowProvider, BalanceGuarded, Unused, At
<1> QED BY <1>1, <1>2, <1>3, <1>4 DEF Next

\* The inductive invariant holds in every reachable state.
THEOREM Invariance == Spec => []IInv
<1>1. Init => IInv
  BY InitEstablishes
<1>2. IInv /\ [Next]_vars => IInv'
  BY StepKeeps
<1> QED BY <1>1, <1>2, PTL DEF Spec

\* Types, for every instance: the type invariant of the module.
THEOREM TypeCorrectness == Spec => []TypeOK
BY Invariance, PTL DEF IInv

\* The ledger and the withdrawal rows tell the same story.
THEOREM LedgerAgreement == Spec => []LedgerFollowsStatus
BY Invariance, PTL DEF IInv

\* However many confirmations race, a code pays for one withdrawal.
THEOREM CodeSafety == Spec => []OneWithdrawalPerCode
BY Invariance, PTL DEF IInv

\* What a merchant's withdrawal moved is what the e-mail with its code had named.
THEOREM CodeAmounts == Spec => []CodeMatchesWithdrawal
BY Invariance, PTL DEF IInv

\* "paid" rows were paid by ioTec, "failed" rows with a reference were not.
THEOREM ProviderAgreement == Spec => []BooksFollowProvider
BY Invariance, PTL DEF IInv

-----------------------------------------------------------------------------
(* Balances.                                                               *)

\* While no two platform withdrawals were between balance check and debit together, the one that may
\* be there is still covered.
PlatformGuarded ==
  "platform" \notin overlapped =>
    /\ available["platform"] >= 0
    /\ \A r, s \in Requests : At(r, "platformReserve") /\ At(s, "platformReserve") => r = s
    /\ \A r \in Requests : At(r, "platformReserve") => req[r].amount <= available["platform"]

\* What becomes of it when nobody passes the check and nothing leaves the wallet.
LEMMA PlatformUntouched ==
  ASSUME IInv, PlatformGuarded, IInv',
         overlapped \subseteq overlapped',
         available'["platform"] >= available["platform"],
         \A r \in Requests : At(r, "platformReserve")' => req'[r] = req[r]
  PROVE  PlatformGuarded'
<1> SUFFICES ASSUME "platform" \notin overlapped' PROVE PlatformGuarded'
  BY DEF PlatformGuarded
<1>1. "platform" \notin overlapped
  OBVIOUS
<1>2. available["platform"] \in Int /\ available'["platform"] \in Int
  BY DEF IInv, TypeOK, Wallets
<1>3. \A r \in Requests : At(r, "platformReserve") => req[r].amount \in Nat
  BY ConstantsAssumption DEF IInv, RequestWellPlaced, Holding, At
<1> QED BY <1>1, <1>2, <1>3 DEF PlatformGuarded, At

LEMMA PlatformKept == IInv /\ IInv' /\ PlatformGuarded /\ [Next]_vars => PlatformGuarded'
<1> SUFFICES ASSUME IInv, IInv', PlatformGuarded, [Next]_vars PROVE PlatformGuarded'
  OBVIOUS
<1> USE DEF At
<1>1. /\ available \in [Wallets -> Int] /\ available' \in [Wallets -> Int]
      /\ req \in [Requests -> RequestState] /\ "platform" \in Wallets /\ "merchant" \in Wallets
  BY DEF IInv, TypeOK, Wallets
<1>2. ASSUME NEW r \in Requests, NEW a \in Amounts, NEW w \in WithdrawalIds,
             RequestPlatformWithdrawal(r, a, w)
      PROVE  PlatformGuarded'
  <2>1. /\ a <= available["platform"] /\ UNCHANGED available
        /\ req'[r].amount = a
        /\ \A s \in Requests \ {r} : req'[s] = req[s]
        /\ overlapped' = IF \E s \in Requests : At(s, "platformReserve")
                         THEN overlapped \union {"platform"} ELSE overlapped
    <3> DEFINE v == [Idle EXCEPT !.pc = "platformReserve", !.amount = a, !.wd = w]
    <3>1. v.amount = a
      BY DEF Idle
    <3>2. req' = [req EXCEPT ![r] = v]
      BY <1>2 DEF RequestPlatformWithdrawal
    <3> HIDE DEF v
    <3>3. req'[r] = v /\ \A s \in Requests \ {r} : req'[s] = req[s]
      BY <1>1, <3>2
    <3> QED BY <1>2, <3>1, <3>3 DEF RequestPlatformWithdrawal
  <2> SUFFICES ASSUME "platform" \notin overlapped' PROVE PlatformGuarded'
    BY DEF PlatformGuarded
  <2>2. "platform" \notin overlapped /\ \A s \in Requests : ~At(s, "platformReserve")
    BY <2>1
  <2>3. \A s \in Requests : At(s, "platformReserve")' => s = r
    BY <2>1, <2>2
  <2>4. available'["platform"] >= 0
    BY <2>1, <2>2 DEF PlatformGuarded
  <2>5. \A s \in Requests : At(s, "platformReserve")' => req'[s].amount <= available'["platform"]
    <3>1. req'[r].amount <= available'["platform"]
      BY <2>1
    <3> QED BY <2>3, <3>1
  <2> QED BY <2>3, <2>4, <2>5 DEF PlatformGuarded
<1>3. ASSUME NEW r \in Requests, CommitPlatformWithdrawal(r) PROVE PlatformGuarded'
  <2>1. Reserves(r, "platform", 0) /\ req[r].pc \in Holding /\ 0 \in Nat
    BY <1>3 DEF CommitPlatformWithdrawal, Reserves, Holding
  <2>2. ReservationDone(r, "platform", 0)
    BY <1>1, <2>1, ReservationFacts
  <2>3. /\ available'["platform"] = available["platform"] - req[r].amount
        /\ req'[r].pc = "payout"
        /\ \A s \in Requests \ {r} : req'[s] = req[s]
        /\ req[r].amount \in Amounts
    BY <1>1, <2>2 DEF ReservationDone
  <2>4. At(r, "platformReserve") /\ UNCHANGED overlapped
    BY <1>3 DEF CommitPlatformWithdrawal
  <2>5. req[r].amount \in Int /\ available["platform"] \in Int
    <3>1. \A n \in Amounts : n \in Nat
      BY ConstantsAssumption
    <3>2. req[r].amount \in Nat
      BY <2>3, <3>1, Zenon
    <3>3. available["platform"] \in Int
      BY <1>1
    <3> QED BY <3>2, <3>3
  <2> QED BY <2>3, <2>4, <2>5 DEF PlatformGuarded
<1>4. ASSUME NEW r \in Requests, CommitConfirm(r) PROVE PlatformGuarded'
  <2>1. /\ Reserves(r, "merchant", req[r].code) /\ req[r].pc \in Holding /\ req[r].code \in Nat
        /\ UNCHANGED overlapped
    BY <1>1, <1>4 DEF CommitConfirm, Reserves, Holding, RequestState
  <2>2. ReservationDone(r, "merchant", req[r].code)
    BY <1>1, <2>1, ReservationFacts
  <2>3. /\ available'["platform"] = available["platform"]
        /\ req'[r].pc = "payout"
        /\ \A s \in Requests \ {r} : req'[s] = req[s]
    BY <1>1, <2>2 DEF ReservationDone
  <2> QED BY <1>1, <2>1, <2>3, PlatformUntouched
<1>5. ASSUME NEW r \in Requests, ApplyPayoutResult(r) PROVE PlatformGuarded'
  <2>1. available'["platform"] >= available["platform"]
    <3>1. CASE Settled(req[r].wd)
      BY <1>1, <1>5, <3>1 DEF ApplyPayoutResult
    <3>2. CASE ~Settled(req[r].wd)
      BY <1>1, <1>5, <3>2, ApplyFacts DEF Applies
    <3> QED BY <3>1, <3>2
  <2>2. UNCHANGED overlapped /\ req' = [req EXCEPT ![r] = Idle]
    BY <1>5 DEF ApplyPayoutResult
  <2> QED BY <1>1, <2>1, <2>2, PlatformUntouched DEF Idle
<1>6. ASSUME UNCHANGED available, overlapped \subseteq overlapped',
             \A r \in Requests : At(r, "platformReserve")' => req'[r] = req[r]
      PROVE  PlatformGuarded'
  BY <1>1, <1>6, PlatformUntouched
<1>7. ASSUME NEW r \in Requests, RequestNext(r) PROVE PlatformGuarded'
  <2>1. ASSUME NEW v, v.pc # "platformReserve", req' = [req EXCEPT ![r] = v],
               UNCHANGED available, overlapped \subseteq overlapped'
        PROVE  PlatformGuarded'
    <3>1. req'[r] = v /\ \A s \in Requests \ {r} : req'[s] = req[s]
      BY <1>1, <2>1
    <3> QED BY <1>6, <2>1, <3>1
  <2>2. \A v : req' = [req EXCEPT ![r] = v] => req'[r] = v
    BY <1>1
  <2>3. ASSUME NEW a \in Amounts, RequestCode(r, a) PROVE PlatformGuarded'
    <3>1. [Idle EXCEPT !.pc = "invalidate", !.amount = a].pc = "invalidate"
      BY DEF Idle
    <3> QED BY <2>1, <2>3, <3>1 DEF RequestCode
  <2>4. CASE InvalidateCodes(r) \/ LockCode(r)
    <3>1. PICK p \in {"createCode", "reserve"} : req' = [req EXCEPT ![r].pc = p]
      BY <2>4 DEF InvalidateCodes, LockCode
    <3>2. req' = [req EXCEPT ![r] = [req[r] EXCEPT !.pc = p]] /\ [req[r] EXCEPT !.pc = p].pc = p
      BY <1>1, <3>1 DEF RequestState
    <3> QED BY <2>1, <2>4, <3>2 DEF InvalidateCodes, LockCode
  <2>5. CASE CreateCode(r) \/ RejectConfirm(r) \/ Crash(r)
    <3>1. Idle.pc = "idle" /\ req' = [req EXCEPT ![r] = Idle]
      BY <2>5 DEF CreateCode, RejectConfirm, Crash, Idle
    <3> QED BY <2>1, <2>5, <3>1 DEF CreateCode, RejectConfirm, Crash
  <2>6. ASSUME NEW a \in Amounts, NEW w \in WithdrawalIds, BeginConfirm(r, a, w) PROVE PlatformGuarded'
    <3>1. PICK c \in Unused :
            req' = [req EXCEPT ![r] = [Idle EXCEPT !.pc = "lock", !.amount = a, !.code = c, !.wd = w]]
      BY <2>6 DEF BeginConfirm
    <3>2. [Idle EXCEPT !.pc = "lock", !.amount = a, !.code = c, !.wd = w].pc = "lock"
      BY DEF Idle
    <3> QED BY <2>1, <2>6, <3>1, <3>2 DEF BeginConfirm
  <2>7. CASE InitiatePayout(r)
    <3>1. PICK a : Answered(r, a)
      BY <2>7 DEF InitiatePayout, PayoutRefused, PayoutAccepted, PayoutReplyLost
    <3>2. /\ req' = [req EXCEPT ![r] = [req[r] EXCEPT !.pc = "apply", !.answer = a]]
          /\ [req[r] EXCEPT !.pc = "apply", !.answer = a].pc = "apply"
      BY <1>1, <3>1 DEF Answered, RequestState
    <3> QED BY <2>1, <2>7, <3>2 DEF InitiatePayout, PayoutRefused, PayoutAccepted, PayoutReplyLost
  <2>8. ASSUME NEW w \in WithdrawalIds, RefreshStatus(r, w) PROVE PlatformGuarded'
    <3>1. [Idle EXCEPT !.pc = "apply", !.wd = w, !.answer = payout[w]].pc = "apply"
      BY DEF Idle
    <3> QED BY <2>1, <2>8, <3>1 DEF RefreshStatus
  <2> QED BY <1>2, <1>3, <1>4, <1>5, <1>7, <2>3, <2>4, <2>5, <2>6, <2>7, <2>8 DEF RequestNext
<1>8. CASE \E c \in DOMAIN codes : ExpireCode(c)
  BY <1>6, <1>8 DEF ExpireCode
<1>9. CASE \E w \in WithdrawalIds, s \in Terminal : ProviderSettles(w, s)
  BY <1>6, <1>9 DEF ProviderSettles
<1>10. CASE UNCHANGED vars
  BY <1>6, <1>10 DEF vars
<1> QED BY <1>7, <1>8, <1>9, <1>10 DEF Next

\* Without two codes unused together the merchant's balance stays covered, without two platform
\* withdrawals past the check together the platform's.
THEOREM NoOverdraft == Spec => []OverdraftNeedsOverlap
<1>1. Init => PlatformGuarded
  BY ConstantsAssumption DEF Init, PlatformGuarded, Idle, At, Wallets
<1>2. IInv /\ PlatformGuarded => OverdraftNeedsOverlap
  BY DEF IInv, BalanceGuarded, PlatformGuarded, OverdraftNeedsOverlap, Wallets
<1> QED BY <1>1, <1>2, PlatformKept, Invariance, PTL DEF Spec

-----------------------------------------------------------------------------
(* The money of the withdrawals, unit by unit.                             *)

FundsCounted ==
  \A x \in Wallets : /\ IsFiniteSet(Withdrawn(x))
                     /\ available[x] = Opening[x] - Cardinality(Withdrawn(x))

LEMMA UnitsCounted ==
  ASSUME NEW w, NEW n \in Nat
  PROVE  IsFiniteSet({w} \X (1 .. n)) /\ Cardinality({w} \X (1 .. n)) = n
<1>1. IsFiniteSet({w}) /\ Cardinality({w}) = 1
  BY FS_Singleton
<1>2. IsFiniteSet(1 .. n) /\ Cardinality(1 .. n) = n
  BY FS_Interval
<1>3. IsFiniteSet({w} \X (1 .. n)) /\ Cardinality({w} \X (1 .. n)) = Cardinality({w}) * Cardinality(1 .. n)
  BY <1>1, <1>2, FS_Product
<1> QED BY <1>1, <1>2, <1>3

LEMMA AmountsCount ==
  ASSUME IInv, NEW w \in WithdrawalIds
  PROVE  withdrawals[w].amount \in Nat /\ withdrawals[w].wallet \in Wallets
<1>1. withdrawals[w].amount \in Amounts \union {0} /\ withdrawals[w].wallet \in Wallets
  BY DEF IInv, TypeOK, WithdrawalRow
<1>2. \A n \in Amounts \union {0} : n \in Nat
  BY ConstantsAssumption
<1> QED BY <1>1, <1>2, Zenon

\* Steps that leave amounts and failures as they are.
LEMMA MoneyStays ==
  ASSUME FundsCounted, UNCHANGED available,
         \A w \in WithdrawalIds : /\ withdrawals'[w].wallet = withdrawals[w].wallet
                                  /\ withdrawals'[w].amount = withdrawals[w].amount
                                  /\ withdrawals'[w].status \in {"absent", "failed"} <=>
                                       withdrawals[w].status \in {"absent", "failed"}
  PROVE  FundsCounted'
<1>1. \A x \in Wallets : Withdrawn(x)' = Withdrawn(x)
  BY DEF Withdrawn, Outgoing
<1> QED BY <1>1 DEF FundsCounted

\* A reservation takes the units of a new row out of its wallet.
LEMMA MoneyReserved ==
  ASSUME IInv, IInv', FundsCounted, NEW r \in Requests, NEW x \in Wallets, NEW c, ReservationDone(r, x, c)
  PROVE  FundsCounted'
<1> DEFINE w == req[r].wd
<1>1. /\ w \in WithdrawalIds /\ withdrawals[w].status = "absent"
      /\ withdrawals'[w].status = "requested" /\ withdrawals'[w].wallet = x
      /\ withdrawals'[w].amount = req[r].amount
      /\ \A v \in WithdrawalIds \ {w} : withdrawals'[v] = withdrawals[v]
      /\ available' = [available EXCEPT ![x] = @ - req[r].amount]
  BY DEF ReservationDone
<1>2. available \in [Wallets -> Int] /\ Opening \in [Wallets -> Nat]
  BY ConstantsAssumption DEF IInv, TypeOK
<1> DEFINE n == req[r].amount
           units == {w} \X (1 .. n)
<1>3. n \in Nat
  <2>1. n \in Amounts /\ \A a \in Amounts : a \in Nat
    BY ConstantsAssumption DEF ReservationDone
  <2> QED BY <2>1, Zenon
<1> HIDE DEF w, n
<1>4. ASSUME NEW y \in Wallets, y # x
      PROVE  Withdrawn(y)' = Withdrawn(y) /\ available'[y] = available[y]
  <2>1. Outgoing(y)' = Outgoing(y) /\ w \notin Outgoing(y)
    BY <1>1, <1>4 DEF Outgoing
  <2>2. \A v \in Outgoing(y) : withdrawals'[v].amount = withdrawals[v].amount
    BY <1>1, <2>1 DEF Outgoing
  <2> QED BY <1>1, <1>2, <1>4, <2>1, <2>2 DEF Withdrawn
<1>5. Withdrawn(x)' = Withdrawn(x) \union units /\ Withdrawn(x) \intersect units = {}
  <2>1. Outgoing(x)' = Outgoing(x) \union {w} /\ w \notin Outgoing(x)
    BY <1>1 DEF Outgoing
  <2>2. \A v \in Outgoing(x) : withdrawals'[v].amount = withdrawals[v].amount
    BY <1>1, <2>1 DEF Outgoing
  <2>3. UNION {{v} \X (1 .. withdrawals'[v].amount) : v \in Outgoing(x) \union {w}} =
        (UNION {{v} \X (1 .. withdrawals[v].amount) : v \in Outgoing(x)}) \union units
    BY <1>1, <2>1, <2>2 DEF n
  <2>4. Withdrawn(x)' = UNION {{v} \X (1 .. withdrawals'[v].amount) : v \in Outgoing(x)'}
    BY DEF Withdrawn
  <2>5. Withdrawn(x) \intersect units = {}
    BY <2>1 DEF Withdrawn
  <2>6. Withdrawn(x) = UNION {{v} \X (1 .. withdrawals[v].amount) : v \in Outgoing(x)}
    BY DEF Withdrawn
  <2> HIDE DEF units
  <2> QED BY <2>1, <2>3, <2>4, <2>5, <2>6
<1>6. IsFiniteSet(units) /\ Cardinality(units) = n
  BY <1>3, UnitsCounted
<1> HIDE DEF units
<1>7. IsFiniteSet(Withdrawn(x)) /\ available[x] = Opening[x] - Cardinality(Withdrawn(x))
  BY DEF FundsCounted
<1>8. /\ IsFiniteSet(Withdrawn(x)')
      /\ Cardinality(Withdrawn(x)') = Cardinality(Withdrawn(x)) + n
  <2>1. /\ IsFiniteSet(Withdrawn(x) \union units)
        /\ Cardinality(Withdrawn(x) \union units) =
             Cardinality(Withdrawn(x)) + Cardinality(units) - Cardinality({})
    BY <1>5, <1>6, <1>7, FS_Union
  <2>2. Cardinality({}) = 0 /\ Cardinality(Withdrawn(x)) \in Nat
    BY <1>7, FS_EmptySet, FS_CardinalityType
  <2> QED BY <1>3, <1>5, <1>6, <2>1, <2>2
<1>9. available'[x] = Opening[x] - Cardinality(Withdrawn(x)')
  <2>1. available'[x] = available[x] - n
    BY <1>1, <1>2 DEF n
  <2>2. Opening[x] \in Nat /\ Cardinality(Withdrawn(x)) \in Nat
    BY <1>2, <1>7, FS_CardinalityType
  <2> QED BY <1>3, <1>7, <1>8, <2>1, <2>2
<1> QED BY <1>4, <1>8, <1>9 DEF FundsCounted

\* A failure gives the units of its row back.
LEMMA MoneyReleased ==
  ASSUME IInv, FundsCounted, NEW r \in Requests, ApplyPayoutResult(r), ~Settled(req[r].wd),
         StatusAfter(req[r].answer) = "failed",
         NEW x, x = withdrawals[req[r].wd].wallet, NEW n, n = withdrawals[req[r].wd].amount
  PROVE  FundsCounted'
<1> DEFINE w == req[r].wd
           units == {w} \X (1 .. n)
<1>1. /\ w \in WithdrawalIds /\ withdrawals[w].status \notin {"absent", "failed"}
      /\ withdrawals[w].wallet = x /\ withdrawals[w].amount = n
      /\ withdrawals'[w].status = "failed" /\ withdrawals'[w].wallet = x
      /\ withdrawals'[w].amount = n
      /\ \A v \in WithdrawalIds \ {w} : withdrawals'[v] = withdrawals[v]
      /\ available' = [available EXCEPT ![x] = @ + n]
  <2>1. Applies(r)
    BY ApplyFacts
  <2>2. w \in WithdrawalIds /\ withdrawals[w].status # "absent"
    BY DEF ApplyPayoutResult, IInv, RequestWellPlaced
  <2> QED BY <2>1, <2>2 DEF Applies, Settled, Terminal
<1>2. available \in [Wallets -> Int] /\ Opening \in [Wallets -> Nat]
  BY ConstantsAssumption DEF IInv, TypeOK
<1>3. n \in Nat /\ x \in Wallets
  BY <1>1, AmountsCount
<1> HIDE DEF w
<1>4. ASSUME NEW y \in Wallets, y # x
      PROVE  Withdrawn(y)' = Withdrawn(y) /\ available'[y] = available[y]
  <2>1. Outgoing(y)' = Outgoing(y) /\ w \notin Outgoing(y)
    BY <1>1, <1>4 DEF Outgoing
  <2>2. \A v \in Outgoing(y) : withdrawals'[v].amount = withdrawals[v].amount
    BY <1>1, <2>1 DEF Outgoing
  <2>3. available'[y] = available[y]
    BY <1>1, <1>2, <1>3, <1>4
  <2> QED BY <2>1, <2>2, <2>3 DEF Withdrawn
<1>5. Withdrawn(x)' = Withdrawn(x) \ units /\ Withdrawn(x) \intersect units = units
  <2>1. Outgoing(x)' = Outgoing(x) \ {w} /\ w \in Outgoing(x)
    BY <1>1 DEF Outgoing
  <2>2. \A v \in Outgoing(x) : withdrawals'[v].amount = withdrawals[v].amount
    BY <1>1 DEF Outgoing
  <2>3. Withdrawn(x) \intersect units = units
    BY <1>1, <2>1 DEF Withdrawn
  <2>4. UNION {{v} \X (1 .. withdrawals'[v].amount) : v \in Outgoing(x)'} =
        UNION {{v} \X (1 .. withdrawals[v].amount) : v \in Outgoing(x) \ {w}}
    BY <2>1, <2>2
  <2>5. UNION {{v} \X (1 .. withdrawals[v].amount) : v \in Outgoing(x) \ {w}} = Withdrawn(x) \ units
    BY <1>1, <2>1 DEF Withdrawn
  <2>6. Withdrawn(x)' = UNION {{v} \X (1 .. withdrawals'[v].amount) : v \in Outgoing(x)'}
    BY <1>1 DEF Withdrawn
  <2> QED BY <2>3, <2>4, <2>5, <2>6
<1>6. Cardinality(units) = n
  BY <1>3, UnitsCounted
<1> HIDE DEF units
<1>7. IsFiniteSet(Withdrawn(x)) /\ available[x] = Opening[x] - Cardinality(Withdrawn(x))
  BY <1>3 DEF FundsCounted
<1>8. /\ IsFiniteSet(Withdrawn(x)')
      /\ Cardinality(Withdrawn(x)') = Cardinality(Withdrawn(x)) - n
  <2>1. /\ IsFiniteSet(Withdrawn(x) \ units)
        /\ Cardinality(Withdrawn(x) \ units) =
             Cardinality(Withdrawn(x)) - Cardinality(Withdrawn(x) \intersect units)
    BY <1>7, FS_Difference
  <2> QED BY <1>5, <1>6, <2>1
<1>9. available'[x] = Opening[x] - Cardinality(Withdrawn(x)')
  <2>1. available'[x] = available[x] + n
    BY <1>1, <1>2, <1>3
  <2>2. Opening[x] \in Nat /\ Cardinality(Withdrawn(x)) \in Nat
    BY <1>2, <1>3, <1>7, FS_CardinalityType
  <2> QED BY <1>3, <1>7, <1>8, <2>1, <2>2
<1> QED BY <1>4, <1>8, <1>9 DEF FundsCounted

LEMMA FundsKept == IInv /\ IInv' /\ FundsCounted /\ [Next]_vars => FundsCounted'
<1> SUFFICES ASSUME IInv, IInv', FundsCounted, [Next]_vars PROVE FundsCounted'
  OBVIOUS
<1>1. ASSUME NEW r \in Requests, RequestNext(r) PROVE FundsCounted'
  <2>1. CASE CommitConfirm(r) \/ CommitPlatformWithdrawal(r)
    <3>1. PICK x \in Wallets, c \in Nat : Reserves(r, x, c)
      BY <2>1 DEF CommitConfirm, CommitPlatformWithdrawal, Reserves, Wallets,
                  IInv, TypeOK, RequestState
    <3>2. ReservationDone(r, x, c)
      BY <2>1, <3>1, ReservationFacts DEF CommitConfirm, CommitPlatformWithdrawal, At, Holding
    <3> QED BY <3>2, MoneyReserved
  <2>2. CASE ApplyPayoutResult(r)
    <3>1. CASE Settled(req[r].wd)
      BY <2>2, <3>1, MoneyStays DEF ApplyPayoutResult
    <3>2. CASE ~Settled(req[r].wd) /\ StatusAfter(req[r].answer) = "failed"
      BY <2>2, <3>2, MoneyReleased
    <3>3. CASE ~Settled(req[r].wd) /\ StatusAfter(req[r].answer) # "failed"
      <4>1. Applies(r)
        BY <2>2, <3>3, ApplyFacts
      <4>2. /\ req[r].wd \in WithdrawalIds /\ req[r].answer \in Answers
            /\ withdrawals[req[r].wd].status \notin {"absent", "failed"}
        BY <2>2, <3>3 DEF IInv, TypeOK, RequestState, RequestWellPlaced, ApplyPayoutResult, Settled, Terminal
      <4>3. withdrawals'[req[r].wd].status \notin {"absent", "failed"} /\ UNCHANGED available
        BY <3>3, <4>1, <4>2 DEF Applies, StatusAfter, Answers
      <4> QED BY <4>1, <4>2, <4>3, MoneyStays DEF Applies
    <3> QED BY <3>1, <3>2, <3>3
  <2>3. CASE UNCHANGED <<withdrawals, available>>
    BY <2>3, MoneyStays
  <2>4. ASSUME NEW a \in Amounts, NEW w \in WithdrawalIds
        PROVE  /\ BeginConfirm(r, a, w) => UNCHANGED <<withdrawals, available>>
               /\ RequestPlatformWithdrawal(r, a, w) => UNCHANGED <<withdrawals, available>>
    <3>1. BeginConfirm(r, a, w) => UNCHANGED <<withdrawals, available>>
      BY Zenon DEF BeginConfirm
    <3>2. RequestPlatformWithdrawal(r, a, w) => UNCHANGED <<withdrawals, available>>
      BY Zenon DEF RequestPlatformWithdrawal
    <3> QED BY <3>1, <3>2
  <2>5. ASSUME NEW a \in Amounts, RequestCode(r, a) PROVE UNCHANGED <<withdrawals, available>>
    BY <2>5 DEF RequestCode
  <2>6. ASSUME InvalidateCodes(r) \/ CreateCode(r) \/ LockCode(r) \/ RejectConfirm(r) \/ Crash(r)
        PROVE  UNCHANGED <<withdrawals, available>>
    BY <2>6 DEF InvalidateCodes, CreateCode, LockCode, RejectConfirm, Crash
  <2>7. ASSUME InitiatePayout(r) PROVE UNCHANGED <<withdrawals, available>>
    BY <2>7 DEF InitiatePayout, PayoutRefused, PayoutAccepted, PayoutReplyLost
  <2>8. ASSUME NEW w \in WithdrawalIds, RefreshStatus(r, w)
        PROVE  UNCHANGED <<withdrawals, available>>
    BY <2>8 DEF RefreshStatus
  <2> QED BY <1>1, <2>1, <2>2, <2>3, <2>4, <2>5, <2>6, <2>7, <2>8, Zenon DEF RequestNext
<1>2. CASE \E c \in DOMAIN codes : ExpireCode(c)
  BY <1>2, MoneyStays DEF ExpireCode
<1>3. CASE \E w \in WithdrawalIds, s \in Terminal : ProviderSettles(w, s)
  BY <1>3, MoneyStays DEF ProviderSettles
<1>4. CASE UNCHANGED vars
  BY <1>4, MoneyStays DEF vars
<1> QED BY <1>1, <1>2, <1>3, <1>4 DEF Next

\* Whatever requests overlap, die or hear late answers, each wallet holds what came in less the
\* withdrawals that have not failed.
THEOREM MoneyConserved == Spec => []FundsConserved
<1>1. Init => FundsCounted
  <2> SUFFICES ASSUME Init, NEW x \in Wallets
               PROVE  IsFiniteSet(Withdrawn(x)) /\ available[x] = Opening[x] - Cardinality(Withdrawn(x))
    BY DEF FundsCounted
  <2>1. Withdrawn(x) = {}
    BY DEF Init, NoRow, Withdrawn, Outgoing
  <2>2. Opening[x] \in Nat /\ available = Opening
    BY ConstantsAssumption DEF Init
  <2> QED BY <2>1, <2>2, FS_EmptySet
<1>2. FundsCounted => FundsConserved
  BY DEF FundsCounted, FundsConserved
<1> QED BY <1>1, <1>2, FundsKept, Invariance, PTL DEF Spec

-----------------------------------------------------------------------------
(* Refinement.                                                             *)

\* The refinement mapping, named.
Status == [w \in WithdrawalIds |-> withdrawals[w].status]

Funds == [w \in WithdrawalIds |->
            IF LedgerKey("release", w) \in ledger THEN "released"
            ELSE IF LedgerKey("reserve", w) \in ledger THEN "reserved" ELSE "free"]

\* In a state of the invariant the money is where the status says.
LEMMA FundsByStatus ==
  ASSUME LedgerFollowsStatus, NEW w \in WithdrawalIds
  PROVE  Funds[w] = CASE withdrawals[w].status = "absent" -> "free"
                      [] withdrawals[w].status = "failed" -> "released"
                      [] OTHER -> "reserved"
BY DEF LedgerFollowsStatus, Funds

\* A step that changes one row from s to t maps to a step of the life-cycle or to a stutter.
LEMMA RowStepRefines ==
  ASSUME IInv, LedgerFollowsStatus', NEW w \in WithdrawalIds,
         \A v \in WithdrawalIds \ {w} : withdrawals'[v].status = withdrawals[v].status,
         \/ withdrawals[w].status = "absent" /\ withdrawals'[w].status = "requested"
         \/ /\ withdrawals[w].status \in {"requested", "processing"}
            /\ withdrawals'[w].status \in {"processing", "paid", "failed"}
  PROVE  [Lifecycle!Next]_(Lifecycle!vars)
<1>1. /\ Status' = [Status EXCEPT ![w] = withdrawals'[w].status]
      /\ Status[w] = withdrawals[w].status
  BY DEF Status
<1>2. \A v \in WithdrawalIds \ {w} : Funds'[v] = Funds[v]
  <2>1. ASSUME NEW v \in WithdrawalIds \ {w} PROVE Funds'[v] = Funds[v]
    <3>1. /\ LedgerKey("reserve", v) \in ledger' <=> LedgerKey("reserve", v) \in ledger
          /\ LedgerKey("release", v) \in ledger' <=> LedgerKey("release", v) \in ledger
      BY DEF IInv, LedgerFollowsStatus, LedgerKey
    <3> QED BY <3>1 DEF Funds, LedgerKey
  <2> QED BY <2>1
<1>3. Funds' = [Funds EXCEPT ![w] = Funds'[w]]
  BY <1>2 DEF Funds
<1>4. /\ withdrawals[w].status = "absent" => Funds[w] = "free"
      /\ withdrawals[w].status \in {"requested", "processing"} => Funds[w] = "reserved"
  BY DEF IInv, LedgerFollowsStatus, Funds, LedgerKey
<1>5. /\ withdrawals'[w].status \in {"requested", "processing", "paid"} => Funds'[w] = "reserved"
      /\ withdrawals'[w].status = "failed" => Funds'[w] = "released"
  BY DEF LedgerFollowsStatus, Funds, LedgerKey
<1>6. CASE withdrawals[w].status = "absent" /\ withdrawals'[w].status = "requested"
  <2>1. Lifecycle!Request(w)
    BY <1>1, <1>3, <1>4, <1>5, <1>6 DEF Lifecycle!Request, Status, Funds
  <2> QED BY <2>1 DEF Lifecycle!Next
<1>7. CASE /\ withdrawals[w].status \in {"requested", "processing"}
           /\ withdrawals'[w].status = "failed"
  <2>1. Lifecycle!Refund(w)
    BY <1>1, <1>3, <1>5, <1>7 DEF Lifecycle!Refund, Status, Funds
  <2> QED BY <2>1 DEF Lifecycle!Next
<1>8. CASE /\ withdrawals[w].status \in {"requested", "processing"}
           /\ withdrawals'[w].status \in {"processing", "paid"}
  <2>1. Funds' = Funds
    BY <1>3, <1>4, <1>5, <1>8 DEF Funds
  <2>2. CASE withdrawals'[w].status = "paid"
    <3>1. Lifecycle!Pay(w)
      BY <1>1, <1>8, <2>1, <2>2 DEF Lifecycle!Pay, Status, Funds
    <3> QED BY <3>1 DEF Lifecycle!Next
  <2>3. CASE withdrawals[w].status = "requested" /\ withdrawals'[w].status = "processing"
    <3>1. Lifecycle!Process(w)
      BY <1>1, <2>1, <2>3 DEF Lifecycle!Process, Status, Funds
    <3> QED BY <3>1 DEF Lifecycle!Next
  <2>4. CASE withdrawals[w].status = "processing" /\ withdrawals'[w].status = "processing"
    <3>1. Status' = Status
      BY <1>1, <2>4 DEF Status
    <3> QED BY <2>1, <3>1 DEF Lifecycle!vars, Status, Funds
  <2> QED BY <1>8, <2>2, <2>3, <2>4
<1> QED BY <1>6, <1>7, <1>8

\* A step that leaves the withdrawals alone is a stutter of the life-cycle.
LEMMA QuietStepRefines ==
  ASSUME UNCHANGED <<withdrawals, ledger>>
  PROVE  [Lifecycle!Next]_(Lifecycle!vars)
BY DEF Lifecycle!vars, LedgerKey

\* Every step is one of the life-cycle for one withdrawal, or a stutter.
LEMMA StepRefines ==
  ASSUME IInv, IInv', [Next]_vars
  PROVE  [Lifecycle!Next]_(Lifecycle!vars)
<1>1. LedgerFollowsStatus'
  BY DEF IInv
<1>2. ASSUME NEW r \in Requests, RequestNext(r) PROVE [Lifecycle!Next]_(Lifecycle!vars)
  <2>1. CASE CommitConfirm(r) \/ CommitPlatformWithdrawal(r)
    <3>1. PICK x \in Wallets, c \in Nat : Reserves(r, x, c)
      BY <2>1 DEF CommitConfirm, CommitPlatformWithdrawal, Reserves, Wallets,
                  IInv, TypeOK, RequestState
    <3>2. ReservationDone(r, x, c)
      BY <2>1, <3>1, ReservationFacts DEF CommitConfirm, CommitPlatformWithdrawal, At, Holding
    <3> QED BY <1>1, <3>2, RowStepRefines DEF ReservationDone
  <2>2. CASE ApplyPayoutResult(r)
    <3>1. CASE Settled(req[r].wd)
      BY <2>2, <3>1, QuietStepRefines DEF ApplyPayoutResult
    <3>2. CASE ~Settled(req[r].wd)
      <4>1. Applies(r)
        BY <2>2, <3>2, ApplyFacts
      <4>2. /\ req[r].wd \in WithdrawalIds /\ req[r].answer \in Answers
            /\ withdrawals[req[r].wd].status \in {"requested", "processing"}
        BY <2>2, <3>2 DEF IInv, TypeOK, RequestState, WithdrawalRow, RequestWellPlaced,
                          ApplyPayoutResult, Settled
      <4>3. withdrawals'[req[r].wd].status \in {"processing", "paid", "failed"}
        BY <4>1, <4>2 DEF Applies, StatusAfter, Answers
      <4> QED BY <1>1, <4>1, <4>2, <4>3, RowStepRefines DEF Applies
    <3> QED BY <3>1, <3>2
  <2>3. CASE UNCHANGED <<withdrawals, ledger>>
    BY <2>3, QuietStepRefines
  <2> QED
    BY <1>2, <2>1, <2>2, <2>3
       DEF RequestNext, InitiatePayout, RequestCode, InvalidateCodes, CreateCode, BeginConfirm,
           LockCode, RejectConfirm, RequestPlatformWithdrawal, PayoutRefused, PayoutAccepted,
           PayoutReplyLost, RefreshStatus, Crash
<1>3. CASE \E c \in DOMAIN codes : ExpireCode(c)
  BY <1>3, QuietStepRefines DEF ExpireCode
<1>4. CASE \E w \in WithdrawalIds, s \in Terminal : ProviderSettles(w, s)
  BY <1>4, QuietStepRefines DEF ProviderSettles
<1>5. CASE UNCHANGED vars
  BY <1>5, QuietStepRefines DEF vars
<1> QED BY <1>2, <1>3, <1>4, <1>5 DEF Next

\* The service implements the withdrawal life-cycle: money is reserved when a withdrawal appears,
\* goes back exactly when it fails, and nothing moves after "paid" or "failed".
THEOREM Refinement == Spec => ImplementsLifecycle
<1>1. Init => Lifecycle!Init
  BY DEF Init, NoRow, Lifecycle!Init, LedgerKey
<1>2. IInv /\ IInv' /\ [Next]_vars => [Lifecycle!Next]_(Lifecycle!vars)
  BY StepRefines
<1> QED
  BY <1>1, <1>2, Invariance, PTL DEF Spec, ImplementsLifecycle, Lifecycle!Spec
=============================================================================
