--------------------------- MODULE MerchantAccounts ---------------------------
(***************************************************************************)
(* The account of one merchant: sign-up, verification and password reset   *)
(* by one-time codes (src/internal/auth/service.go) and the orders that    *)
(* pay for the subscription (src/internal/payments/service.go).  They meet *)
(* in the users row: activation updates columns, the auth service saves    *)
(* whole copies, with bcrypt between reading and saving.  Passwords and    *)
(* paid periods are numbered in the order they were made.                  *)
(***************************************************************************)
EXTENDS Integers, FiniteSets, PaymentWords

CONSTANTS Calls,    \* requests in flight
          Orders,   \* payment orders, each for the subscription or for a package
          MaxCodes, MaxPasswords, MaxPeriods, MaxVouchers,  \* bounds
          NoOrderId

ASSUME AccountsAssumption == {MaxCodes, MaxPasswords, MaxPeriods, MaxVouchers} \subseteq Nat

VARIABLES user,        \* the users row
          codes,       \* auth_codes rows, in order of creation
          passwords,   \* passwords people have chosen so far
          order,       \* payment_orders rows
          packaged,    \* orders for a package get a voucher
          provider,    \* what ioTec holds of an order
          issued,      \* vouchers created for an order
          given,       \* periods an order has paid for
          periods,     \* activations so far
          call,        \* requests in flight
          chosen,      \* history: the password of the last sign-up or reset that took effect
          usedTwice,   \* history: a code was honoured that had been used or replaced
          stale,       \* history: a copy of the users row was saved over a newer one
          collided,    \* history: two requests were issuing or using codes of one purpose together
          voucherLost  \* history: orders whose check ended, or was overtaken, before its voucher was saved

auth == <<user, codes, passwords, chosen, usedTwice, collided>>
payment == <<order, packaged, provider, issued, given, periods, voucherLost>>
accountVars == <<auth, payment, call, stale>>

Purposes == {"verify_email", "reset_password"}

NoPassword == 0
NoPeriod == 0
NoVoucher == 0

NoUser == [exists |-> FALSE, verified |-> FALSE, password |-> NoPassword, status |-> "trial", trialEnds |-> FALSE,
           paid |-> NoPeriod]

NoOrder == [stage |-> "none", status |-> "pending", voucher |-> NoVoucher]

NoRequest == [pc |-> "idle", purpose |-> "verify_email", code |-> 0, password |-> NoPassword, copy |-> NoUser,
              target |-> NoOrderId, read |-> NoOrder]

On(q, p) == call[q].pc = p

Ends(q) == [call EXCEPT ![q] = NoRequest]

\* Nobody, or an account that predates the subscription columns.
AccountsInit ==
  /\ \/ user = NoUser /\ passwords = 0
     \/ user = [NoUser EXCEPT !.exists = TRUE, !.verified = TRUE, !.password = 1, !.status = ""] /\ passwords = 1
  /\ codes = << >>
  /\ order = [o \in Orders |-> NoOrder]
  /\ packaged \in SUBSET Orders
  /\ provider = [o \in Orders |-> "none"]
  /\ issued = [o \in Orders |-> 0]
  /\ given = [o \in Orders |-> 0]
  /\ periods = 0
  /\ call = [q \in Calls |-> NoRequest]
  /\ chosen = passwords
  /\ usedTwice = FALSE /\ stale = FALSE /\ collided = FALSE
  /\ voucherLost = {}

-----------------------------------------------------------------------------
(* One-time codes.                                                         *)

Unused(purpose) == {c \in DOMAIN codes : codes[c].purpose = purpose /\ ~codes[c].used}

\* Another request is between reading and writing the codes of this purpose.
Meets(q, purpose, steps) == \E g \in Calls \ {q} : call[g].pc \in steps /\ call[g].purpose = purpose

Newest(C) == {c \in C : \A d \in C : d <= c}

\* Signup: nobody has the address yet.
Signup(q) ==
  /\ On(q, "idle")
  /\ ~user.exists
  /\ passwords < MaxPasswords
  /\ passwords' = passwords + 1
  /\ call' = [call EXCEPT ![q] = [NoRequest EXCEPT !.pc = "replace", !.password = passwords + 1]]
  /\ UNCHANGED <<user, codes, chosen, usedTwice, collided, payment, stale>>

\* ResendVerification copies the pending sign-up of the newest code; an account that waits has none.
ResendVerification(q) ==
  /\ On(q, "idle")
  /\ \E pending \in IF user.exists THEN {NoPassword}
                    ELSE {codes[c].password : c \in Newest(Unused("verify_email"))} :
       call' = [call EXCEPT ![q] = [NoRequest EXCEPT !.pc = "replace", !.password = pending]]
  /\ ~user.verified
  /\ UNCHANGED <<auth, payment, stale>>

RequestPasswordReset(q) ==
  /\ On(q, "idle")
  /\ user.exists
  /\ call' = [call EXCEPT ![q] = [NoRequest EXCEPT !.pc = "replace", !.purpose = "reset_password"]]
  /\ UNCHANGED <<auth, payment, stale>>

\* issueCode marks the earlier codes used ...
ReplaceCodes(q) ==
  /\ On(q, "replace")
  /\ codes' = [c \in DOMAIN codes |-> IF c \in Unused(call[q].purpose) THEN [codes[c] EXCEPT !.used = TRUE] ELSE codes[c]]
  /\ call' = [call EXCEPT ![q].pc = "issue"]
  /\ collided' = (collided \/ Meets(q, call[q].purpose, {"issue", "use"}))
  /\ UNCHANGED <<user, passwords, chosen, usedTwice, payment, stale>>

\* ... and creates the new one.
IssueCode(q) ==
  /\ On(q, "issue")
  /\ Cardinality(DOMAIN codes) < MaxCodes
  /\ codes' = [c \in 1 .. Cardinality(DOMAIN codes) + 1 |->
                 IF c \in DOMAIN codes THEN codes[c]
                 ELSE [purpose |-> call[q].purpose, used |-> FALSE, password |-> call[q].password]]
  /\ call' = Ends(q)
  /\ UNCHANGED <<user, passwords, chosen, usedTwice, collided, payment, stale>>

\* Mutant: the newest code counts, used or not.
NewestOfAll(purpose) == Newest({c \in DOMAIN codes : codes[c].purpose = purpose})

\* consumeCode asks for the newest code that was not used.
Consumable(purpose) == Newest(Unused(purpose))

\* Somebody types in code c, for a reset with a new password.  A wrong code and an expired one change
\* nothing, as if nobody had typed them in.
EnterCode(q, c) ==
  LET purpose == codes[c].purpose
      reset   == purpose = "reset_password"
  IN  /\ On(q, "idle")
      /\ c \in Consumable(purpose)
      /\ reset => passwords < MaxPasswords
      /\ passwords' = IF reset THEN passwords + 1 ELSE passwords
      /\ call' = [call EXCEPT ![q] = [NoRequest EXCEPT !.pc = "use", !.purpose = purpose, !.code = c,
                                    !.password = IF reset THEN passwords + 1 ELSE codes[c].password]]
      /\ usedTwice' = (usedTwice \/ codes[c].used \/ \E d \in DOMAIN codes : d > c /\ codes[d].purpose = purpose)
      /\ collided' = (collided \/ Meets(q, purpose, {"use"}))
      /\ UNCHANGED <<user, codes, chosen, payment, stale>>

\* Save of the code.
UseCode(q) ==
  /\ On(q, "use")
  /\ usedTwice' = (usedTwice \/ codes[call[q].code].used)
  /\ codes' = [codes EXCEPT ![call[q].code].used = TRUE]
  /\ call' = [call EXCEPT ![q].pc = "account"]
  /\ UNCHANGED <<user, passwords, chosen, collided, payment, stale>>

-----------------------------------------------------------------------------
(* The users row.                                                          *)

\* ensureSubscriptionDefaults.
Repaired(u) ==
  LET status == IF u.status = "" THEN "trial" ELSE u.status
  IN  [u EXCEPT !.status = status, !.trialEnds = (status = "trial"),
                !.paid = IF status = "trial" THEN NoPeriod ELSE @]

\* VerifyEmail finds the account or creates it from the pending sign-up.  If two try, one fails at the
\* unique address (Fail).
FindOrCreate(q) ==
  LET new == [NoUser EXCEPT !.exists = TRUE, !.password = call[q].password, !.trialEnds = TRUE]
  IN  /\ On(q, "account")
      /\ call[q].purpose = "verify_email"
      /\ IF user.exists
         THEN /\ call' = [call EXCEPT ![q].pc = "save", ![q].copy = user]
              /\ UNCHANGED <<user, chosen>>
         ELSE IF call[q].password = NoPassword
         THEN call' = Ends(q) /\ UNCHANGED <<user, chosen>>
         ELSE /\ user' = new
              /\ chosen' = call[q].password
              /\ call' = [call EXCEPT ![q].pc = "save", ![q].copy = new]
      /\ UNCHANGED <<codes, passwords, usedTwice, collided, payment, stale>>

\* ResetPassword reads the account, and hashes.
ReadForReset(q) ==
  /\ On(q, "account")
  /\ call[q].purpose = "reset_password"
  /\ call' = [call EXCEPT ![q].pc = "save", ![q].copy = user]
  /\ UNCHANGED <<auth, payment, stale>>

\* Login and UserFromToken repair an account that lacks its trial.
ReadForRepair(q) ==
  /\ On(q, "idle")
  /\ user.verified
  /\ Repaired(user) # user
  /\ call' = [call EXCEPT ![q] = [NoRequest EXCEPT !.pc = "repair", !.copy = user]]
  /\ UNCHANGED <<auth, payment, stale>>

SaveUser(q) ==
  LET reset == On(q, "save") /\ call[q].purpose = "reset_password"
  IN  /\ On(q, "save") \/ On(q, "repair")
      /\ user' = CASE On(q, "repair") -> Repaired(call[q].copy)
                   [] reset           -> [call[q].copy EXCEPT !.password = call[q].password]
                   [] OTHER           -> [Repaired(call[q].copy) EXCEPT !.verified = TRUE]
      /\ chosen' = IF reset THEN call[q].password ELSE chosen
      /\ stale' = (stale \/ user # call[q].copy)
      /\ call' = Ends(q)
      /\ UNCHANGED <<codes, passwords, usedTwice, collided, payment>>

-----------------------------------------------------------------------------
(* Subscription orders.                                                    *)

\* StartOrder: the row, the collection, the tracking id, an answer may be lost.
StartOrder(o) ==
  /\ order[o].stage = "none"
  /\ user.verified
  /\ order' = [order EXCEPT ![o].stage = "created"]
  /\ UNCHANGED <<auth, packaged, provider, issued, given, periods, voucherLost, call, stale>>

SubmitCollection(o) ==
  /\ order[o].stage = "created"
  /\ provider' = [provider EXCEPT ![o] = "pending"]
  /\ \E answered \in {"submitted", "lost"} : order' = [order EXCEPT ![o].stage = answered]
  /\ UNCHANGED <<auth, packaged, issued, given, periods, voucherLost, call, stale>>

TrackOrder(o) ==
  /\ order[o].stage = "submitted"
  /\ order' = [order EXCEPT ![o].stage = "tracked"]
  /\ UNCHANGED <<auth, packaged, provider, issued, given, periods, voucherLost, call, stale>>

\* ioTec.
ProviderMoves(o) ==
  /\ \E outcome \in CASE provider[o] = "pending" -> {"paid", "failed"} [] provider[o] = "paid" -> {"reversed"} [] OTHER -> {} :
       provider' = [provider EXCEPT ![o] = outcome]
  /\ UNCHANGED <<auth, order, packaged, issued, given, periods, voucherLost, call, stale>>

\* A status check or a callback reads the order.
ReadOrder(q, o) ==
  /\ On(q, "idle")
  /\ order[o].stage = "tracked"
  /\ call' = [call EXCEPT ![q] = [NoRequest EXCEPT !.pc = "ask", !.target = o, !.read = order[o]]]
  /\ UNCHANGED <<auth, payment, stale>>

\* Mutant: the order is saved before the subscription is activated.
SavedFirst(pc) ==
  CASE pc = "ask" -> "voucher" [] pc = "voucher" -> "store" [] pc = "store" -> "activate" [] OTHER -> "idle"

\* applyStatus of a payment that was made.
AfterPaid(pc) ==
  CASE pc = "ask" -> "voucher" [] pc = "voucher" -> "activate" [] pc = "activate" -> "store" [] OTHER -> "idle"

Passed(q) == IF AfterPaid(call[q].pc) = "idle" THEN NoRequest ELSE [call[q] EXCEPT !.pc = AfterPaid(call[q].pc)]

\* A payment is passed on; any other answer is only stored.
Answered(q, status) ==
  IF status = "paid" THEN Passed(q)
  ELSE [call[q] EXCEPT !.pc = "storeUnpaid", !.read.status = IF status = "unpaid" THEN "pending" ELSE status]

AskProvider(q) ==
  /\ On(q, "ask")
  /\ \E word \in Says[provider[call[q].target]] :
       call' = [call EXCEPT ![q] = Answered(q, NormalizePaymentStatus(word))]
  /\ UNCHANGED <<auth, payment, stale>>

\* ensureVoucher; the sync of RADIUS can fail after the voucher was created.
EnsureVoucher(q) ==
  LET o == call[q].target
  IN  /\ On(q, "voucher")
      /\ IF o \notin packaged \/ call[q].read.voucher # NoVoucher
         THEN /\ call' = [call EXCEPT ![q] = Passed(q)]
              /\ UNCHANGED <<issued, voucherLost>>
         ELSE /\ issued[o] < MaxVouchers
              /\ issued' = [issued EXCEPT ![o] = @ + 1]
              /\ \/ /\ call' = [call EXCEPT ![q] = [Passed(q) EXCEPT !.read.voucher = issued[o] + 1]]
                    /\ UNCHANGED voucherLost
                 \/ /\ call' = Ends(q)
                    /\ voucherLost' = voucherLost \union {o}
      /\ UNCHANGED <<auth, order, packaged, provider, given, periods, stale>>

\* updateUserSubscription: one month from now, whichever month was paid.
Activate(q) ==
  /\ On(q, "activate")
  /\ periods < MaxPeriods
  /\ periods' = periods + 1
  /\ given' = [given EXCEPT ![call[q].target] = @ + 1]
  /\ user' = [user EXCEPT !.status = "subscribed", !.paid = periods + 1, !.trialEnds = FALSE]
  /\ call' = [call EXCEPT ![q] = Passed(q)]
  /\ UNCHANGED <<codes, passwords, chosen, usedTwice, collided, order, packaged, provider, issued, voucherLost, stale>>

\* Save of the whole order.
StoreOrder(q) ==
  LET o   == call[q].target
      new == IF On(q, "store") THEN [call[q].read EXCEPT !.status = "paid"] ELSE call[q].read
  IN  /\ On(q, "store") \/ On(q, "storeUnpaid")
      /\ order' = [order EXCEPT ![o] = new]
      /\ voucherLost' = IF order[o].voucher \notin {NoVoucher, new.voucher} THEN voucherLost \union {o} ELSE voucherLost
      /\ call' = [call EXCEPT ![q] = IF On(q, "store") THEN Passed(q) ELSE NoRequest]
      /\ UNCHANGED <<auth, packaged, provider, issued, given, periods, stale>>

\* A request ends in an error or with the process.
Fail(q) ==
  /\ ~On(q, "idle")
  /\ call' = Ends(q)
  /\ voucherLost' = IF call[q].pc \in {"activate", "store"} /\ call[q].read.voucher # order[call[q].target].voucher
                    THEN voucherLost \union {call[q].target} ELSE voucherLost
  /\ UNCHANGED <<auth, order, packaged, provider, issued, given, periods, stale>>

AccountsNext ==
  \/ \E o \in Orders : StartOrder(o) \/ SubmitCollection(o) \/ TrackOrder(o) \/ ProviderMoves(o)
  \/ \E q \in Calls :
       \/ Signup(q) \/ ResendVerification(q) \/ RequestPasswordReset(q) \/ ReplaceCodes(q) \/ IssueCode(q)
       \/ \E c \in DOMAIN codes : EnterCode(q, c)
       \/ UseCode(q) \/ FindOrCreate(q) \/ ReadForReset(q) \/ ReadForRepair(q) \/ SaveUser(q)
       \/ \E o \in Orders : ReadOrder(q, o)
       \/ AskProvider(q) \/ EnsureVoucher(q) \/ Activate(q) \/ StoreOrder(q) \/ Fail(q)

-----------------------------------------------------------------------------
(* Properties.                                                             *)

\* A code that was used or replaced is honoured only if two requests overlapped, and the password is
\* the one last chosen with a code unless a copy of the row was saved over a newer one.
CodesGovernAccount ==
  /\ usedTwice => collided
  /\ user.exists /\ user.password # chosen => stale

\* An order is shown as paid only after it gave a subscription, and gives one only for money that came
\* in, if ioTec uses plain words.  A paid period is not lost unless a copy of the row was saved over it.
\* A package has one voucher, and the order shows it, unless a check ended or was overtaken halfway.
PaymentsHonoured ==
  /\ \A o \in Orders :
       /\ order[o].status = "paid" => given[o] > 0
       /\ given[o] > 0 => provider[o] \in Taken
       /\ o \in packaged /\ order[o].status = "paid" => order[o].voucher # NoVoucher
       /\ issued[o] > 1 => o \in voucherLost \/ \E q \in Calls : call[q].target = o
  /\ periods > 0 => stale \/ (user.status = "subscribed" /\ user.paid = periods)
=============================================================================
