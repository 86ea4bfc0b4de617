------------------------ MODULE MerchantAccounts_proofs ------------------------
(***************************************************************************)
(* Theorems about MerchantAccounts, for every number of requests, orders,  *)
(* codes, passwords, periods and vouchers.                                 *)
(***************************************************************************)
EXTENDS MerchantAccounts, FiniteSetTheorems, TLAPS

AccountsSpec == AccountsInit /\ [][AccountsNext]_accountVars

UserRow == [exists : BOOLEAN, verified : BOOLEAN, password : Nat, status : {"", "trial", "subscribed"},
            trialEnds : BOOLEAN, paid : Nat]

Code == [purpose : Purposes, used : BOOLEAN, password : Nat]

Money == {"none"} \union Outcomes

OrderRow == [stage : {"none", "created", "submitted", "lost", "tracked"}, status : {"pending", "paid", "failed"}, voucher : Nat]

Holding == {"activate", "store"}

Settling == {"voucher"} \union Holding

Paying == {"ask", "storeUnpaid"} \union Settling

CallState ==
  [pc : {"idle", "replace", "issue", "use", "account", "save", "repair"} \union Paying,
   purpose : Purposes, code : Nat, password : Nat, copy : UserRow,
   target : Orders \union {NoOrderId}, read : OrderRow]

Typed ==
  /\ user \in UserRow
  /\ \E n \in Nat : codes \in [1 .. n -> Code]
  /\ passwords \in Nat /\ periods \in Nat /\ chosen \in Nat
  /\ order \in [Orders -> OrderRow]
  /\ packaged \in SUBSET Orders /\ voucherLost \in SUBSET Orders
  /\ provider \in [Orders -> Money]
  /\ issued \in [Orders -> Nat] /\ given \in [Orders -> Nat]
  /\ call \in [Calls -> CallState]
  /\ usedTwice \in BOOLEAN /\ stale \in BOOLEAN /\ collided \in BOOLEAN

\* Without overlaps only the newest code of a purpose can be unused.
CodesOrdered ==
  ~collided => \A c, d \in DOMAIN codes : c < d /\ codes[c].purpose = codes[d].purpose => codes[c].used

InHand == {"issue", "use"}

\* Without overlaps a code that is being used is unused, a code is issued after all others of its
\* purpose were replaced, and nobody else does either with that purpose.
CodesApart ==
  ~collided => \A q \in Calls :
    /\ call[q].pc = "use" => /\ call[q].code \in DOMAIN codes /\ ~codes[call[q].code].used
                             /\ codes[call[q].code].purpose = call[q].purpose
    /\ call[q].pc = "issue" => \A d \in DOMAIN codes : codes[d].purpose = call[q].purpose => codes[d].used
    /\ \A g \in Calls \ {q} :
         call[q].pc \in InHand /\ call[g].pc \in InHand => call[q].purpose # call[g].purpose

\* There is an account behind whatever was verified, reset, ordered or paid.
AccountBehind ==
  /\ user.verified => user.exists
  /\ \A c \in DOMAIN codes : codes[c].purpose = "reset_password" => user.exists
  /\ \A o \in Orders : order[o].stage # "none" => user.exists
  /\ periods > 0 => user.exists

\* If ioTec uses plain words, it took the money of order o.
Came(o) == PlainWords => provider[o] \in Taken

\* What a request knows: the account it saves was there, and a payment it settles had come in.
RequestWell(q) ==
  /\ call[q].purpose = "reset_password" => user.exists
  /\ call[q].pc \in {"save", "repair"} => call[q].copy.exists
  /\ call[q].pc \in Paying => user.exists /\ call[q].target \in Orders /\ call[q].read.stage = "tracked"
  /\ call[q].pc \in Paying => provider[call[q].target] \in Outcomes
  /\ call[q].pc \in Settling => Came(call[q].target)
  /\ call[q].pc \in Holding /\ call[q].target \in packaged => call[q].read.voucher # NoVoucher
  /\ call[q].pc = "store" => given[call[q].target] > 0
  /\ call[q].pc = "storeUnpaid" => call[q].read.status # "paid"

\* The columns of an order agree with what it gave and with ioTec.
OrderWell(o) ==
  /\ IF order[o].stage \in {"none", "created"} THEN provider[o] = "none" ELSE provider[o] \in Outcomes
  /\ order[o].status = "paid" => given[o] > 0
  /\ given[o] > 0 => Came(o)
  /\ o \in packaged /\ order[o].status = "paid" => order[o].voucher # NoVoucher

Holds(q, o, v) == call[q].pc \in Holding /\ call[q].target = o /\ call[q].read.voucher = v

\* Each voucher of an order is on the order or on its way there, or noted as lost.
VouchersTracked ==
  \A o \in Orders \ voucherLost : \A v \in 1 .. issued[o] :
    order[o].voucher = v \/ \E q \in Calls : Holds(q, o, v)

PeriodKept == periods > 0 => stale \/ (user.status = "subscribed" /\ user.paid = periods)

IInv == /\ Typed
        /\ CodesOrdered /\ CodesApart /\ CodesGovernAccount
        /\ AccountBehind
        /\ \A q \in Calls : RequestWell(q)
        /\ \A o \in Orders : OrderWell(o)
        /\ VouchersTracked
        /\ PeriodKept

-----------------------------------------------------------------------------
LEMMA ValuesTyped == NoUser \in UserRow /\ NoOrder \in OrderRow /\ NoRequest \in CallState
BY DEF NoUser, UserRow, NoOrder, OrderRow, NoRequest, CallState, Purposes, NoPassword, NoPeriod, NoVoucher

LEMMA Initially == AccountsInit => IInv
<1> SUFFICES ASSUME AccountsInit PROVE IInv
  OBVIOUS
<1> USE DEF AccountsInit
<1>0. \/ user = NoUser /\ passwords = 0 /\ user \in UserRow /\ ~user.exists /\ ~user.verified
      \/ user.exists /\ user.password = 1 /\ passwords = 1 /\ user \in UserRow
  <2>1. CASE user = NoUser /\ passwords = 0
    BY <2>1, ValuesTyped DEF NoUser
  <2>2. CASE /\ user = [NoUser EXCEPT !.exists = TRUE, !.verified = TRUE, !.password = 1, !.status = ""]
             /\ passwords = 1
    BY <2>2, ValuesTyped DEF UserRow
  <2> QED BY <2>1, <2>2
<1>1. Typed
  <2>1. codes \in [1 .. 0 -> Code]
    OBVIOUS
  <2>2. user \in UserRow /\ passwords \in Nat
    BY <1>0
  <2>3. \E n \in Nat : codes \in [1 .. n -> Code]
    BY <2>1
  <2> QED BY <2>2, <2>3, ValuesTyped DEF Typed, Money
<1>2. CodesOrdered /\ CodesApart /\ CodesGovernAccount /\ AccountBehind
  BY <1>0 DEF CodesOrdered, CodesApart, InHand, NoRequest, CodesGovernAccount, AccountBehind, NoOrder
<1>3. ASSUME NEW q \in Calls PROVE RequestWell(q)
  BY DEF RequestWell, NoRequest, Paying, Settling, Holding
<1>4. ASSUME NEW o \in Orders PROVE OrderWell(o)
  BY DEF OrderWell, NoOrder
<1>5. VouchersTracked /\ PeriodKept
  BY DEF VouchersTracked, PeriodKept
<1> QED BY <1>1, <1>2, <1>3, <1>4, <1>5 DEF IInv

-----------------------------------------------------------------------------
(* What one request's step leaves of the others.                           *)

\* The other requests stay well while accounts, settled payments and periods do not disappear.
LEMMA OthersWell ==
  ASSUME IInv, NEW q \in Calls, NEW v \in CallState, call' = [call EXCEPT ![q] = v],
         user.exists => user'.exists,
         \A o \in Orders : provider[o] \in Taken => provider'[o] \in Taken,
         \A o \in Orders : provider[o] \in Outcomes => provider'[o] \in Outcomes,
         \A o \in Orders : given[o] > 0 => given'[o] > 0,
         packaged' = packaged,
         RequestWell(q)'
  PROVE  \A p \in Calls : RequestWell(p)'
<1>1. ASSUME NEW p \in Calls, p # q PROVE RequestWell(p)'
  <2>1. call'[p] = call[p]
    BY <1>1 DEF IInv, Typed
  <2>2. RequestWell(p)
    BY DEF IInv
  <2> QED BY <2>1, <2>2 DEF RequestWell, Paying, Settling, Holding, Came
<1> QED BY <1>1

\* A voucher that request q carries is not forgotten.
LEMMA VouchersStay ==
  ASSUME IInv, NEW q \in Calls, NEW v \in CallState, call' = [call EXCEPT ![q] = v],
         issued' = issued,
         \A o \in Orders : order'[o].voucher = order[o].voucher,
         voucherLost \subseteq voucherLost',
         call[q].pc \in Holding =>
           \/ v.pc \in Holding /\ v.target = call[q].target /\ v.read.voucher = call[q].read.voucher
           \/ order[call[q].target].voucher = call[q].read.voucher
           \/ call[q].target \in voucherLost'
  PROVE  VouchersTracked'
<1> SUFFICES ASSUME NEW o \in Orders \ voucherLost', NEW n \in 1 .. issued'[o]
             PROVE  order'[o].voucher = n \/ \E p \in Calls : Holds(p, o, n)'
  BY DEF VouchersTracked
<1>1. order[o].voucher = n \/ \E p \in Calls : Holds(p, o, n)
  BY DEF IInv, VouchersTracked
<1>2. ASSUME NEW p \in Calls, Holds(p, o, n), p # q PROVE Holds(p, o, n)'
  BY <1>2 DEF IInv, Typed, Holds
<1>3. CASE Holds(q, o, n)
  BY <1>3 DEF IInv, Typed, Holds
<1> QED BY <1>1, <1>2, <1>3

\* A request that lets go of codes, or has none, leaves those of the others.
LEMMA CodesUntouched ==
  ASSUME IInv, NEW q \in Calls, NEW v \in CallState, call' = [call EXCEPT ![q] = v],
         UNCHANGED <<codes, collided>>, v.pc \notin InHand
  PROVE  CodesApart'
BY DEF IInv, Typed, CodesApart, InHand, Unused

\* No other request has codes of this purpose in hand.
Alone(q, purpose) == \A g \in Calls \ {q} : call[g].pc \in InHand => call[g].purpose # purpose

\* The step leaves the codes of the other purposes.
Spares(purpose) ==
  /\ \A d \in DOMAIN codes : codes[d].purpose # purpose => d \in DOMAIN codes' /\ codes'[d] = codes[d]
  /\ \A d \in DOMAIN codes' : codes'[d].purpose # purpose => d \in DOMAIN codes /\ codes'[d] = codes[d]

\* What a request in state v relies on after the step.
Backed(v, purpose) ==
  /\ v.pc \in InHand => v.purpose = purpose
  /\ v.pc = "use" => v.code \in DOMAIN codes' /\ ~codes'[v.code].used /\ codes'[v.code].purpose = v.purpose
  /\ v.pc = "issue" => \A d \in DOMAIN codes' : codes'[d].purpose = v.purpose => codes'[d].used

\* A request that works on the codes of a purpose nobody else has in hand disturbs no other.
LEMMA OthersApart ==
  ASSUME IInv, ~collided, NEW q \in Calls, NEW v \in CallState, call' = [call EXCEPT ![q] = v],
         NEW purpose \in Purposes,
         Alone(q, purpose), Spares(purpose), Backed(v, purpose)
  PROVE  CodesApart'
<1>1. call'[q] = v /\ \A g \in Calls \ {q} : call'[g] = call[g]
  BY DEF IInv, Typed
<1> SUFFICES ASSUME NEW g \in Calls
             PROVE  /\ call'[g].pc = "use" => /\ call'[g].code \in DOMAIN codes' /\ ~codes'[call'[g].code].used
                                             /\ codes'[call'[g].code].purpose = call'[g].purpose
                    /\ call'[g].pc = "issue" => \A d \in DOMAIN codes' : codes'[d].purpose = call'[g].purpose => codes'[d].used
                    /\ \A h \in Calls \ {g} :
                         call'[g].pc \in InHand /\ call'[h].pc \in InHand => call'[g].purpose # call'[h].purpose
  BY DEF CodesApart, InHand
<1>2. CASE g = q
  <2>1. ASSUME NEW h \in Calls \ {g}
        PROVE  v.pc \in InHand /\ call'[h].pc \in InHand => v.purpose # call'[h].purpose
    BY <1>1, <1>2 DEF Alone, Backed
  <2> QED BY <1>1, <1>2, <2>1 DEF Backed
<1>3. CASE g # q
  <2>1. /\ call[g].pc = "use" => /\ call[g].code \in DOMAIN codes /\ ~codes[call[g].code].used
                                 /\ codes[call[g].code].purpose = call[g].purpose
        /\ call[g].pc = "issue" => \A d \in DOMAIN codes : codes[d].purpose = call[g].purpose => codes[d].used
        /\ \A h \in Calls \ {g} :
             call[g].pc \in InHand /\ call[h].pc \in InHand => call[g].purpose # call[h].purpose
    BY <1>3 DEF IInv, CodesApart
  <2>2. call[g].pc \in InHand => call[g].purpose # purpose
    BY <1>3 DEF Alone
  <2>3. call[g].pc \in {"use", "issue"} => call[g].pc \in InHand
    BY DEF InHand
  <2>4. call'[g] = call[g]
    BY <1>1, <1>3
  <2>5. call[g].pc = "use" => /\ call[g].code \in DOMAIN codes' /\ ~codes'[call[g].code].used
                             /\ codes'[call[g].code].purpose = call[g].purpose
    BY <2>1, <2>2, <2>3 DEF Spares
  <2>6. call[g].pc = "issue" => \A d \in DOMAIN codes' : codes'[d].purpose = call[g].purpose => codes'[d].used
    BY <2>1, <2>2, <2>3 DEF Spares
  <2>7. \A h \in Calls \ {g} : call[g].pc \in InHand /\ call'[h].pc \in InHand => call[g].purpose # call'[h].purpose
    BY <1>1, <1>3, <2>1, <2>2 DEF Backed
  <2> QED BY <2>4, <2>5, <2>6, <2>7
<1> QED BY <1>2, <1>3

\* A step that only moves request q.
LEMMA CallMoves ==
  ASSUME IInv, NEW q \in Calls, NEW v \in CallState, call' = [call EXCEPT ![q] = v],
         UNCHANGED <<user, codes, chosen, usedTwice, collided, stale, order, packaged, provider, issued,
                     given, periods>>,
         v.pc \notin InHand,
         passwords' \in Nat,
         voucherLost' \in SUBSET Orders, voucherLost \subseteq voucherLost',
         RequestWell(q)',
         call[q].pc \in Holding =>
           \/ v.pc \in Holding /\ v.target = call[q].target /\ v.read.voucher = call[q].read.voucher
           \/ order[call[q].target].voucher = call[q].read.voucher
           \/ call[q].target \in voucherLost'
  PROVE  IInv'
<1>0. CodesApart'
  BY CodesUntouched
<1>1. Typed'
  BY DEF IInv, Typed
<1>2. CodesOrdered' /\ CodesGovernAccount' /\ AccountBehind' /\ PeriodKept'
  BY DEF IInv, CodesOrdered, CodesGovernAccount, AccountBehind, PeriodKept
<1>3. \A p \in Calls : RequestWell(p)'
  BY OthersWell
<1>4. ASSUME NEW o \in Orders PROVE OrderWell(o)'
  BY DEF IInv, OrderWell, Came
<1>5. VouchersTracked'
  BY VouchersStay
<1> QED BY <1>0, <1>1, <1>2, <1>3, <1>4, <1>5 DEF IInv

-----------------------------------------------------------------------------
(* Codes.                                                                  *)

\* A request that begins, or ends, without an order in hand.
LEMMA PlainState ==
  ASSUME IInv, NEW pc \in {"replace", "issue", "use", "account"}, NEW purpose \in Purposes,
         NEW code \in Nat, NEW password \in Nat
  PROVE  [NoRequest EXCEPT !.pc = pc, !.purpose = purpose, !.code = code, !.password = password] \in CallState
BY ValuesTyped DEF CallState

LEMMA EndsWell ==
  ASSUME IInv, NEW q \in Calls, call' = Ends(q)
  PROVE  /\ call' = [call EXCEPT ![q] = NoRequest]
         /\ RequestWell(q)'
<1>1. call'[q] = NoRequest
  BY DEF IInv, Typed, Ends
<1> QED BY <1>1 DEF Ends, RequestWell, NoRequest, Paying, Settling, Holding

LEMMA SignupKeeps ==
  ASSUME IInv, NEW q \in Calls, Signup(q)
  PROVE  IInv'
<1> DEFINE v == [NoRequest EXCEPT !.pc = "replace", !.password = passwords + 1]
<1>0. passwords + 1 \in Nat
  BY DEF IInv, Typed
<1>1. v \in CallState
  BY <1>0, ValuesTyped DEF CallState
<1>2. call' = [call EXCEPT ![q] = v] /\ passwords' \in Nat /\ call[q].pc = "idle"
      /\ UNCHANGED <<user, codes, chosen, usedTwice, collided, payment, stale>>
  BY <1>0 DEF Signup, On
<1>3. v.pc = "replace" /\ v.purpose = "verify_email"
  BY DEF NoRequest
<1> HIDE DEF v
<1>4. RequestWell(q)'
  BY <1>1, <1>2, <1>3 DEF IInv, Typed, RequestWell, Paying, Settling, Holding
<1>5. UNCHANGED voucherLost /\ voucherLost \in SUBSET Orders /\ call[q].pc \notin Holding
  BY <1>2 DEF IInv, Typed, payment, Holding
<1> QED BY <1>1, <1>2, <1>3, <1>4, <1>5, CallMoves DEF InHand, payment

LEMMA ResendVerificationKeeps ==
  ASSUME IInv, NEW q \in Calls, ResendVerification(q)
  PROVE  IInv'
<1>1. PICK pending \in Nat :
        call' = [call EXCEPT ![q] = [NoRequest EXCEPT !.pc = "replace", !.password = pending]]
  BY DEF ResendVerification, NoPassword, Newest, Unused, IInv, Typed, Code
<1> DEFINE v == [NoRequest EXCEPT !.pc = "replace", !.password = pending]
<1>2. v \in CallState
  BY <1>1, ValuesTyped DEF CallState
<1>3. v.pc = "replace" /\ v.purpose = "verify_email"
  BY DEF NoRequest
<1>4. call' = [call EXCEPT ![q] = v] /\ call[q].pc = "idle" /\ UNCHANGED <<auth, payment, stale>>
  BY <1>1 DEF ResendVerification, On
<1> HIDE DEF v
<1>5. RequestWell(q)'
  BY <1>2, <1>3, <1>4 DEF IInv, Typed, RequestWell, Paying, Settling, Holding
<1>6. voucherLost \in SUBSET Orders /\ passwords \in Nat /\ call[q].pc \notin Holding
  BY <1>4 DEF IInv, Typed, Holding
<1> QED BY <1>2, <1>3, <1>4, <1>5, <1>6, CallMoves DEF auth, payment, InHand

LEMMA RequestPasswordResetKeeps ==
  ASSUME IInv, NEW q \in Calls, RequestPasswordReset(q)
  PROVE  IInv'
<1> DEFINE v == [NoRequest EXCEPT !.pc = "replace", !.purpose = "reset_password"]
<1>1. v \in CallState
  BY ValuesTyped DEF CallState, Purposes
<1>2. v.pc = "replace"
  BY DEF NoRequest
<1>3. call' = [call EXCEPT ![q] = v] /\ call[q].pc = "idle" /\ user.exists /\ UNCHANGED <<auth, payment, stale>>
  BY DEF RequestPasswordReset, On
<1> HIDE DEF v
<1>4. RequestWell(q)'
  BY <1>1, <1>2, <1>3 DEF IInv, Typed, RequestWell, Paying, Settling, Holding, auth
<1>5. voucherLost \in SUBSET Orders /\ passwords \in Nat /\ call[q].pc \notin Holding
  BY <1>3 DEF IInv, Typed, Holding
<1> QED BY <1>1, <1>2, <1>3, <1>4, <1>5, CallMoves DEF auth, payment, InHand

\* Codes that are only marked used, or come last while no other of their purpose is unused, keep the
\* invariant.
LEMMA CodesMove ==
  ASSUME IInv, NEW q \in Calls, NEW v \in CallState, call' = [call EXCEPT ![q] = v],
         UNCHANGED <<user, passwords, chosen, stale, payment>>,
         \E n \in Nat : codes' \in [1 .. n -> Code],
         CodesOrdered', CodesApart',
         \A c \in DOMAIN codes' : codes'[c].purpose = "reset_password" => user.exists,
         usedTwice' \in BOOLEAN, collided' \in BOOLEAN,
         usedTwice' => collided',
         call[q].pc \notin Holding,
         RequestWell(q)'
  PROVE  IInv'
<1> USE DEF payment
<1>1. Typed'
  BY DEF IInv, Typed
<1>2. CodesGovernAccount' /\ AccountBehind' /\ PeriodKept'
  BY DEF IInv, CodesGovernAccount, AccountBehind, PeriodKept
<1>3. \A p \in Calls : RequestWell(p)'
  BY OthersWell
<1>4. ASSUME NEW o \in Orders PROVE OrderWell(o)'
  BY DEF IInv, OrderWell, Came
<1>5. VouchersTracked'
  BY VouchersStay
<1> QED BY <1>1, <1>2, <1>3, <1>4, <1>5 DEF IInv

LEMMA ReplaceCodesKeeps ==
  ASSUME IInv, NEW q \in Calls, ReplaceCodes(q)
  PROVE  IInv'
<1> DEFINE v == [call[q] EXCEPT !.pc = "issue"]
<1>1. v \in CallState /\ v.purpose = call[q].purpose /\ v.pc = "issue" /\ call[q].purpose \in Purposes
  BY DEF IInv, Typed, CallState
<1>2. call' = [call EXCEPT ![q] = v] /\ call[q].pc = "replace"
      /\ collided' \in BOOLEAN
      /\ (~collided' => ~collided /\ \A g \in Calls \ {q} : call[g].pc \in InHand => call[g].purpose # call[q].purpose)
      /\ UNCHANGED <<user, passwords, chosen, usedTwice, payment, stale>>
  BY DEF ReplaceCodes, On, InHand, Meets, IInv, Typed
<1>3. PICK n \in Nat : codes \in [1 .. n -> Code]
  BY DEF IInv, Typed
<1>4. codes' = [c \in DOMAIN codes |-> IF c \in Unused(call[q].purpose) THEN [codes[c] EXCEPT !.used = TRUE]
                                       ELSE codes[c]]
  BY DEF ReplaceCodes
<1>5. ASSUME NEW c \in DOMAIN codes
      PROVE  /\ codes'[c] \in Code /\ codes'[c].purpose = codes[c].purpose
             /\ codes[c].used => codes'[c].used
  BY <1>3, <1>4 DEF Code
<1>6. codes' \in [1 .. n -> Code]
  BY <1>3, <1>4, <1>5
<1>7. CodesOrdered'
  BY <1>2, <1>4, <1>5 DEF IInv, CodesOrdered
<1>8. \A c \in DOMAIN codes' : codes'[c].purpose = "reset_password" => user.exists
  BY <1>4, <1>5 DEF IInv, AccountBehind
<1> HIDE DEF v
<1>11. CodesApart'
  <2> SUFFICES ASSUME ~collided' PROVE CodesApart'
    BY DEF CodesApart
  <2>1. ~collided /\ Alone(q, call[q].purpose)
    BY <1>2 DEF Alone
  <2>2. Spares(call[q].purpose)
    BY <1>4, <1>5 DEF Spares, Unused
  <2>3. Backed(v, call[q].purpose)
    BY <1>1, <1>3, <1>4, <1>5 DEF Backed, Unused, Code
  <2> QED BY <1>1, <1>2, <2>1, <2>2, <2>3, OthersApart
<1>9. RequestWell(q)'
  BY <1>1, <1>2 DEF IInv, Typed, RequestWell, Paying, Settling, Holding
<1>10. usedTwice' \in BOOLEAN /\ collided' \in BOOLEAN /\ (usedTwice' => collided') /\ call[q].pc \notin Holding
  BY <1>2 DEF IInv, Typed, CodesGovernAccount, Holding
<1> QED BY <1>1, <1>2, <1>11, <1>6, <1>7, <1>8, <1>9, <1>10, CodesMove

LEMMA IssueCodeKeeps ==
  ASSUME IInv, NEW q \in Calls, IssueCode(q)
  PROVE  IInv'
<1>1. call' = [call EXCEPT ![q] = NoRequest] /\ RequestWell(q)'
  BY EndsWell DEF IssueCode
<1>2. PICK n \in Nat : codes \in [1 .. n -> Code]
  BY DEF IInv, Typed
<1>3. Cardinality(DOMAIN codes) = n
  BY <1>2, FS_Interval
<1> DEFINE new == [purpose |-> call[q].purpose, used |-> FALSE, password |-> call[q].password]
<1>4. codes' = [c \in 1 .. n + 1 |-> IF c \in 1 .. n THEN codes[c] ELSE new]
  BY <1>2, <1>3 DEF IssueCode
<1>5. new \in Code
  BY DEF IInv, Typed, CallState, Code
<1>6. codes' \in [1 .. n + 1 -> Code] /\ n + 1 \in Nat
  BY <1>2, <1>4, <1>5
<1>7. call[q].pc = "issue" /\ UNCHANGED <<user, passwords, chosen, usedTwice, collided, payment, stale>>
  BY DEF IssueCode, On
<1>8. CodesOrdered'
  <2> SUFFICES ASSUME ~collided', NEW c \in 1 .. n + 1, NEW d \in 1 .. n + 1,
                      c < d, codes'[c].purpose = codes'[d].purpose
               PROVE  codes'[c].used
    BY <1>4 DEF CodesOrdered
  <2>1. c \in 1 .. n /\ codes'[c] = codes[c]
    BY <1>4
  <2>2. CASE d \in 1 .. n
    BY <1>2, <1>4, <1>7, <2>1, <2>2 DEF IInv, CodesOrdered
  <2>3. CASE d = n + 1
    <3>1. codes[c].purpose = call[q].purpose
      BY <1>4, <2>1, <2>3
    <3> QED BY <1>2, <1>7, <2>1, <3>1 DEF IInv, CodesApart, Unused
  <2> QED BY <2>2, <2>3
<1>11. CodesApart'
  <2> SUFFICES ASSUME ~collided' PROVE CodesApart'
    BY DEF CodesApart
  <2>1. ~collided /\ Alone(q, call[q].purpose)
    BY <1>7 DEF IInv, CodesApart, InHand, Alone
  <2>2. call[q].purpose \in Purposes /\ Backed(NoRequest, call[q].purpose)
    BY DEF IInv, Typed, CallState, NoRequest, InHand, Backed
  <2>3. Spares(call[q].purpose)
    BY <1>2, <1>4 DEF Spares
  <2> QED BY <1>1, <2>1, <2>2, <2>3, ValuesTyped, OthersApart
<1>9. \A c \in DOMAIN codes' : codes'[c].purpose = "reset_password" => user.exists
  BY <1>2, <1>4 DEF IInv, AccountBehind, RequestWell
<1>10. usedTwice' \in BOOLEAN /\ collided' \in BOOLEAN /\ (usedTwice' => collided') /\ call[q].pc \notin Holding
  BY <1>7 DEF IInv, Typed, CodesGovernAccount, Holding
<1> HIDE DEF new
<1> QED BY <1>1, <1>11, <1>6, <1>7, <1>8, <1>9, <1>10, ValuesTyped, CodesMove

LEMMA EnterCodeKeeps ==
  ASSUME IInv, NEW q \in Calls, NEW c \in DOMAIN codes, EnterCode(q, c)
  PROVE  IInv'
<1> DEFINE purpose == codes[c].purpose
           pw == IF purpose = "reset_password" THEN passwords + 1 ELSE codes[c].password
           v == [NoRequest EXCEPT !.pc = "use", !.purpose = purpose, !.code = c, !.password = pw]
<1>1. PICK n \in Nat : codes \in [1 .. n -> Code]
  BY DEF IInv, Typed
<1>2. purpose \in Purposes /\ pw \in Nat /\ c \in Nat
  BY <1>1 DEF IInv, Typed, Code
<1>3. v \in CallState
  BY <1>2, ValuesTyped DEF CallState
<1>4. v.pc = "use" /\ v.purpose = purpose /\ v.code = c
  BY DEF NoRequest
<1>5. call' = [call EXCEPT ![q] = v] /\ call[q].pc = "idle" /\ c \in Consumable(purpose)
      /\ usedTwice' = (usedTwice \/ codes[c].used \/ \E d \in DOMAIN codes : d > c /\ codes[d].purpose = purpose)
      /\ collided' = (collided \/ Meets(q, purpose, {"use"}))
      /\ UNCHANGED <<user, codes, chosen, payment, stale>>
  BY DEF EnterCode, On
<1>6. passwords' \in Nat
  BY DEF EnterCode, IInv, Typed
<1> HIDE DEF v, pw
<1>7. RequestWell(q)'
  BY <1>3, <1>4, <1>5 DEF IInv, Typed, RequestWell, Paying, Settling, Holding, AccountBehind
<1>8. usedTwice' \in BOOLEAN
  BY <1>5
<1>9. usedTwice' => collided
  <2>1. SUFFICES ASSUME ~collided, \E d \in DOMAIN codes : d > c /\ codes[d].purpose = purpose
                 PROVE  codes[c].used
    BY <1>5 DEF IInv, CodesGovernAccount, Consumable, Newest, Unused
  <2> QED BY <1>1, <2>1 DEF IInv, CodesOrdered
<1>10. ~codes[c].used
  BY <1>5 DEF Consumable, Newest, Unused
<1>16. (~collided' => ~collided) /\ collided' \in BOOLEAN
  BY <1>5 DEF IInv, Typed
<1>17. CodesApart'
  <2> SUFFICES ASSUME ~collided' PROVE CodesApart'
    BY DEF CodesApart
  <2>1. ~collided /\ c \in Unused(purpose)
    BY <1>10, <1>16 DEF Unused
  <2>2. Alone(q, purpose)
    <3>1. call[q].pc = "idle" /\ ~collided /\ ~Meets(q, purpose, {"use"})
      BY <1>5, <2>1
    <3>2. ASSUME NEW g \in Calls \ {q}, call[g].pc = "issue" PROVE call[g].purpose # purpose
      BY <2>1, <3>1, <3>2 DEF IInv, CodesApart, Unused
    <3> QED BY <3>1, <3>2 DEF Meets, InHand, Alone
  <2>3. Spares(purpose) /\ Backed(v, purpose)
    BY <1>4, <1>5, <1>10 DEF Spares, Backed, InHand
  <2> HIDE DEF purpose
  <2> QED BY <1>2, <1>3, <1>5, <2>1, <2>2, <2>3, OthersApart
<1>11. Typed'
  BY <1>3, <1>5, <1>6, <1>8, <1>16 DEF IInv, Typed, payment
<1>12. CodesOrdered' /\ CodesGovernAccount' /\ AccountBehind' /\ PeriodKept'
  BY <1>5, <1>9, <1>10, <1>16 DEF IInv, CodesOrdered, CodesGovernAccount, AccountBehind, PeriodKept, payment
<1>13. \A p \in Calls : RequestWell(p)'
  BY <1>3, <1>5, <1>7, OthersWell DEF payment
<1>14. ASSUME NEW o \in Orders PROVE OrderWell(o)'
  BY <1>5 DEF IInv, OrderWell, payment, Came
<1>15. VouchersTracked'
  BY <1>3, <1>5, VouchersStay DEF payment, Holding
<1> QED BY <1>11, <1>17, <1>12, <1>13, <1>14, <1>15 DEF IInv

LEMMA UseCodeKeeps ==
  ASSUME IInv, NEW q \in Calls, UseCode(q)
  PROVE  IInv'
<1> DEFINE v == [call[q] EXCEPT !.pc = "account"]
           c == call[q].code
<1>1. v \in CallState /\ v.purpose = call[q].purpose /\ v.pc = "account"
  BY DEF IInv, Typed, CallState
<1>2. call' = [call EXCEPT ![q] = v] /\ call[q].pc = "use"
      /\ codes' = [codes EXCEPT ![c].used = TRUE]
      /\ usedTwice' = (usedTwice \/ codes[c].used)
      /\ UNCHANGED <<user, passwords, chosen, collided, payment, stale>>
  BY DEF UseCode, On
<1>3. PICK n \in Nat : codes \in [1 .. n -> Code]
  BY DEF IInv, Typed
<1>4. ASSUME NEW d \in DOMAIN codes
      PROVE  /\ codes'[d] \in Code /\ codes'[d].purpose = codes[d].purpose
             /\ codes[d].used => codes'[d].used
  BY <1>2, <1>3 DEF Code
<1>5. codes' \in [1 .. n -> Code] /\ DOMAIN codes' = DOMAIN codes
  BY <1>2, <1>3, <1>4
<1>6. collided' \in BOOLEAN /\ usedTwice' \in BOOLEAN
  BY <1>2 DEF IInv, Typed
<1>7. usedTwice' => collided'
  BY <1>2 DEF IInv, CodesApart, CodesGovernAccount
<1>8. CodesOrdered'
  BY <1>2, <1>4, <1>5 DEF IInv, CodesOrdered
<1>9. \A d \in DOMAIN codes' : codes'[d].purpose = "reset_password" => user.exists
  BY <1>4, <1>5 DEF IInv, AccountBehind
<1> HIDE DEF v
<1>11. CodesApart'
  <2> SUFFICES ASSUME ~collided' PROVE CodesApart'
    BY DEF CodesApart
  <2>1. /\ ~collided /\ c \in DOMAIN codes /\ codes[c].purpose = call[q].purpose
        /\ Alone(q, call[q].purpose)
    BY <1>2 DEF IInv, CodesApart, InHand, Alone
  <2>2. call[q].purpose \in Purposes /\ Backed(v, call[q].purpose)
    BY <1>1 DEF IInv, Typed, CallState, InHand, Backed
  <2>3. Spares(call[q].purpose)
    BY <1>2, <1>3, <1>4, <1>5, <2>1 DEF Spares
  <2> QED BY <1>1, <1>2, <2>1, <2>2, <2>3, OthersApart
<1>10. RequestWell(q)'
  BY <1>1, <1>2 DEF IInv, Typed, RequestWell, Paying, Settling, Holding
<1> QED BY <1>1, <1>2, <1>11, <1>5, <1>6, <1>7, <1>8, <1>9, <1>10, CodesMove DEF Holding

-----------------------------------------------------------------------------
(* The users row.                                                          *)

\* A save or an insertion of the account whose password is the chosen one, unless it was stale.
LEMMA UserMoves ==
  ASSUME IInv, NEW q \in Calls, NEW v \in CallState, call' = [call EXCEPT ![q] = v],
         UNCHANGED <<codes, passwords, usedTwice, collided, payment>>,
         user' \in UserRow, chosen' \in Nat, stale' \in BOOLEAN,
         user'.exists,
         user'.password # chosen' => stale',
         PeriodKept',
         call[q].pc \notin Holding, v.pc \notin InHand,
         RequestWell(q)'
  PROVE  IInv'
<1> USE DEF payment
<1>0. CodesApart'
  BY CodesUntouched
<1>1. Typed'
  BY DEF IInv, Typed
<1>2. CodesOrdered' /\ CodesGovernAccount' /\ AccountBehind'
  BY DEF IInv, CodesOrdered, CodesGovernAccount, AccountBehind
<1>3. \A p \in Calls : RequestWell(p)'
  BY OthersWell
<1>4. ASSUME NEW o \in Orders PROVE OrderWell(o)'
  BY DEF IInv, OrderWell, Came
<1>5. VouchersTracked'
  BY VouchersStay
<1> QED BY <1>0, <1>1, <1>2, <1>3, <1>4, <1>5 DEF IInv

\* A request that takes a copy of the account to save it later.
LEMMA CopyKeeps ==
  ASSUME IInv, NEW q \in Calls, NEW v \in CallState, call' = [call EXCEPT ![q] = v],
         v.pc \in {"save", "repair"}, v.copy = user, user.exists,
         call[q].pc \notin Holding,
         UNCHANGED <<auth, payment, stale>>
  PROVE  IInv'
<1>1. RequestWell(q)'
  BY DEF IInv, Typed, RequestWell, Paying, Settling, Holding, auth
<1>2. UNCHANGED voucherLost /\ voucherLost \in SUBSET Orders /\ passwords' \in Nat
  BY DEF IInv, Typed, payment, auth
<1> QED BY <1>1, <1>2, CallMoves DEF payment, auth, InHand

LEMMA ReadForResetKeeps ==
  ASSUME IInv, NEW q \in Calls, ReadForReset(q)
  PROVE  IInv'
<1> DEFINE v == [call[q] EXCEPT !.pc = "save", !.copy = user]
<1>1. v \in CallState /\ v.pc = "save" /\ v.copy = user
  BY DEF IInv, Typed, CallState
<1>2. call' = [call EXCEPT ![q] = v] /\ call[q].pc \notin Holding /\ UNCHANGED <<auth, payment, stale>>
  BY DEF ReadForReset, On, Holding
<1>3. user.exists
  BY DEF ReadForReset, IInv, RequestWell
<1> HIDE DEF v
<1> QED BY <1>1, <1>2, <1>3, CopyKeeps

LEMMA ReadForRepairKeeps ==
  ASSUME IInv, NEW q \in Calls, ReadForRepair(q)
  PROVE  IInv'
<1> DEFINE v == [NoRequest EXCEPT !.pc = "repair", !.copy = user]
<1>1. user \in UserRow /\ user.exists
  BY DEF ReadForRepair, IInv, Typed, AccountBehind
<1>2. v \in CallState /\ v.pc = "repair" /\ v.copy = user
  BY <1>1, ValuesTyped DEF CallState
<1>3. call' = [call EXCEPT ![q] = v] /\ call[q].pc \notin Holding /\ UNCHANGED <<auth, payment, stale>>
  BY DEF ReadForRepair, On, Holding
<1> HIDE DEF v
<1> QED BY <1>1, <1>2, <1>3, CopyKeeps

\* ensureSubscriptionDefaults leaves password and account, and a subscription.
LEMMA RepairedRow ==
  ASSUME NEW u \in UserRow
  PROVE  /\ Repaired(u) \in UserRow
         /\ Repaired(u).exists = u.exists
         /\ Repaired(u).password = u.password
         /\ u.status = "subscribed" => Repaired(u).status = "subscribed" /\ Repaired(u).paid = u.paid
<1> DEFINE st == IF u.status = "" THEN "trial" ELSE u.status
<1>1. st \in {"trial", "subscribed"}
  BY DEF UserRow
<1> DEFINE ends == (st = "trial")
           until == IF st = "trial" THEN NoPeriod ELSE u.paid
<1>2. Repaired(u) = [u EXCEPT !.status = st, !.trialEnds = ends, !.paid = until]
  BY DEF Repaired
<1>3. u.status = "subscribed" => st = "subscribed" /\ until = u.paid
  OBVIOUS
<1>4. ends \in BOOLEAN /\ until \in Nat
  BY DEF UserRow, NoPeriod
<1> HIDE DEF st, ends, until
<1> QED BY <1>1, <1>2, <1>3, <1>4 DEF UserRow

LEMMA FindOrCreateKeeps ==
  ASSUME IInv, NEW q \in Calls, FindOrCreate(q)
  PROVE  IInv'
<1> DEFINE new == [NoUser EXCEPT !.exists = TRUE, !.password = call[q].password, !.trialEnds = TRUE]
<1>1. call[q].pc = "account" /\ call[q].pc \notin Holding
      /\ UNCHANGED <<codes, passwords, usedTwice, collided, payment, stale>>
  BY DEF FindOrCreate, On, Holding
<1>2. CASE user.exists
  <2> DEFINE v == [call[q] EXCEPT !.pc = "save", !.copy = user]
  <2>1. v \in CallState /\ v.pc = "save" /\ v.copy = user
    BY DEF IInv, Typed, CallState
  <2>2. call' = [call EXCEPT ![q] = v] /\ UNCHANGED <<auth, payment, stale>>
    BY <1>2 DEF FindOrCreate, auth
  <2> HIDE DEF v
  <2> QED BY <1>1, <1>2, <2>1, <2>2, CopyKeeps
<1>3. CASE ~user.exists /\ call[q].password = NoPassword
  <2>1. call' = Ends(q) /\ UNCHANGED <<user, chosen>>
    BY <1>3 DEF FindOrCreate
  <2>2. call' = [call EXCEPT ![q] = NoRequest] /\ RequestWell(q)'
    BY <2>1, EndsWell
  <2>3. UNCHANGED voucherLost /\ voucherLost \in SUBSET Orders /\ passwords' \in Nat
    BY <1>1 DEF IInv, Typed, payment
  <2>4. NoRequest.pc \notin InHand
    BY DEF NoRequest, InHand
  <2> QED BY <1>1, <2>1, <2>2, <2>3, <2>4, ValuesTyped, CallMoves DEF payment
<1>4. CASE ~user.exists /\ call[q].password # NoPassword
  <2> DEFINE v == [call[q] EXCEPT !.pc = "save", !.copy = new]
  <2>1. call[q].password \in Nat
    BY DEF IInv, Typed, CallState
  <2>2. new \in UserRow /\ new.exists /\ new.password = call[q].password
    BY <2>1, ValuesTyped DEF UserRow, NoUser
  <2>3. v \in CallState /\ v.pc = "save" /\ v.copy = new
    BY <2>2 DEF IInv, Typed, CallState
  <2>4. call' = [call EXCEPT ![q] = v] /\ user' = new /\ chosen' = call[q].password
    BY <1>4 DEF FindOrCreate
  <2> HIDE DEF v, new
  <2>5. PeriodKept'
    BY <1>1, <1>4 DEF IInv, PeriodKept, AccountBehind, payment
  <2>6. RequestWell(q)'
    BY <2>2, <2>3, <2>4 DEF IInv, Typed, RequestWell, Paying, Settling, Holding
  <2>7. stale' \in BOOLEAN
    BY <1>1 DEF IInv, Typed
  <2> QED BY <1>1, <2>1, <2>2, <2>3, <2>4, <2>5, <2>6, <2>7, UserMoves DEF InHand
<1> QED BY <1>2, <1>3, <1>4

LEMMA SaveUserKeeps ==
  ASSUME IInv, NEW q \in Calls, SaveUser(q)
  PROVE  IInv'
<1> DEFINE c == call[q].copy
           pw == call[q].password
           reset == call[q].pc = "save" /\ call[q].purpose = "reset_password"
           repair == call[q].pc = "repair"
<1>1. /\ call[q].pc \in {"save", "repair"} /\ call[q].pc \notin Holding
      /\ user' = CASE repair -> Repaired(c)
                   [] reset  -> [c EXCEPT !.password = pw]
                   [] OTHER  -> [Repaired(c) EXCEPT !.verified = TRUE]
      /\ chosen' = IF reset THEN pw ELSE chosen
      /\ stale' = (stale \/ user # c)
      /\ call' = Ends(q)
      /\ UNCHANGED <<codes, passwords, usedTwice, collided, payment>>
  BY DEF SaveUser, On, Holding
<1>2. c \in UserRow /\ c.exists /\ pw \in Nat /\ chosen \in Nat /\ user \in UserRow
  BY <1>1 DEF IInv, Typed, CallState, RequestWell
<1>3. /\ Repaired(c) \in UserRow /\ Repaired(c).exists /\ Repaired(c).password = c.password
      /\ c.status = "subscribed" => Repaired(c).status = "subscribed" /\ Repaired(c).paid = c.paid
  BY <1>2, RepairedRow
<1>4. call' = [call EXCEPT ![q] = NoRequest] /\ RequestWell(q)'
  BY <1>1, EndsWell
<1>5. repair \/ reset \/ (~repair /\ ~reset)
  OBVIOUS
<1> HIDE DEF c, pw
<1>6. /\ user' \in UserRow /\ user'.exists
      /\ user'.password = IF reset THEN pw ELSE c.password
      /\ c.status = "subscribed" => user'.status = "subscribed" /\ user'.paid = c.paid
  <2>1. CASE repair
    <3>1. user' = Repaired(c)
      BY <1>1, <2>1
    <3> QED BY <1>3, <2>1, <3>1
  <2>2. CASE reset
    <3>1. user' = [c EXCEPT !.password = pw]
      BY <1>1, <2>2
    <3> QED BY <1>2, <2>2, <3>1 DEF UserRow
  <2>3. CASE ~repair /\ ~reset
    <3>1. user' = [Repaired(c) EXCEPT !.verified = TRUE]
      BY <1>1, <2>3
    <3>2. /\ user' \in UserRow /\ user'.exists = Repaired(c).exists /\ user'.password = Repaired(c).password
          /\ user'.status = Repaired(c).status /\ user'.paid = Repaired(c).paid
      BY <1>3, <3>1 DEF UserRow
    <3> QED BY <1>3, <2>3, <3>2
  <2> QED BY <1>5, <2>1, <2>2, <2>3
<1>7. stale' \in BOOLEAN /\ chosen' \in Nat
  BY <1>1, <1>2
<1>8. ~stale' => ~stale /\ user = c
  BY <1>1
<1>9. user'.password # chosen' => stale'
  <2>1. CASE reset
    BY <1>1, <1>6, <2>1
  <2>2. CASE ~reset
    BY <1>1, <1>2, <1>6, <1>8, <2>2 DEF IInv, CodesGovernAccount
  <2> QED BY <2>1, <2>2
<1>10. PeriodKept'
  BY <1>1, <1>6, <1>8 DEF IInv, PeriodKept, payment
<1>11. NoRequest.pc \notin InHand
  BY DEF NoRequest, InHand
<1> QED BY <1>1, <1>4, <1>6, <1>7, <1>9, <1>10, <1>11, ValuesTyped, UserMoves

-----------------------------------------------------------------------------
(* Orders.                                                                 *)

\* An order and what ioTec holds of it move while nobody's request does.
LEMMA OrderMoves ==
  ASSUME IInv, NEW o \in Orders, NEW row \in OrderRow, NEW money \in Money,
         order' = [order EXCEPT ![o] = row], provider' = [provider EXCEPT ![o] = money],
         UNCHANGED <<auth, packaged, issued, given, periods, voucherLost, call, stale>>,
         row.stage # "none" => user.exists,
         row.status = order[o].status, row.voucher = order[o].voucher,
         IF row.stage \in {"none", "created"} THEN money = "none" ELSE money \in Outcomes,
         provider[o] \in Outcomes => money \in Outcomes,
         provider[o] \in Taken => money \in Taken
  PROVE  IInv'
<1> USE DEF auth
<1>1. Typed'
  BY DEF IInv, Typed
<1>2. CodesOrdered' /\ CodesApart' /\ CodesGovernAccount' /\ PeriodKept'
  BY DEF IInv, CodesOrdered, CodesApart, Unused, CodesGovernAccount, PeriodKept
<1>3. AccountBehind'
  BY DEF IInv, Typed, AccountBehind
<1>4. ASSUME NEW q \in Calls PROVE RequestWell(q)'
  BY DEF IInv, Typed, RequestWell, Paying, Settling, Holding, Came
<1>5. ASSUME NEW p \in Orders PROVE OrderWell(p)'
  BY DEF IInv, Typed, OrderWell, Came
<1>6. VouchersTracked'
  BY DEF IInv, Typed, VouchersTracked, Holds
<1> QED BY <1>1, <1>2, <1>3, <1>4, <1>5, <1>6 DEF IInv

LEMMA StartOrderKeeps ==
  ASSUME IInv, NEW o \in Orders, StartOrder(o)
  PROVE  IInv'
<1> DEFINE row == [order[o] EXCEPT !.stage = "created"]
<1>1. row \in OrderRow /\ row.stage = "created" /\ row.status = order[o].status /\ row.voucher = order[o].voucher
  BY DEF IInv, Typed, OrderRow
<1>2. order' = [order EXCEPT ![o] = row] /\ provider' = [provider EXCEPT ![o] = "none"]
      /\ provider[o] = "none" /\ "none" \notin Outcomes
  BY DEF Outcomes, StartOrder, IInv, Typed, OrderWell, Came
<1>3. UNCHANGED <<auth, packaged, issued, given, periods, voucherLost, call, stale>> /\ user.exists
  BY DEF StartOrder, IInv, AccountBehind
<1> HIDE DEF row
<1> QED BY <1>1, <1>2, <1>3, OrderMoves DEF Money, Outcomes, Taken

LEMMA SubmitCollectionKeeps ==
  ASSUME IInv, NEW o \in Orders, SubmitCollection(o)
  PROVE  IInv'
<1>1. PICK answered \in {"submitted", "lost"} : order' = [order EXCEPT ![o].stage = answered]
  BY DEF SubmitCollection
<1> DEFINE row == [order[o] EXCEPT !.stage = answered]
<1>2. /\ row \in OrderRow /\ row.stage = answered
      /\ row.status = order[o].status /\ row.voucher = order[o].voucher
  BY <1>1 DEF IInv, Typed, OrderRow
<1>3. order' = [order EXCEPT ![o] = row] /\ provider' = [provider EXCEPT ![o] = "pending"]
      /\ provider[o] = "none" /\ user.exists
      /\ UNCHANGED <<auth, packaged, issued, given, periods, voucherLost, call, stale>>
  BY <1>1 DEF SubmitCollection, IInv, OrderWell, AccountBehind
<1> HIDE DEF row
<1> QED BY <1>1, <1>2, <1>3, OrderMoves DEF Money, Outcomes, Taken

LEMMA TrackOrderKeeps ==
  ASSUME IInv, NEW o \in Orders, TrackOrder(o)
  PROVE  IInv'
<1> DEFINE row == [order[o] EXCEPT !.stage = "tracked"]
<1>1. row \in OrderRow /\ row.stage = "tracked" /\ row.status = order[o].status /\ row.voucher = order[o].voucher
  BY DEF IInv, Typed, OrderRow
<1>2. order' = [order EXCEPT ![o] = row] /\ provider' = [provider EXCEPT ![o] = provider[o]]
      /\ provider[o] \in Money /\ provider[o] \in Outcomes /\ user.exists
      /\ UNCHANGED <<auth, packaged, issued, given, periods, voucherLost, call, stale>>
  BY DEF TrackOrder, IInv, Typed, OrderWell, AccountBehind
<1> HIDE DEF row
<1> QED BY <1>1, <1>2, OrderMoves

LEMMA ProviderMovesKeeps ==
  ASSUME IInv, NEW o \in Orders, ProviderMoves(o)
  PROVE  IInv'
<1>1. PICK outcome \in {"paid", "failed", "reversed"} :
        /\ provider' = [provider EXCEPT ![o] = outcome] /\ provider[o] # "none"
        /\ provider[o] \in Taken => outcome \in Taken
  BY DEF ProviderMoves, Taken
<1>2. order' = [order EXCEPT ![o] = order[o]] /\ order[o] \in OrderRow
      /\ (order[o].stage # "none" => user.exists)
      /\ order[o].stage \notin {"none", "created"}
      /\ UNCHANGED <<auth, packaged, issued, given, periods, voucherLost, call, stale>>
  BY <1>1 DEF ProviderMoves, IInv, Typed, OrderWell, AccountBehind
<1> QED BY <1>1, <1>2, OrderMoves DEF Money, Outcomes

LEMMA ReadOrderKeeps ==
  ASSUME IInv, NEW q \in Calls, NEW o \in Orders, ReadOrder(q, o)
  PROVE  IInv'
<1> DEFINE v == [NoRequest EXCEPT !.pc = "ask", !.target = o, !.read = order[o]]
<1>1. order[o] \in OrderRow /\ order[o].stage = "tracked" /\ user.exists
  BY DEF ReadOrder, IInv, Typed, AccountBehind
<1>2. v \in CallState
  BY <1>1, ValuesTyped DEF CallState, Paying
<1>3. v.pc = "ask" /\ v.purpose = "verify_email" /\ v.target = o /\ v.read = order[o]
  BY DEF NoRequest
<1>4. call' = [call EXCEPT ![q] = v] /\ call[q].pc \notin Holding /\ UNCHANGED <<auth, payment, stale>>
  BY DEF ReadOrder, On, Holding
<1> HIDE DEF v
<1>5. RequestWell(q)'
  <2>1. provider[o] \in Outcomes
    BY <1>1 DEF IInv, OrderWell
  <2> QED BY <1>1, <1>2, <1>3, <1>4, <2>1 DEF IInv, Typed, RequestWell, Settling, Holding, auth, payment
<1>6. UNCHANGED voucherLost /\ voucherLost \in SUBSET Orders /\ passwords' \in Nat
  BY <1>4 DEF IInv, Typed, payment, auth
<1> QED BY <1>2, <1>3, <1>4, <1>5, <1>6, CallMoves DEF InHand, payment, auth

\* A request at the next step of a paid order.
LEMMA PassedState ==
  ASSUME IInv, NEW q \in Calls, NEW pc \in {"ask", "voucher", "activate"}, call[q].pc = pc
  PROVE  /\ Passed(q) \in CallState
         /\ Passed(q).pc = AfterPaid(pc) /\ AfterPaid(pc) \in Settling
         /\ Passed(q) = [call[q] EXCEPT !.pc = AfterPaid(pc)]
<1>1. AfterPaid(pc) \in Settling
  BY DEF AfterPaid, Settling, Holding
<1>2. AfterPaid(pc) # "idle"
  BY <1>1 DEF Settling, Holding
<1>3. Passed(q) = [call[q] EXCEPT !.pc = AfterPaid(pc)]
  BY <1>2 DEF Passed
<1> QED BY <1>1, <1>3 DEF IInv, Typed, CallState, Paying

LEMMA AskProviderKeeps ==
  ASSUME IInv, NEW q \in Calls, AskProvider(q)
  PROVE  IInv'
<1> DEFINE o == call[q].target
<1>1. call[q].pc = "ask" /\ call[q].pc \notin Holding /\ UNCHANGED <<auth, payment, stale>>
  BY DEF AskProvider, On, Holding
<1>2. call[q] \in CallState /\ o \in Orders /\ user.exists /\ call[q].read.stage = "tracked"
      /\ call[q].read \in OrderRow /\ provider[o] \in Outcomes
  BY <1>1 DEF IInv, Typed, RequestWell, Paying, CallState
<1>3. UNCHANGED voucherLost /\ voucherLost \in SUBSET Orders /\ passwords' \in Nat
  BY <1>1 DEF IInv, Typed, payment, auth
<1>4. PICK word \in Says[provider[o]] : call' = [call EXCEPT ![q] = Answered(q, NormalizePaymentStatus(word))]
  BY DEF AskProvider
<1> DEFINE answer == NormalizePaymentStatus(word)
<1>5. /\ answer \in {"paid", "failed", "unpaid"}
      /\ answer = "paid" => Came(o)
  BY <1>2, <1>4 DEF Came, PlainWords, NormalizePaymentStatus
<1> HIDE DEF answer
<1>6. CASE answer = "paid"
  <2> DEFINE v == Passed(q)
  <2>1. AfterPaid("ask") = "voucher"
    BY DEF AfterPaid
  <2>2. v \in CallState /\ v.pc = "voucher" /\ v = [call[q] EXCEPT !.pc = "voucher"]
    BY <1>1, <2>1, PassedState
  <2>3. call' = [call EXCEPT ![q] = v]
    BY <1>4, <1>6 DEF Answered, answer
  <2>4. v.target = o /\ v.purpose = call[q].purpose /\ v.read = call[q].read
    BY <1>2, <2>2 DEF CallState
  <2> HIDE DEF v
  <2>5. RequestWell(q)'
    BY <1>1, <1>2, <1>5, <1>6, <2>2, <2>3, <2>4 DEF IInv, Typed, RequestWell, Holding, Came, auth, payment
  <2> QED BY <1>1, <1>3, <2>2, <2>3, <2>5, CallMoves DEF InHand, payment, auth
<1>7. CASE answer # "paid"
  <2> DEFINE status == IF answer = "unpaid" THEN "pending" ELSE answer
             row == [call[q].read EXCEPT !.status = status]
             v == [call[q] EXCEPT !.pc = "storeUnpaid", !.read = row]
  <2>1. row \in OrderRow /\ row.stage = "tracked" /\ row.status # "paid"
    <3>1. status \in {"pending", "failed"}
      BY <1>5, <1>7
    <3> HIDE DEF status
    <3> QED BY <1>2, <3>1 DEF OrderRow
  <2>2. call' = [call EXCEPT ![q] = v]
    BY <1>2, <1>4, <1>7 DEF Answered, CallState, answer
  <2> HIDE DEF row
  <2>3. v \in CallState /\ v.pc = "storeUnpaid" /\ v.target = o /\ v.purpose = call[q].purpose /\ v.read = row
    BY <1>2, <2>1 DEF CallState, Paying
  <2> HIDE DEF v
  <2>4. RequestWell(q)'
    BY <1>1, <1>2, <2>1, <2>2, <2>3 DEF IInv, Typed, RequestWell, Settling, Holding, auth, payment
  <2> QED BY <1>1, <1>3, <2>2, <2>3, <2>4, CallMoves DEF InHand, payment, auth
<1> QED BY <1>6, <1>7

LEMMA FailKeeps ==
  ASSUME IInv, NEW q \in Calls, Fail(q)
  PROVE  IInv'
<1>1. call' = [call EXCEPT ![q] = NoRequest] /\ RequestWell(q)'
  BY EndsWell DEF Fail
<1>2. UNCHANGED <<auth, order, packaged, provider, issued, given, periods, stale>>
  BY DEF Fail
<1>3. call[q].pc \in Holding => call[q].target \in Orders
  BY DEF IInv, RequestWell, Paying, Settling
<1>4. voucherLost' \in SUBSET Orders /\ voucherLost \subseteq voucherLost'
  BY <1>3 DEF Fail, IInv, Typed, Holding
<1>5. call[q].pc \in Holding =>
        order[call[q].target].voucher = call[q].read.voucher \/ call[q].target \in voucherLost'
  BY DEF Fail, Holding
<1>6. passwords' \in Nat
  BY <1>2 DEF IInv, Typed, auth
<1>7. NoRequest.pc \notin InHand
  BY DEF NoRequest, InHand
<1> QED BY <1>1, <1>2, <1>4, <1>5, <1>6, <1>7, ValuesTyped, CallMoves DEF auth

LEMMA EnsureVoucherKeeps ==
  ASSUME IInv, NEW q \in Calls, EnsureVoucher(q)
  PROVE  IInv'
<1> DEFINE o == call[q].target
<1>1. /\ call[q].pc = "voucher" /\ call[q].pc \notin Holding
      /\ UNCHANGED <<auth, order, packaged, provider, given, periods, stale>>
  BY DEF EnsureVoucher, On, Holding
<1>2. call[q] \in CallState /\ o \in Orders /\ user.exists /\ call[q].read.stage = "tracked"
      /\ call[q].read \in OrderRow /\ Came(o) /\ issued[o] \in Nat /\ provider[o] \in Outcomes
  BY <1>1 DEF IInv, Typed, RequestWell, Paying, Settling, CallState
<1>3. AfterPaid("voucher") = "activate"
  BY DEF AfterPaid
<1>4. Passed(q) \in CallState /\ Passed(q) = [call[q] EXCEPT !.pc = "activate"]
  BY <1>1, <1>3, PassedState
<1>5. passwords' \in Nat
  BY <1>1 DEF IInv, Typed, auth
<1>6. CASE o \notin packaged \/ call[q].read.voucher # NoVoucher
  <2> DEFINE v == Passed(q)
  <2>1. call' = [call EXCEPT ![q] = v] /\ UNCHANGED <<issued, voucherLost>>
    BY <1>6 DEF EnsureVoucher
  <2>2. v.pc = "activate" /\ v.target = o /\ v.purpose = call[q].purpose /\ v.read = call[q].read
    BY <1>2, <1>4 DEF CallState
  <2>3. v \in CallState
    BY <1>4
  <2> HIDE DEF v
  <2>4. RequestWell(q)'
    BY <1>1, <1>2, <1>6, <2>1, <2>2, <2>3 DEF IInv, Typed, RequestWell, Came, auth
  <2>5. voucherLost' \in SUBSET Orders /\ voucherLost \subseteq voucherLost'
    BY <2>1 DEF IInv, Typed
  <2> QED BY <1>1, <1>5, <2>1, <2>2, <2>3, <2>4, <2>5, CallMoves DEF InHand, auth
<1>7. CASE ~(o \notin packaged \/ call[q].read.voucher # NoVoucher)
  <2> DEFINE row == [call[q].read EXCEPT !.voucher = issued[o] + 1]
             held == [Passed(q) EXCEPT !.read.voucher = issued[o] + 1]
  <2>1. issued' = [issued EXCEPT ![o] = @ + 1]
    BY <1>7 DEF EnsureVoucher
  <2>2. \/ call' = [call EXCEPT ![q] = held] /\ voucherLost' = voucherLost
        \/ call' = Ends(q) /\ voucherLost' = voucherLost \union {o}
    BY <1>7 DEF EnsureVoucher
  <2>3. row \in OrderRow /\ row.stage = "tracked" /\ row.voucher = issued[o] + 1
    BY <1>2 DEF OrderRow
  <2>4. held = [call[q] EXCEPT !.pc = "activate", !.read = row]
    BY <1>2, <1>4 DEF CallState
  <2> HIDE DEF row
  <2>5. /\ held \in CallState /\ held.pc = "activate" /\ held.target = o
        /\ held.purpose = call[q].purpose /\ held.read = row
    BY <1>2, <2>3, <2>4 DEF CallState, Paying, Settling, Holding
  <2> HIDE DEF held
  <2>6. \E v \in CallState : call' = [call EXCEPT ![q] = v] /\ RequestWell(q)' /\ v.pc \notin InHand
    <3>1. CASE call' = [call EXCEPT ![q] = held]
      <4>1. RequestWell(q)'
        BY <1>1, <1>2, <2>3, <2>5, <3>1 DEF IInv, Typed, RequestWell, Came, NoVoucher, auth
      <4> QED BY <2>5, <3>1, <4>1 DEF InHand
    <3>2. CASE call' = Ends(q)
      BY <3>2, EndsWell, ValuesTyped DEF NoRequest, InHand
    <3> QED BY <2>2, <3>1, <3>2
  <2>7. Typed'
    <3>1. issued' \in [Orders -> Nat]
      BY <1>2, <2>1 DEF IInv, Typed
    <3>2. call' \in [Calls -> CallState]
      BY <2>6 DEF IInv, Typed
    <3>3. voucherLost' \in SUBSET Orders
      BY <1>2, <2>2 DEF IInv, Typed
    <3> QED BY <1>1, <3>1, <3>2, <3>3 DEF IInv, Typed, auth
  <2>12. CodesApart'
    BY <1>1, <2>6, CodesUntouched DEF auth
  <2>8. CodesOrdered' /\ CodesGovernAccount' /\ AccountBehind' /\ PeriodKept'
    BY <1>1 DEF IInv, CodesOrdered, CodesGovernAccount, AccountBehind, PeriodKept, auth
  <2>9. \A p \in Calls : RequestWell(p)'
    BY <1>1, <2>6, OthersWell DEF auth
  <2>10. ASSUME NEW p \in Orders PROVE OrderWell(p)'
    BY <1>1 DEF IInv, OrderWell, Came
  <2>11. VouchersTracked'
    <3> SUFFICES ASSUME NEW p \in Orders \ voucherLost', NEW n \in 1 .. issued'[p]
                 PROVE  order'[p].voucher = n \/ \E r \in Calls : Holds(r, p, n)'
      BY DEF VouchersTracked
    <3>1. p \notin voucherLost
      BY <2>2
    <3>2. CASE p = o /\ n = issued[o] + 1
      <4>1. call' = [call EXCEPT ![q] = held]
        BY <2>2, <3>2
      <4> QED BY <2>3, <2>5, <3>2, <4>1 DEF IInv, Typed, Holds, Holding
    <3>3. CASE ~(p = o /\ n = issued[o] + 1)
      <4>1. n \in 1 .. issued[p]
        BY <1>2, <2>1, <3>3 DEF IInv, Typed
      <4>2. order[p].voucher = n \/ \E r \in Calls : Holds(r, p, n)
        BY <3>1, <4>1 DEF IInv, VouchersTracked
      <4>3. ASSUME NEW r \in Calls, Holds(r, p, n) PROVE Holds(r, p, n)'
        <5>1. r # q
          BY <1>1, <4>3 DEF Holds
        <5> QED BY <2>6, <4>3, <5>1 DEF IInv, Typed, Holds
      <4> QED BY <1>1, <4>2, <4>3
    <3> QED BY <3>2, <3>3
  <2> QED BY <2>7, <2>12, <2>8, <2>9, <2>10, <2>11 DEF IInv
<1> QED BY <1>6, <1>7

LEMMA ActivateKeeps ==
  ASSUME IInv, NEW q \in Calls, Activate(q)
  PROVE  IInv'
<1> DEFINE o == call[q].target
           v == Passed(q)
<1>1. /\ call[q].pc = "activate"
      /\ periods' = periods + 1
      /\ given' = [given EXCEPT ![o] = @ + 1]
      /\ user' = [user EXCEPT !.status = "subscribed", !.paid = periods + 1, !.trialEnds = FALSE]
      /\ call' = [call EXCEPT ![q] = v]
      /\ UNCHANGED <<codes, passwords, chosen, usedTwice, collided, order, packaged, provider, issued,
                     voucherLost, stale>>
  BY DEF Activate, On
<1>2. call[q] \in CallState /\ o \in Orders /\ user.exists /\ call[q].read.stage = "tracked"
      /\ Came(o) /\ provider[o] \in Outcomes
      /\ (o \in packaged => call[q].read.voucher # NoVoucher)
  BY <1>1 DEF IInv, Typed, RequestWell, Paying, Settling, Holding
<1>3. AfterPaid("activate") = "store"
  BY DEF AfterPaid
<1>4. v \in CallState /\ v = [call[q] EXCEPT !.pc = "store"]
  BY <1>1, <1>3, PassedState
<1>5. v.pc = "store" /\ v.target = o /\ v.purpose = call[q].purpose /\ v.read = call[q].read
  BY <1>2, <1>4 DEF CallState
<1> HIDE DEF v
<1>6. given[o] \in Nat /\ given' \in [Orders -> Nat] /\ given'[o] = given[o] + 1
      /\ \A p \in Orders : given[p] > 0 => given'[p] > 0
  BY <1>1, <1>2 DEF IInv, Typed
<1>7. periods \in Nat /\ periods + 1 \in Nat /\ user \in UserRow
  BY DEF IInv, Typed
<1>8. /\ user' \in UserRow /\ user'.exists /\ user'.password = user.password
      /\ user'.status = "subscribed" /\ user'.paid = periods + 1
  <2> DEFINE n == periods + 1
  <2>1. user' = [user EXCEPT !.status = "subscribed", !.paid = n, !.trialEnds = FALSE] /\ n \in Nat
    BY <1>1, <1>7
  <2>2. user' \in UserRow /\ user'.exists = user.exists /\ user'.password = user.password
        /\ user'.status = "subscribed" /\ user'.paid = n
    <3> HIDE DEF n
    <3> QED BY <1>7, <2>1 DEF UserRow
  <2> QED BY <1>2, <2>2
<1>9. Typed'
  BY <1>1, <1>4, <1>6, <1>7, <1>8 DEF IInv, Typed
<1>15. CodesApart'
  BY <1>1, <1>4, <1>5, CodesUntouched DEF InHand
<1>10. CodesOrdered' /\ CodesGovernAccount' /\ AccountBehind' /\ PeriodKept'
  BY <1>1, <1>2, <1>8 DEF IInv, CodesOrdered, CodesGovernAccount, AccountBehind, PeriodKept
<1>11. RequestWell(q)'
  <2>1. call'[q] = v
    BY <1>1 DEF IInv, Typed
  <2> QED BY <1>1, <1>2, <1>5, <1>6, <1>8, <2>1 DEF RequestWell, Came
<1>12. \A p \in Calls : RequestWell(p)'
  BY <1>1, <1>4, <1>6, <1>8, <1>11, OthersWell
<1>13. ASSUME NEW p \in Orders PROVE OrderWell(p)'
  BY <1>1, <1>2, <1>6 DEF IInv, Typed, OrderWell, Came
<1>14. VouchersTracked'
  BY <1>1, <1>4, <1>5, VouchersStay DEF Holding
<1> QED BY <1>9, <1>15, <1>10, <1>12, <1>13, <1>14 DEF IInv

LEMMA StoreOrderKeeps ==
  ASSUME IInv, NEW q \in Calls, StoreOrder(q)
  PROVE  IInv'
<1> DEFINE o == call[q].target
           new == IF call[q].pc = "store" THEN [call[q].read EXCEPT !.status = "paid"] ELSE call[q].read
<1>1. /\ call[q].pc \in {"store", "storeUnpaid"}
      /\ order' = [order EXCEPT ![o] = new]
      /\ voucherLost' = IF order[o].voucher \notin {NoVoucher, new.voucher} THEN voucherLost \union {o}
                        ELSE voucherLost
      /\ UNCHANGED <<auth, packaged, provider, issued, given, periods, stale>>
  BY DEF StoreOrder, On
<1>2. call[q] \in CallState /\ o \in Orders /\ user.exists /\ call[q].read.stage = "tracked"
      /\ call[q].read \in OrderRow /\ provider[o] \in Outcomes
  BY <1>1 DEF IInv, Typed, RequestWell, Paying, Settling, Holding, CallState
<1>3. call' = [call EXCEPT ![q] = NoRequest]
  <2>1. call[q].pc = "store" => Passed(q) = NoRequest
    BY DEF Passed, AfterPaid
  <2> QED BY <2>1 DEF StoreOrder, On
<1>4. RequestWell(q)'
  BY <1>3, EndsWell DEF Ends
<1>5. /\ new \in OrderRow /\ new.stage = "tracked" /\ new.voucher = call[q].read.voucher
      /\ new.status = "paid" => call[q].pc = "store"
  <2>1. CASE call[q].pc = "store"
    BY <1>2, <2>1 DEF OrderRow, Money
  <2>2. CASE call[q].pc = "storeUnpaid"
    BY <1>2, <2>2 DEF IInv, RequestWell
  <2> QED BY <1>1, <2>1, <2>2
<1>6. call[q].pc = "store" =>
        /\ given[o] > 0
        /\ o \in packaged => call[q].read.voucher # NoVoucher
  BY <1>2 DEF IInv, RequestWell, Holding
<1> HIDE DEF new
<1>7. Typed'
  BY <1>1, <1>2, <1>3, <1>5, ValuesTyped DEF IInv, Typed, auth
<1>13. CodesApart'
  BY <1>1, <1>3, ValuesTyped, CodesUntouched DEF NoRequest, InHand, auth
<1>8. CodesOrdered' /\ CodesGovernAccount' /\ PeriodKept'
  BY <1>1 DEF IInv, CodesOrdered, CodesGovernAccount, PeriodKept, auth
<1>9. AccountBehind'
  BY <1>1, <1>2 DEF IInv, Typed, AccountBehind, auth
<1>10. \A p \in Calls : RequestWell(p)'
  BY <1>1, <1>3, <1>4, ValuesTyped, OthersWell DEF auth
<1>11. ASSUME NEW p \in Orders PROVE OrderWell(p)'
  <2>1. CASE p = o
    BY <1>1, <1>2, <1>5, <1>6, <2>1 DEF IInv, Typed, OrderWell, Came
  <2>2. CASE p # o
    BY <1>1, <2>2 DEF IInv, Typed, OrderWell, Came
  <2> QED BY <2>1, <2>2
<1>12. VouchersTracked'
  <2> SUFFICES ASSUME NEW p \in Orders \ voucherLost', NEW n \in 1 .. issued'[p]
               PROVE  order'[p].voucher = n \/ \E r \in Calls : Holds(r, p, n)'
    BY DEF VouchersTracked
  <2>1. p \notin voucherLost /\ n \in 1 .. issued[p] /\ n # NoVoucher
    BY <1>1 DEF NoVoucher
  <2>2. order[p].voucher = n \/ \E r \in Calls : Holds(r, p, n)
    BY <2>1 DEF IInv, VouchersTracked
  <2>3. CASE order[p].voucher = n
    <3>1. CASE p = o
      BY <1>1, <1>2, <2>1, <2>3, <3>1 DEF IInv, Typed
    <3>2. CASE p # o
      BY <1>1, <2>3, <3>2 DEF IInv, Typed
    <3> QED BY <3>1, <3>2
  <2>4. ASSUME NEW r \in Calls, Holds(r, p, n)
        PROVE  order'[p].voucher = n \/ Holds(r, p, n)'
    <3>1. CASE r = q
      BY <1>1, <1>2, <1>5, <2>4, <3>1 DEF IInv, Typed, Holds
    <3>2. CASE r # q
      BY <1>3, <2>4, <3>2 DEF IInv, Typed, Holds
    <3> QED BY <3>1, <3>2
  <2> QED BY <2>2, <2>3, <2>4
<1> QED BY <1>7, <1>13, <1>8, <1>9, <1>10, <1>11, <1>12 DEF IInv

-----------------------------------------------------------------------------
LEMMA IdleKeeps == IInv /\ UNCHANGED accountVars => IInv'
<1> SUFFICES ASSUME IInv, UNCHANGED accountVars PROVE IInv'
  OBVIOUS
<1> USE DEF accountVars, auth, payment
<1>1. Typed' /\ CodesOrdered' /\ CodesApart' /\ CodesGovernAccount' /\ AccountBehind' /\ PeriodKept'
  BY DEF IInv, Typed, CodesOrdered, CodesApart, Unused, CodesGovernAccount, AccountBehind, PeriodKept
<1>2. ASSUME NEW q \in Calls PROVE RequestWell(q)'
  BY DEF IInv, RequestWell, Came
<1>3. ASSUME NEW o \in Orders PROVE OrderWell(o)'
  BY DEF IInv, OrderWell, Came
<1>4. VouchersTracked'
  BY DEF IInv, VouchersTracked, Holds
<1> QED BY <1>1, <1>2, <1>3, <1>4 DEF IInv

LEMMA Preserved == IInv /\ [AccountsNext]_accountVars => IInv'
<1> SUFFICES ASSUME IInv, [AccountsNext]_accountVars PROVE IInv'
  OBVIOUS
<1>1. ASSUME NEW o \in Orders, StartOrder(o) \/ SubmitCollection(o) \/ TrackOrder(o) \/ ProviderMoves(o)
      PROVE  IInv'
  BY <1>1, StartOrderKeeps, SubmitCollectionKeeps, TrackOrderKeeps, ProviderMovesKeeps
<1>2. ASSUME NEW q \in Calls,
             Signup(q) \/ ResendVerification(q) \/ RequestPasswordReset(q) \/ ReplaceCodes(q) \/ IssueCode(q)
      PROVE  IInv'
  BY <1>2, SignupKeeps, ResendVerificationKeeps, RequestPasswordResetKeeps, ReplaceCodesKeeps, IssueCodeKeeps
<1>3. ASSUME NEW q \in Calls, NEW c \in DOMAIN codes, EnterCode(q, c) PROVE IInv'
  BY <1>3, EnterCodeKeeps
<1>4. ASSUME NEW q \in Calls,
             UseCode(q) \/ FindOrCreate(q) \/ ReadForReset(q) \/ ReadForRepair(q) \/ SaveUser(q)
      PROVE  IInv'
  BY <1>4, UseCodeKeeps, FindOrCreateKeeps, ReadForResetKeeps, ReadForRepairKeeps, SaveUserKeeps
<1>5. ASSUME NEW q \in Calls, NEW o \in Orders, ReadOrder(q, o) PROVE IInv'
  BY <1>5, ReadOrderKeeps
<1>6. ASSUME NEW q \in Calls, AskProvider(q) \/ EnsureVoucher(q) \/ Activate(q) \/ StoreOrder(q) \/ Fail(q)
      PROVE  IInv'
  BY <1>6, AskProviderKeeps, EnsureVoucherKeeps, ActivateKeeps, StoreOrderKeeps, FailKeeps
<1>7. CASE UNCHANGED accountVars
  BY <1>7, IdleKeeps
<1> QED BY <1>1, <1>2, <1>3, <1>4, <1>5, <1>6, <1>7 DEF AccountsNext

THEOREM Invariance == AccountsSpec => []IInv
BY Initially, Preserved, PTL DEF AccountsSpec

-----------------------------------------------------------------------------
(* Results.                                                                *)

\* issueCode and consumeCode keep one usable code of a purpose, and the password follows the codes,
\* as long as no two uses overlap and no older copy of the users row is saved.
THEOREM CodesGovern == AccountsSpec => []CodesGovernAccount
BY Invariance, PTL DEF IInv

\* If ioTec uses plain words, applyStatus pays out only what came in, and shows as paid only what it
\* gave; a second voucher of an order or a lost period needs an interrupted check or a stale save of
\* the account.
THEOREM Payments ==
  ASSUME PlainWords
  PROVE  AccountsSpec => []PaymentsHonoured
<1>1. IInv => PaymentsHonoured
  <2> SUFFICES ASSUME IInv PROVE PaymentsHonoured
    OBVIOUS
  <2>1. ASSUME NEW o \in Orders, issued[o] > 1, o \notin voucherLost
        PROVE  \E q \in Calls : call[q].target = o
    <3>1. 1 \in 1 .. issued[o] /\ 2 \in 1 .. issued[o]
      BY <2>1 DEF IInv, Typed
    <3>2. \/ order[o].voucher = 1 /\ order[o].voucher = 2
          \/ \E q \in Calls : Holds(q, o, 1) \/ Holds(q, o, 2)
      BY <2>1, <3>1 DEF IInv, VouchersTracked
    <3> QED BY <3>2 DEF Holds
  <2> QED BY <2>1 DEF IInv, PaymentsHonoured, OrderWell, Came, PeriodKept
<1> QED BY <1>1, Invariance, PTL
=============================================================================
