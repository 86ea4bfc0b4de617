------------------------------ MODULE PlanTerms ------------------------------
(***************************************************************************)
(* The arithmetic of what is sold: the duration of a plan as it is entered *)
(* and shown (src/internal/plans/service.go), the time and data left of a  *)
(* voucher as RADIUS attributes (src/internal/radius/service.go), and the  *)
(* packets of the UDP server (src/internal/radius/udp_server.go).  planRow *)
(* is the stored plan through its changes, reply the last answer.  Names,  *)
(* prices and texts are left out; a refused input gives Refused.           *)
(***************************************************************************)
EXTENDS Integers, Sequences

CONSTANTS MaxInt,   \* the largest int
          Word,     \* 2^32
          Tick,     \* ticks of the clock in a second
          Minutes, Values,     \* entered minutes and values
          Times,    \* ticks until a voucher expires
          Sizes,    \* bytes left of a data limit
          Lengths,  \* lengths of texts in attributes
          Packets   \* byte sequences after the header of a packet

ASSUME TermsAssumption == /\ MaxInt \in Nat \ {0} /\ Word \in Nat \ {0} /\ Tick \in Nat \ {0}
                          /\ Word <= MaxInt
                          /\ Values \subseteq Int
                          /\ Minutes \subseteq {m \in Int : m <= MaxInt}
                          /\ Times \subseteq Int
                          /\ Sizes \subseteq {n \in Int : n < Word * Word}
                          /\ Lengths \subseteq Nat
                          /\ Packets \subseteq Seq(Nat)

VARIABLES planRow, \* the plan's duration columns
          asked,   \* history: the row, the fields and the input of the last change
          reply    \* the last thing the RADIUS side computed, with its input

-----------------------------------------------------------------------------
(* Durations of plans.                                                     *)

Units == {"minutes", "hours", "days", "weeks", "months"}

Multiplier(unit) == CASE unit = "minutes" -> 1
                      [] unit = "hours"   -> 60
                      [] unit = "days"    -> 24 * 60
                      [] unit = "weeks"   -> 7 * 24 * 60
                      [] unit = "months"  -> 30 * 24 * 60

Refused == [value |-> 0, unit |-> "minutes", minutes |-> 0]

\* durationToMinutes after normalizeDurationUnit; 0 is an error.
DurationToMinutes(value, unit) ==
  IF unit \in Units /\ value > 0 /\ value <= MaxInt \div Multiplier(unit)
  THEN value * Multiplier(unit) ELSE 0

Divides(unit, minutes) == minutes >= Multiplier(unit) /\ minutes % Multiplier(unit) = 0

\* Mutant: the largest unit that fits.
LargestFitting(minutes) ==
  LET unit == CHOOSE u \in Units :
                /\ minutes >= Multiplier(u)
                /\ \A w \in Units : minutes >= Multiplier(w) => Multiplier(w) <= Multiplier(u)
  IN  IF minutes <= 0 THEN Refused
      ELSE [value |-> minutes \div Multiplier(unit), unit |-> unit, minutes |-> minutes]

\* deriveDurationPresentation: the largest unit that divides the minutes.
DeriveDurationPresentation(minutes) ==
  LET unit == CHOOSE u \in Units :
                Divides(u, minutes) /\ \A w \in Units : Divides(w, minutes) => Multiplier(w) <= Multiplier(u)
  IN  IF minutes <= 0 THEN Refused
      ELSE [value |-> minutes \div Multiplier(unit), unit |-> unit, minutes |-> minutes]

\* hydratePlanDurationPresentation: what lists, the portal and Patch see of a row.
HydratePlanDurationPresentation(p) ==
  IF p.value > 0 /\ DurationToMinutes(p.value, p.unit) = p.minutes /\ p.minutes > 0 THEN p
  ELSE DeriveDurationPresentation(p.minutes)

FromValue(value, unit) ==
  LET minutes == DurationToMinutes(value, unit)
  IN  IF minutes = 0 THEN Refused ELSE [value |-> value, unit |-> unit, minutes |-> minutes]

\* normalizeCreateDuration; "" is a unit left out.
NormalizeCreateDuration(input) ==
  IF input.value > 0 \/ input.unit # "" THEN FromValue(input.value, input.unit)
  ELSE DeriveDurationPresentation(input.minutes)

\* Mutant: a value given without its unit counts minutes.
PatchInMinutes(p, given, input) ==
  IF given \intersect {"value", "unit"} # {} THEN
    FromValue(IF "value" \in given THEN input.value ELSE p.value,
              IF "unit" \in given THEN input.unit ELSE "minutes")
  ELSE IF "minutes" \in given THEN DeriveDurationPresentation(input.minutes)
  ELSE p

\* applyDurationPatch on the row as Patch found it; given is the set of fields in the request.
ApplyDurationPatch(p, given, input) ==
  IF given \intersect {"value", "unit"} # {} THEN
    FromValue(IF "value" \in given THEN input.value ELSE p.value,
              IF "unit" \in given THEN input.unit ELSE p.unit)
  ELSE IF "minutes" \in given THEN DeriveDurationPresentation(input.minutes)
  ELSE p

Patched(p, given, input) ==
  ApplyDurationPatch(HydratePlanDurationPresentation(p), given, input)

-----------------------------------------------------------------------------
(* RADIUS attributes.                                                      *)

LesserOf(a, b) == IF a < b THEN a ELSE b
GreaterOf(a, b) == IF a > b THEN a ELSE b

\* What an int keeps of a product.
Wrapped(n) == ((n + MaxInt + 1) % (2 * (MaxInt + 1))) - (MaxInt + 1)

FullDuration(minutes) == Wrapped(GreaterOf(minutes, 1) * 60)

\* Mutant: the time left is rounded down.
RoundedDown(started, left, full) ==
  IF ~started THEN full ELSE IF left <= 0 THEN 0
  ELSE LesserOf(GreaterOf(left \div Tick, 1), full)

\* remainingVoucherSeconds: full is the plan's duration, left the ticks until expires_at.
RemainingVoucherSeconds(started, left, full) ==
  IF ~started THEN full
  ELSE IF left <= 0 THEN 0
  ELSE LesserOf(GreaterOf((left + Tick - 1) \div Tick, 1), full)

\* appendMikrotikTotalLimit: the two words of the data left.
TotalLimit(bytes) == IF bytes <= 0 THEN <<>>
                     ELSE IF bytes \div Word > 0 THEN <<bytes % Word, bytes \div Word>>
                     ELSE <<bytes % Word>>

Speeds == {"", "1M", "2M"}

\* mikrotikRateLimit; "" is a blank speed, and a plan without speeds has no limit.
MikrotikRateLimit(upload, download) ==
  IF upload = "" /\ download = "" THEN <<>>
  ELSE <<IF upload = "" THEN download ELSE upload, IF download = "" THEN upload ELSE download>>

\* stringAttribute and mikrotikRateLimitAttribute: the lengths of the attributes of a value.
StringAttribute(n) == LesserOf(n, 253) + 2

VendorAttribute(n) == [outer |-> LesserOf(n, 247) + 8, inner |-> LesserOf(n, 247) + 2]

-----------------------------------------------------------------------------
Inputs == [value : Values, unit : Units \union {"", "fortnights"}, minutes : Minutes]

NoReply == [kind |-> "none"]

NotAsked == [given |-> {}, input |-> Refused, before |-> Refused]

TermsInit == planRow = Refused /\ asked = NotAsked /\ reply = NoReply

\* A row of before value and unit were stored: the migration gave them their defaults.
LegacyPlan(m) == /\ planRow = Refused /\ m > 0
                 /\ planRow' = [value |-> 1, unit |-> "minutes", minutes |-> m]
                 /\ UNCHANGED <<asked, reply>>

CreatePlan(input) == /\ planRow = Refused
                     /\ planRow' = NormalizeCreateDuration(input)
                     /\ UNCHANGED <<asked, reply>>

PatchPlan(given, input) ==
  LET q == Patched(planRow, given, input)
  IN  /\ planRow # Refused
      /\ q # Refused
      /\ planRow' = q
      /\ asked' = [given |-> given, input |-> input, before |-> planRow]
      /\ UNCHANGED reply

\* The time left of a voucher of this plan, as radreply stores it and as the UDP server sends it; 0
\* is a rejection.
GrantTime(started, left) ==
  LET seconds == RemainingVoucherSeconds(started, left, FullDuration(planRow.minutes))
  IN  /\ planRow # Refused
      /\ reply' = [kind |-> "time", started |-> started, left |-> left,
                   stored |-> GreaterOf(seconds, 1),
                   sent |-> IF seconds <= 0 THEN 0 ELSE seconds % Word]
      /\ UNCHANGED <<planRow, asked>>

GrantData(bytes) ==
  /\ reply' = [kind |-> "data", bytes |-> bytes, words |-> TotalLimit(bytes)]
  /\ UNCHANGED <<planRow, asked>>

GrantSpeed(up, down) ==
  /\ reply' = [kind |-> "speed", rate |-> MikrotikRateLimit(up, down)]
  /\ UNCHANGED <<planRow, asked>>

SendAttribute(n) ==
  /\ reply' = [kind |-> "attribute", length |-> n, string |-> StringAttribute(n),
               vendor |-> VendorAttribute(n)]
  /\ UNCHANGED <<planRow, asked>>

-----------------------------------------------------------------------------
(* parseRadiusPacket.  data are the bytes after the header, claimed how    *)
(* many the length field says they are, offset how many were read, and     *)
(* attributes the offsets at which the stored attributes begin.            *)

ReceivePacket(claimed, data) ==
  /\ reply' = [kind |-> IF claimed \in 0 .. Len(data) THEN "packet" ELSE "refused",
               claimed |-> claimed, data |-> data, offset |-> 0, attributes |-> {}]
  /\ UNCHANGED <<planRow, asked>>

AttrLen(p) == p.data[p.offset + 2]

Truncated(p) ==
  p.offset + 2 > p.claimed \/ AttrLen(p) < 2 \/ p.offset + AttrLen(p) > p.claimed

\* One turn of the loop.
ReadAttribute ==
  /\ reply.kind = "packet" /\ reply.offset < reply.claimed
  /\ reply' = IF Truncated(reply) THEN [reply EXCEPT !.kind = "refused"]
              ELSE [reply EXCEPT !.offset = @ + AttrLen(reply),
                                 !.attributes = @ \union {reply.offset}]
  /\ UNCHANGED <<planRow, asked>>

-----------------------------------------------------------------------------
\* Fields that are not in a request are nil; their input does not matter.
Nil == [value |-> 0, unit |-> "", minutes |-> 0]

Requested(given, input) == \A f \in DOMAIN Nil : f \notin given => input[f] = Nil[f]

\* One change: a row that was changed is one that could have been created, which the first property
\* below checks of it.
PlanStep ==
  \/ \E m \in Minutes : LegacyPlan(m)
  \/ \E input \in Inputs :
       \/ CreatePlan(input)
       \/ /\ asked = NotAsked
          /\ \E given \in SUBSET DOMAIN Nil : Requested(given, input) /\ PatchPlan(given, input)

RadiusStep ==
  \/ \E started \in BOOLEAN, left \in Times : GrantTime(started, left)
  \/ \E bytes \in Sizes : GrantData(bytes)
  \/ \E up, down \in Speeds : GrantSpeed(up, down)
  \/ \E n \in Lengths : SendAttribute(n)
  \/ \E data \in Packets : \E claimed \in -1 .. (Len(data) + 1) : ReceivePacket(claimed, data)

\* An answer does not depend on earlier ones, so a behaviour has one.
TermsNext == (reply = NoReply /\ (PlanStep \/ RadiusStep)) \/ ReadAttribute

-----------------------------------------------------------------------------
(* Properties.                                                             *)

\* The duration every list and the portal show is the one RADIUS grants, for rows of any age, and no
\* duration that was entered overflows.
ShownIsSold ==
  LET shown == HydratePlanDurationPresentation(planRow)
  IN  planRow # Refused => /\ shown.minutes = planRow.minutes
                       /\ shown.value * Multiplier(shown.unit) = planRow.minutes
                       /\ planRow.minutes \in 1..MaxInt

\* A change of some of the duration's fields leaves value, unit and minutes in agreement, gives what
\* was asked for, and keeps what was not given as it was shown.
PatchKeepsTerms ==
  LET given  == asked.given
      shown  == HydratePlanDurationPresentation(asked.before)
  IN  asked # NotAsked =>
        /\ planRow.minutes = planRow.value * Multiplier(planRow.unit)
        /\ "value" \in given => planRow.value = asked.input.value
        /\ "unit" \in given => planRow.unit = asked.input.unit
        /\ "unit" \in given /\ "value" \notin given => planRow.value = shown.value
        /\ "value" \in given /\ "unit" \notin given => planRow.unit = shown.unit
        /\ given = {"minutes"} => planRow.minutes = asked.input.minutes
        /\ given = {} => planRow.minutes = asked.before.minutes

\* A voucher is granted the duration its plan is shown with, and from its first login on the time left
\* to expires_at, not short and not a whole second too long; this is for durations whose seconds fit
\* the 32 bits of a Session-Timeout.  Of a longer one at most what was sold is granted.
TimeGranted ==
  LET shown == HydratePlanDurationPresentation(planRow)
      sold  == shown.value * Multiplier(shown.unit) * 60
  IN  reply.kind = "time" =>
        /\ reply.sent <= sold
        /\ sold < Word =>
             /\ reply.stored = GreaterOf(reply.sent, 1)
             /\ ~reply.started => reply.sent = sold
             /\ reply.started /\ reply.left <= 0 => reply.sent = 0
             /\ reply.started /\ reply.left > 0 =>
                  /\ (reply.sent - 1) * Tick < reply.left
                  /\ reply.sent * Tick >= reply.left \/ reply.sent = sold

\* The two words of the data left fit their width and add up to it, a rate limit has both directions
\* or none, and no attribute's length overflows its byte or disagrees with the vendor length inside.
LimitsExact ==
  CASE reply.kind = "data" ->
         LET w == reply.words
         IN  /\ \A i \in DOMAIN w : w[i] \in 0 .. (Word - 1)
             /\ GreaterOf(reply.bytes, 0) = (IF w # <<>> THEN w[1] ELSE 0)
                                           + (IF Len(w) = 2 THEN w[2] * Word ELSE 0)
    [] reply.kind = "speed" -> reply.rate = <<>> \/ (reply.rate[1] # "" /\ reply.rate[2] # "")
    [] reply.kind = "attribute" ->
         /\ reply.string <= 255
         /\ reply.vendor.outer <= 255
         /\ reply.vendor.outer = reply.vendor.inner + 6
         /\ reply.length <= 247 => reply.vendor.inner = reply.length + 2
    [] OTHER -> TRUE

\* S holds the ends of the attributes of a packet that is nothing but whole attributes.
Chain(S, claimed, data) ==
  /\ 0 \in S
  /\ \A o \in S : \/ o = claimed
                  \/ o + 2 <= claimed /\ data[o + 2] >= 2 /\ o + data[o + 2] \in S

WellFormed(claimed, data) ==
  claimed <= Len(data) /\ \E S \in SUBSET (0 .. claimed) : Chain(S, claimed, data)

\* Only packets that are not well formed are refused, and of the others every byte read is in exactly
\* one attribute, whose length byte says how long it is: no gap, no overlap, no attribute that does
\* not move the loop on.
PacketsSplit ==
  /\ reply.kind = "refused" => ~WellFormed(reply.claimed, reply.data)
  /\ reply.kind = "packet" =>
       LET Bytes(o) == (o + 1) .. (o + reply.data[o + 2])
       IN  /\ \A o \in reply.attributes : {o + 1, o + 2} \subseteq Bytes(o)
           /\ UNION {Bytes(o) : o \in reply.attributes} = 1 .. reply.offset
           /\ \A o, u \in reply.attributes : o # u => Bytes(o) \intersect Bytes(u) = {}

\* What RADIUS answers is what was sold and what is left, and what it reads is what was sent.
RadiusAnswersExact == TimeGranted /\ LimitsExact /\ PacketsSplit
=============================================================================
