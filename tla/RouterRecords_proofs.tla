------------------------- MODULE RouterRecords_proofs -------------------------
(***************************************************************************)
(* Theorems about RouterRecords, for every number of requests, accounts,   *)
(* interfaces, assignments, tokens and challenges.                         *)
(***************************************************************************)
EXTENDS RouterRecords, FiniteSetTheorems, TLAPS

RecordsSpec == RecordsInit /\ [][RecordsNext]_records

Row == [state : {"none", "live", "deleted"}, token : Nat, aged : BOOLEAN, linked : BOOLEAN]

Batch == [id : Nat, layout : Layouts]

Challenge == [actor : Actors, used : Nat, aged : BOOLEAN]

Stages == {"idle", "save", "discover", "replace", "insert", "delete"}

Kinds == {"none", "link", "checkIn", "interface", "regenerate", "directApi"}

Operation == [pc : Stages, kind : Kinds, copy : Row, rows : SUBSET Batch, layout : Layouts \union {{}},
              challenge : Nat, actor : Actors \union {"nobody"}]

\* The rows, and the copies of them that requests hold.
Typed ==
  /\ row \in Row
  /\ ports \in SUBSET Batch
  /\ tokens \in Nat /\ batches \in Nat
  /\ op \in [Requests -> Operation]
  /\ \E n \in Nat : challenges \in [1 .. n -> Challenge]
  /\ revoked \in SUBSET Nat
  /\ servedLate \in BOOLEAN /\ overtaken \in BOOLEAN /\ crossed \in BOOLEAN

\* Every token was handed out.
TokensKnown ==
  /\ row.token <= tokens
  /\ \A t \in revoked : t <= tokens
  /\ \A q \in Requests : op[q].copy.token <= tokens

\* Nothing was revoked of a router that was never created.
NothingBeforeCreation ==
  row.state = "none" => tokens = 0 /\ revoked = {} /\ \A c \in DOMAIN challenges : challenges[c].used = 0

\* Two batches of assignments are there only after an overlap, and each batch is valid.
BatchesValid ==
  /\ ~crossed /\ ~overtaken => \A b, c \in ports : b = c
  /\ ~crossed /\ ~overtaken => \A b \in ports : Valid(b.layout)
  /\ \A q \in Requests : Is(q, "replace") \/ Is(q, "insert") => Valid(op[q].layout)

\* Handlers save copies of a router that was there.
CopiesLive == \A q \in Requests : Is(q, "save") => op[q].copy.state = "live"

IInv == CopiesLive /\ Typed /\ TokensKnown /\ NothingBeforeCreation /\ RevocationHolds /\ BatchesValid

-----------------------------------------------------------------------------
LEMMA Initially == RecordsInit => IInv
<1> SUFFICES ASSUME RecordsInit PROVE IInv
  OBVIOUS
<1>1. Absent \in Row /\ NoOp \in Operation
  BY DEF Absent, NoOp, Row, Operation, DeletedToken, Stages, Kinds
<1>2. \E n \in Nat : challenges \in [1 .. n -> Challenge]
  <2>1. challenges \in [1 .. 0 -> Challenge]
    BY DEF RecordsInit
  <2> QED BY <2>1
<1>3. Typed
  BY <1>1, <1>2 DEF Typed, RecordsInit
<1>4. TokensKnown /\ NothingBeforeCreation /\ RevocationHolds
  BY DEF RecordsInit, TokensKnown, NothingBeforeCreation, RevocationHolds, Absent, NoOp, DeletedToken
<1>5. BatchesValid /\ CopiesLive
  BY DEF RecordsInit, BatchesValid, CopiesLive, Is, NoOp
<1> QED BY <1>3, <1>4, <1>5 DEF IInv

\* A step that only gives a request q a state v, with a copy whose token was handed out and a valid
\* layout when it replaces the assignments, keeps the invariant.
LEMMA RequestMoves ==
  ASSUME IInv, NEW q \in Requests, NEW v \in Operation,
         op' = [op EXCEPT ![q] = v],
         UNCHANGED <<row, ports, challenges, tokens, batches, revoked, overtaken, crossed>>,
         v.copy.token <= tokens,
         v.pc \in {"replace", "insert"} => Valid(v.layout),
         v.pc = "save" => v.copy.state = "live",
         servedLate' \in BOOLEAN,
         servedLate' => overtaken
  PROVE  IInv'
<1>1. Typed'
  BY DEF IInv, Typed
<1>2. TokensKnown' /\ NothingBeforeCreation' /\ RevocationHolds'
  BY DEF IInv, Typed, TokensKnown, NothingBeforeCreation, RevocationHolds
<1>3. BatchesValid' /\ CopiesLive'
  BY DEF IInv, Typed, BatchesValid, Valid, ValidAnyRoles, CopiesLive, Is
<1> QED BY <1>1, <1>2, <1>3 DEF IInv

\* A request that ends, or reads the row, keeps the invariant.
LEMMA NoOpIsOperation == NoOp \in Operation
BY DEF NoOp, Operation, Absent, Row, DeletedToken, Stages, Kinds

-----------------------------------------------------------------------------
(* Requests that read.                                                     *)

LEMMA ReadKeeps ==
  ASSUME IInv, NEW q \in Requests, NEW kind \in Dashboard \union Callbacks, Read(q, kind), row.state = "live",
         UNCHANGED <<row, ports, challenges, tokens, batches, revoked, overtaken, crossed>>,
         servedLate' \in BOOLEAN, servedLate' => overtaken
  PROVE  IInv'
<1> DEFINE v == [NoOp EXCEPT !.pc = "save", !.kind = Change(kind), !.copy = row, !.rows = ports]
<1>1. Change(kind) \in Kinds
  BY DEF Change, Dashboard, Callbacks, Kinds
<1>2. /\ v \in Operation
      /\ v.copy = row /\ v.pc = "save"
  BY <1>1, NoOpIsOperation DEF IInv, Typed, Operation, NoOp, Stages
<1>3. op' = [op EXCEPT ![q] = v]
  BY DEF Read
<1>4. v.copy.token <= tokens
  BY <1>2 DEF IInv, TokensKnown
<1> HIDE DEF v
<1> QED BY <1>2, <1>3, <1>4, RequestMoves

LEMMA ReadForDashboardKeeps ==
  ASSUME IInv, NEW q \in Requests, NEW kind \in Dashboard, ReadForDashboard(q, kind)
  PROVE  IInv'
BY ReadKeeps DEF ReadForDashboard, FoundById, IInv, Typed, RevocationHolds

LEMMA ReadForCallbackKeeps ==
  ASSUME IInv, NEW q \in Requests, NEW kind \in Callbacks, NEW t \in 1 .. tokens,
         ReadForCallback(q, kind, t)
  PROVE  IInv'
<1>1. servedLate' \in BOOLEAN
  BY DEF ReadForCallback
<1>2. servedLate' => overtaken
  BY DEF ReadForCallback, FoundByToken, IInv, RevocationHolds
<1> QED BY <1>1, <1>2, ReadKeeps DEF ReadForCallback, FoundByToken

LEMMA ChoosePortsKeeps ==
  ASSUME IInv, NEW q \in Requests, NEW layout \in Layouts, ChoosePorts(q, layout)
  PROVE  IInv'
<1> DEFINE v == [NoOp EXCEPT !.pc = "replace", !.layout = layout]
<1>1. v \in Operation /\ v.layout = layout /\ v.copy.token = 0 /\ v.pc = "replace"
  BY NoOpIsOperation DEF Operation, NoOp, Absent, DeletedToken, Stages
<1>2. op' = [op EXCEPT ![q] = v] /\ Valid(layout) /\ servedLate' = servedLate
  BY DEF ChoosePorts
<1>3. servedLate' \in BOOLEAN /\ (servedLate' => overtaken) /\ 0 <= tokens
  BY <1>2 DEF IInv, Typed, RevocationHolds
<1>4. UNCHANGED <<row, ports, challenges, tokens, batches, revoked, overtaken, crossed>>
  BY DEF ChoosePorts
<1> HIDE DEF v
<1> QED BY <1>1, <1>2, <1>3, <1>4, RequestMoves

LEMMA DeletePortsKeeps ==
  ASSUME IInv, NEW q \in Requests, DeletePorts(q)
  PROVE  IInv'
<1> DEFINE v == [op[q] EXCEPT !.pc = "insert", !.rows = ports]
<1>1. v \in Operation /\ v.layout = op[q].layout /\ v.copy = op[q].copy /\ v.pc = "insert"
  BY DEF IInv, Typed, Operation, Stages
<1>2. op' = [op EXCEPT ![q] = v]
  BY DEF DeletePorts
<1>3. Valid(v.layout)
  BY <1>1 DEF DeletePorts, IInv, BatchesValid
<1>4. servedLate' \in BOOLEAN /\ (servedLate' => overtaken) /\ v.copy.token <= tokens
  BY <1>1 DEF DeletePorts, IInv, Typed, RevocationHolds, TokensKnown
<1>5. UNCHANGED <<row, ports, challenges, tokens, batches, revoked, overtaken, crossed>>
  BY DEF DeletePorts
<1> HIDE DEF v
<1> QED BY <1>1, <1>2, <1>3, <1>4, <1>5, RequestMoves

LEMMA BeginDeleteKeeps ==
  ASSUME IInv, NEW q \in Requests, NEW c \in DOMAIN challenges, NEW actor \in Actors,
         BeginDelete(q, c, actor)
  PROVE  IInv'
<1> DEFINE v == [NoOp EXCEPT !.pc = "delete", !.challenge = c, !.actor = actor]
<1>1. c \in Nat
  BY DEF IInv, Typed
<1>2. v \in Operation /\ v.copy.token = 0 /\ v.pc = "delete"
  BY <1>1, NoOpIsOperation DEF Operation, NoOp, Absent, DeletedToken, Stages
<1>3. op' = [op EXCEPT ![q] = v]
  BY DEF BeginDelete
<1>4. servedLate' \in BOOLEAN /\ (servedLate' => overtaken) /\ 0 <= tokens
  BY DEF BeginDelete, IInv, Typed, RevocationHolds
<1>5. UNCHANGED <<row, ports, challenges, tokens, batches, revoked, overtaken, crossed>>
  BY DEF BeginDelete
<1> HIDE DEF v
<1> QED BY <1>2, <1>3, <1>4, <1>5, RequestMoves

LEMMA DiscoverKeeps ==
  ASSUME IInv, NEW q \in Requests, NEW report \in Reports, Discover(q, report)
  PROVE  IInv'
<1>1. op' = [op EXCEPT ![q] = NoOp] /\ NoOp.copy.token = 0 /\ NoOp.pc = "idle"
  BY DEF Discover, NoOp, Absent, DeletedToken
<1>2. servedLate' \in BOOLEAN /\ (servedLate' => overtaken) /\ 0 <= tokens
  BY DEF Discover, IInv, Typed, RevocationHolds
<1>3. UNCHANGED <<row, ports, challenges, tokens, batches, revoked, overtaken, crossed>>
  BY DEF Discover
<1> QED BY <1>1, <1>2, <1>3, NoOpIsOperation, RequestMoves

-----------------------------------------------------------------------------
(* Steps that change the rows.                                             *)

LEMMA CreateKeeps == IInv /\ Create => IInv'
<1> SUFFICES ASSUME IInv, Create PROVE IInv'
  OBVIOUS
<1>1. Typed'
  BY DEF IInv, Typed, Create, Absent, Row
<1>2. tokens = 0 /\ revoked = {} /\ \A c \in DOMAIN challenges : challenges[c].used = 0
  BY DEF IInv, NothingBeforeCreation, Create
<1>3. row'.token = 1 /\ row'.state = "live" /\ tokens' = 1
  BY DEF Create, Absent
<1>5. TokensKnown'
  BY <1>2, <1>3 DEF IInv, Typed, TokensKnown, Create, Operation, Row
<1>6. NothingBeforeCreation' /\ RevocationHolds'
  BY <1>2, <1>3 DEF IInv, NothingBeforeCreation, RevocationHolds, Create
<1>7. BatchesValid'
  BY DEF IInv, BatchesValid, Create, Valid, ValidAnyRoles, Is
<1>8. CopiesLive'
  BY DEF IInv, CopiesLive, Create, Is
<1> QED BY <1>1, <1>5, <1>6, <1>7, <1>8 DEF IInv

LEMMA ReportStatusKeeps ==
  ASSUME IInv, NEW t \in 1 .. tokens, ReportStatus(t)
  PROVE  IInv'
<1>1. row' \in Row /\ row'.token = row.token /\ row'.state = row.state
  BY DEF ReportStatus, IInv, Typed, Row
<1>2. servedLate' \in BOOLEAN
  BY DEF ReportStatus
<1>3. servedLate' => overtaken
  BY DEF ReportStatus, FoundByToken, IInv, RevocationHolds
<1>4. UNCHANGED <<ports, ifaces, challenges, tokens, batches, op, revoked, overtaken, crossed>>
  BY DEF ReportStatus
<1>5. Typed'
  BY <1>1, <1>2, <1>4 DEF IInv, Typed
<1>6. TokensKnown' /\ NothingBeforeCreation' /\ RevocationHolds'
  BY <1>1, <1>3, <1>4 DEF IInv, TokensKnown, NothingBeforeCreation, RevocationHolds
<1>7. BatchesValid' /\ CopiesLive'
  BY <1>4 DEF IInv, BatchesValid, CopiesLive, Valid, ValidAnyRoles, Is
<1> QED BY <1>5, <1>6, <1>7 DEF IInv

\* Challenges that are not used more than before change nothing else.
LEMMA ChallengesMove ==
  ASSUME IInv,
         UNCHANGED <<row, ports, tokens, batches, op, revoked, servedLate, overtaken, crossed>>,
         \E n \in Nat : challenges' \in [1 .. n -> Challenge],
         \A c \in DOMAIN challenges' :
           challenges'[c].used = 0 \/ (c \in DOMAIN challenges /\ challenges'[c].used = challenges[c].used)
  PROVE  IInv'
<1>1. Typed'
  BY DEF IInv, Typed
<1>2. TokensKnown' /\ NothingBeforeCreation' /\ RevocationHolds'
  BY DEF IInv, TokensKnown, NothingBeforeCreation, RevocationHolds
<1>3. BatchesValid' /\ CopiesLive'
  BY DEF IInv, BatchesValid, CopiesLive, Valid, ValidAnyRoles, Is
<1> QED BY <1>1, <1>2, <1>3 DEF IInv

LEMMA RequestDeleteChallengeKeeps ==
  ASSUME IInv, NEW actor \in Actors, RequestDeleteChallenge(actor)
  PROVE  IInv'
<1>1. PICK n \in Nat : challenges \in [1 .. n -> Challenge]
  BY DEF IInv, Typed
<1>2. Cardinality(DOMAIN challenges) = n
  BY <1>1, FS_Interval
<1>3. challenges' = [c \in 1 .. n + 1 |-> IF c \in DOMAIN challenges THEN challenges[c]
                                          ELSE [actor |-> actor, used |-> 0, aged |-> FALSE]]
  BY <1>2 DEF RequestDeleteChallenge
<1>4. challenges' \in [1 .. n + 1 -> Challenge] /\ n + 1 \in Nat
  BY <1>1, <1>3 DEF Challenge
<1>5. \A c \in DOMAIN challenges' :
        challenges'[c].used = 0 \/ (c \in DOMAIN challenges /\ challenges'[c].used = challenges[c].used)
  BY <1>3
<1>6. UNCHANGED <<row, ports, tokens, batches, op, revoked, servedLate, overtaken, crossed>>
  BY DEF RequestDeleteChallenge
<1> QED BY <1>4, <1>5, <1>6, ChallengesMove

LEMMA ChallengeAgesKeeps ==
  ASSUME IInv, NEW c \in DOMAIN challenges, ChallengeAges(c)
  PROVE  IInv'
<1>1. PICK n \in Nat : challenges \in [1 .. n -> Challenge]
  BY DEF IInv, Typed
<1>2. challenges' \in [1 .. n -> Challenge]
  BY <1>1 DEF ChallengeAges, Challenge
<1>3. \A d \in DOMAIN challenges' : d \in DOMAIN challenges /\ challenges'[d].used = challenges[d].used
  BY <1>1 DEF ChallengeAges, Challenge
<1>4. UNCHANGED <<row, ports, tokens, batches, op, revoked, servedLate, overtaken, crossed>>
  BY DEF ChallengeAges
<1> QED BY <1>2, <1>3, <1>4, ChallengesMove

LEMMA TokenAgesKeeps == IInv /\ TokenAges => IInv'
<1> SUFFICES ASSUME IInv, TokenAges PROVE IInv'
  OBVIOUS
<1>1. row' \in Row /\ row'.token = row.token /\ row'.state = row.state
  BY DEF TokenAges, IInv, Typed, Row
<1>2. ASSUME NEW q \in Requests
      PROVE  /\ op'[q] \in Operation
             /\ op'[q].copy.token = op[q].copy.token
             /\ op'[q].copy.state = op[q].copy.state
             /\ op'[q].pc = op[q].pc /\ op'[q].layout = op[q].layout
  <2>1. CASE Is(q, "save")
    <3> DEFINE b == op[q].copy.aged \/ op[q].copy.token = row.token
    <3>1. op'[q] = [op[q] EXCEPT !.copy.aged = b]
      BY <2>1 DEF TokenAges
    <3>2. b \in BOOLEAN
      BY DEF IInv, Typed, Operation, Row
    <3>3. op[q] \in Operation /\ [op[q].copy EXCEPT !.aged = b] \in Row
      BY <3>2 DEF IInv, Typed, Operation, Row
    <3>4. /\ op'[q] = [op[q] EXCEPT !.copy = [op[q].copy EXCEPT !.aged = b]]
          /\ op[q].copy \in Row
      BY <3>1, <3>3 DEF Operation
    <3> HIDE DEF b
    <3>5. /\ [op[q].copy EXCEPT !.aged = b].token = op[q].copy.token
          /\ [op[q].copy EXCEPT !.aged = b].state = op[q].copy.state
      BY <3>4 DEF Row
    <3> QED BY <3>3, <3>4, <3>5 DEF Operation
  <2>2. CASE ~Is(q, "save")
    BY <2>2 DEF TokenAges, IInv, Typed
  <2> QED BY <2>1, <2>2
<1>3. DOMAIN op' = Requests /\ op' = [q \in Requests |-> op'[q]]
  BY DEF TokenAges
<1>4. UNCHANGED <<ports, ifaces, challenges, tokens, batches, revoked, servedLate, overtaken, crossed>>
  BY DEF TokenAges
<1>5. Typed'
  BY <1>1, <1>2, <1>3, <1>4 DEF IInv, Typed
<1>6. TokensKnown' /\ NothingBeforeCreation' /\ RevocationHolds'
  BY <1>1, <1>2, <1>4 DEF IInv, TokensKnown, NothingBeforeCreation, RevocationHolds
<1>7. BatchesValid'
  <2>1. \A q \in Requests : op'[q].pc = op[q].pc /\ op'[q].layout = op[q].layout
    BY <1>2
  <2>2. ASSUME NEW q \in Requests, (Is(q, "replace") \/ Is(q, "insert"))'
        PROVE  Valid(op[q].layout)'
    <3>1. Valid(op[q].layout)
      BY <2>1, <2>2 DEF IInv, BatchesValid, Is
    <3> QED BY <2>1, <3>1 DEF Valid, ValidAnyRoles
  <2> QED BY <1>4, <2>2 DEF IInv, BatchesValid, Valid, ValidAnyRoles
<1>8. CopiesLive'
  BY <1>2 DEF IInv, CopiesLive, Is
<1> QED BY <1>5, <1>6, <1>7, <1>8 DEF IInv

LEMMA InsertPortsKeeps ==
  ASSUME IInv, NEW q \in Requests, InsertPorts(q)
  PROVE  IInv'
<1> DEFINE new == [id |-> batches + 1, layout |-> op[q].layout]
<1>1. new \in Batch /\ Valid(new.layout)
  <2>1. Valid(op[q].layout) /\ op[q].layout \in Layouts \union {{}}
    BY DEF InsertPorts, IInv, BatchesValid, Typed, Operation
  <2>2. op[q].layout # {}
    BY <2>1 DEF Valid, ValidAnyRoles
  <2> QED BY <2>1, <2>2 DEF Batch, IInv, Typed
<1>2. ports' = (ports \ op[q].rows) \union {new}
  BY DEF InsertPorts
<1>3. crossed' = (crossed \/ ~(ports \subseteq op[q].rows)) /\ crossed' \in BOOLEAN
  BY DEF InsertPorts
<1>4. op' = [op EXCEPT ![q] = NoOp] /\ batches' = batches + 1
      /\ UNCHANGED <<row, challenges, tokens, revoked, servedLate, overtaken>>
  BY DEF InsertPorts
<1>5. Typed'
  BY <1>1, <1>2, <1>3, <1>4, NoOpIsOperation DEF IInv, Typed
<1>6. NoOp.copy.token = 0 /\ NoOp.pc = "idle"
  BY DEF NoOp, Absent, DeletedToken
<1>7. TokensKnown' /\ NothingBeforeCreation' /\ RevocationHolds'
  BY <1>4, <1>6 DEF IInv, Typed, TokensKnown, NothingBeforeCreation, RevocationHolds
<1>8. ~crossed' /\ ~overtaken' => ports' = {new}
  BY <1>2, <1>3
<1>9. BatchesValid'
  <2>1. (~crossed /\ ~overtaken => \A b, c \in ports : b = c)'
    BY <1>8
  <2>2. (~crossed /\ ~overtaken => \A b \in ports : Valid(b.layout))'
    BY <1>1, <1>8 DEF Valid, ValidAnyRoles
  <2>3. ASSUME NEW p \in Requests, (Is(p, "replace") \/ Is(p, "insert"))'
        PROVE  Valid(op[p].layout)'
    BY <2>3, <1>4, <1>6 DEF IInv, Typed, BatchesValid, Is, Valid, ValidAnyRoles
  <2> QED BY <2>1, <2>2, <2>3 DEF BatchesValid
<1>10. CopiesLive'
  BY <1>4, <1>6 DEF IInv, Typed, CopiesLive, Is
<1> QED BY <1>5, <1>7, <1>9, <1>10 DEF IInv

LEMMA DeleteKeeps ==
  ASSUME IInv, NEW q \in Requests, Delete(q)
  PROVE  IInv'
<1> DEFINE c == op[q].challenge
<1>1. op' = [op EXCEPT ![q] = NoOp] /\ NoOp.copy.token = 0 /\ NoOp.pc = "idle"
      /\ UNCHANGED <<ports, tokens, batches, servedLate, overtaken, crossed>>
  BY DEF Delete, NoOp, Absent, DeletedToken
<1>2. CASE ChallengeAccepted(c, op[q].actor)
  <2>1. /\ challenges' = [challenges EXCEPT ![c].used = @ + 1]
        /\ row' = [row EXCEPT !.state = "deleted", !.token = DeletedToken, !.aged = FALSE]
        /\ revoked' = revoked \union ({row.token} \ {DeletedToken})
    BY <1>2 DEF Delete
  <2>2. row' \in Row /\ row'.state = "deleted" /\ row'.token = 0
    BY <2>1 DEF IInv, Typed, Row, DeletedToken
  <2>3. PICK n \in Nat : challenges \in [1 .. n -> Challenge]
    BY DEF IInv, Typed
  <2>4. challenges' \in [1 .. n -> Challenge]
    <3>1. ASSUME NEW d \in 1 .. n PROVE challenges'[d] \in Challenge
      BY <2>1, <2>3 DEF Challenge
    <3> QED BY <2>1, <2>3, <3>1
  <2>5. \A d \in DOMAIN challenges' : challenges'[d].used <= 1
    BY <1>2, <2>1, <2>3 DEF ChallengeAccepted, IInv, RevocationHolds, Challenge
  <2>6. Typed'
    BY <1>1, <2>1, <2>2, <2>4, NoOpIsOperation DEF IInv, Typed, Row
  <2>7. TokensKnown' /\ NothingBeforeCreation' /\ RevocationHolds'
    BY <1>1, <2>1, <2>2, <2>5 DEF IInv, Typed, TokensKnown, NothingBeforeCreation, RevocationHolds
  <2>8. BatchesValid' /\ CopiesLive'
    BY <1>1 DEF IInv, Typed, BatchesValid, CopiesLive, Is, Valid, ValidAnyRoles
  <2> QED BY <2>6, <2>7, <2>8 DEF IInv
<1>3. CASE ~ChallengeAccepted(c, op[q].actor)
  <2>1. UNCHANGED <<challenges, row, revoked>>
    BY <1>3 DEF Delete
  <2>2. servedLate' \in BOOLEAN /\ (servedLate' => overtaken) /\ 0 <= tokens
    BY <1>1 DEF IInv, Typed, RevocationHolds
  <2> QED BY <1>1, <2>1, <2>2, NoOpIsOperation, RequestMoves
<1> QED BY <1>2, <1>3

\* What a handler makes of its copy: the state stays, and the token unless it is replaced.
LEMMA ChangedCopy ==
  ASSUME NEW copy \in Row, NEW change \in Kinds, tokens \in Nat
  PROVE  /\ Changed(change, copy) \in Row
         /\ Changed(change, copy).state = copy.state
         /\ change = "regenerate" => Changed(change, copy).token = tokens + 1
         /\ change # "regenerate" => Changed(change, copy).token = copy.token
<1>1. CASE change = "regenerate"
  <2>1. Changed(change, copy) = [copy EXCEPT !.token = tokens + 1, !.aged = FALSE]
    BY <1>1 DEF Changed, Regenerated
  <2>2. tokens + 1 \in Nat
    OBVIOUS
  <2> QED BY <1>1, <2>1, <2>2 DEF Row
<1>2. CASE change = "directApi"
  BY <1>2 DEF Changed
<1>3. CASE change \notin {"regenerate", "directApi"}
  <2>1. Changed(change, copy) = [copy EXCEPT !.linked = TRUE]
    BY <1>3 DEF Changed
  <2> QED BY <1>3, <2>1 DEF Row
<1> QED BY <1>1, <1>2, <1>3

LEMMA SaveKeeps ==
  ASSUME IInv, NEW q \in Requests, Save(q)
  PROVE  IInv'
<1> DEFINE change == op[q].kind
           copy   == op[q].copy
           old    == row.state # copy.state \/ row.token # copy.token \/ ~(op[q].rows \subseteq ports)
           next   == IF change \in {"checkIn", "interface"}
                     THEN [NoOp EXCEPT !.pc = "discover", !.kind = change] ELSE NoOp
<1>1. /\ row' = Changed(change, copy)
      /\ ports' = ports \union op[q].rows
      /\ overtaken' = (overtaken \/ old)
      /\ tokens' = IF change = "regenerate" THEN tokens + 1 ELSE tokens
      /\ revoked' = IF change = "regenerate" THEN revoked \union {row.token} ELSE revoked
      /\ op' = [op EXCEPT ![q] = next]
      /\ UNCHANGED <<challenges, batches, servedLate, crossed>>
  BY DEF Save
<1>2. /\ copy \in Row /\ change \in Kinds /\ tokens \in Nat /\ op[q].rows \subseteq Batch
      /\ row \in Row /\ row.token <= tokens /\ copy.token <= tokens
  BY DEF IInv, Typed, TokensKnown, Operation
<1>3. next \in Operation /\ next.copy.token = 0 /\ next.pc \in {"idle", "discover"}
  BY <1>2, NoOpIsOperation DEF NoOp, Absent, DeletedToken, Operation, Stages
<1>4. /\ row' \in Row /\ row'.state = copy.state
      /\ change = "regenerate" => row'.token = tokens + 1
      /\ change # "regenerate" => row'.token = copy.token
  BY <1>1, <1>2, ChangedCopy
<1>5. old \in BOOLEAN
  OBVIOUS
<1> HIDE DEF next, old
<1>6. Typed'
  BY <1>1, <1>2, <1>3, <1>4, <1>5 DEF IInv, Typed, Row
<1>7. TokensKnown'
  <2>1. row'.token <= tokens' /\ tokens <= tokens'
    BY <1>1, <1>2, <1>4
  <2>2. \A t \in revoked' : t \in Nat /\ t <= tokens'
    BY <1>1, <1>2 DEF IInv, Typed, TokensKnown, Row
  <2>3. ASSUME NEW p \in Requests PROVE op'[p].copy.token <= tokens'
    <3>1. op[p].copy.token \in Nat /\ op[p].copy.token <= tokens
      BY DEF IInv, Typed, TokensKnown, Operation, Row
    <3>2. op'[p] = IF p = q THEN next ELSE op[p]
      BY <1>1 DEF IInv, Typed
    <3> QED BY <1>1, <1>2, <1>3, <3>1, <3>2
  <2> QED BY <2>1, <2>2, <2>3 DEF TokensKnown
<1>8. NothingBeforeCreation' /\ CopiesLive'
  <2>1. row'.state = "live"
    BY <1>4 DEF Save, IInv, CopiesLive
  <2> QED BY <1>1, <1>3, <2>1 DEF IInv, Typed, NothingBeforeCreation, CopiesLive, Is
<1>9. RevocationHolds'
  <2>1. ~overtaken' => ~overtaken /\ row.state = copy.state /\ row.token = copy.token
    BY <1>1 DEF old
  <2>2. (servedLate => overtaken)'
    BY <1>1 DEF IInv, RevocationHolds
  <2>3. (row.state = "live" /\ row.token \in revoked => overtaken)'
    <3>1. SUFFICES ASSUME row'.state = "live", row'.token \in revoked', ~overtaken' PROVE FALSE
      OBVIOUS
    <3>2. CASE change = "regenerate"
      <4>1. \A t \in revoked' : t # tokens + 1
        BY <1>1, <1>2, <3>2 DEF IInv, Typed, TokensKnown, Row
      <4> QED BY <1>4, <3>1, <3>2, <4>1
    <3>3. CASE change # "regenerate"
      BY <1>1, <1>4, <2>1, <3>1, <3>3 DEF IInv, RevocationHolds
    <3> QED BY <3>2, <3>3
  <2>4. (row.state = "live" /\ (\E c \in DOMAIN challenges : challenges[c].used > 0) => overtaken)'
    BY <1>1, <1>4, <2>1 DEF IInv, RevocationHolds
  <2>5. (\A c \in DOMAIN challenges : challenges[c].used <= 1)'
    BY <1>1 DEF IInv, RevocationHolds
  <2> QED BY <2>2, <2>3, <2>4, <2>5 DEF RevocationHolds
<1>10. BatchesValid'
  <2>1. ~overtaken' => ~overtaken /\ ports' = ports
    BY <1>1 DEF old
  <2>2. ASSUME NEW p \in Requests, (Is(p, "replace") \/ Is(p, "insert"))'
        PROVE  Valid(op[p].layout)'
    BY <1>1, <1>3, <2>2 DEF IInv, Typed, BatchesValid, Is, Valid, ValidAnyRoles
  <2> QED BY <1>1, <2>1, <2>2 DEF IInv, BatchesValid, Valid, ValidAnyRoles
<1> QED BY <1>6, <1>7, <1>8, <1>9, <1>10 DEF IInv

LEMMA IdleKeeps == IInv /\ UNCHANGED records => IInv'
<1> SUFFICES ASSUME IInv, UNCHANGED records PROVE IInv'
  OBVIOUS
<1>1. Typed' /\ TokensKnown' /\ NothingBeforeCreation' /\ RevocationHolds'
  BY DEF IInv, Typed, TokensKnown, NothingBeforeCreation, RevocationHolds, records
<1>2. BatchesValid' /\ CopiesLive'
  BY DEF IInv, BatchesValid, CopiesLive, Valid, ValidAnyRoles, Is, records
<1> QED BY <1>1, <1>2 DEF IInv

LEMMA Preserved == IInv /\ [RecordsNext]_records => IInv'
<1> SUFFICES ASSUME IInv, [RecordsNext]_records PROVE IInv'
  OBVIOUS
<1>1. CASE Create
  BY <1>1, CreateKeeps
<1>2. ASSUME NEW t \in 1 .. tokens, ReportStatus(t) PROVE IInv'
  BY <1>2, ReportStatusKeeps
<1>3. ASSUME NEW actor \in Actors, RequestDeleteChallenge(actor) PROVE IInv'
  BY <1>3, RequestDeleteChallengeKeeps
<1>4. CASE TokenAges
  BY <1>4, TokenAgesKeeps
<1>5. ASSUME NEW c \in DOMAIN challenges, ChallengeAges(c) PROVE IInv'
  BY <1>5, ChallengeAgesKeeps
<1>6. ASSUME NEW q \in Requests, NEW kind \in Dashboard, ReadForDashboard(q, kind) PROVE IInv'
  BY <1>6, ReadForDashboardKeeps
<1>7. ASSUME NEW q \in Requests, NEW kind \in Callbacks, NEW t \in 1 .. tokens, ReadForCallback(q, kind, t)
      PROVE  IInv'
  BY <1>7, ReadForCallbackKeeps
<1>8. ASSUME NEW q \in Requests, Save(q) PROVE IInv'
  BY <1>8, SaveKeeps
<1>9. ASSUME NEW q \in Requests, NEW report \in Reports, Discover(q, report) PROVE IInv'
  BY <1>9, DiscoverKeeps
<1>10. ASSUME NEW q \in Requests, NEW layout \in Layouts, ChoosePorts(q, layout) PROVE IInv'
  BY <1>10, ChoosePortsKeeps
<1>11. ASSUME NEW q \in Requests, DeletePorts(q) \/ InsertPorts(q) \/ Delete(q) PROVE IInv'
  BY <1>11, DeletePortsKeeps, InsertPortsKeeps, DeleteKeeps
<1>12. ASSUME NEW q \in Requests, NEW c \in DOMAIN challenges, NEW actor \in Actors,
              BeginDelete(q, c, actor)
       PROVE  IInv'
  BY <1>12, BeginDeleteKeeps
<1>13. CASE UNCHANGED records
  BY <1>13, IdleKeeps
<1> QED BY <1>1, <1>2, <1>3, <1>4, <1>5, <1>6, <1>7, <1>8, <1>9, <1>10, <1>11, <1>12, <1>13
        DEF RecordsNext

THEOREM Invariance == RecordsSpec => []IInv
BY Initially, Preserved, PTL DEF RecordsSpec

-----------------------------------------------------------------------------
(* Results.                                                                *)

\* RegenerateClaimToken and DeleteRouter end what a token opens, and a router is deleted once by one
\* challenge: nothing but a whole-row save of an older copy undoes them.
THEOREM Revocation == RecordsSpec => []RevocationHolds
BY Invariance, PTL DEF IInv

\* Without crossing replacements or older copies SavePortAssignments leaves each interface one role,
\* and the router one WAN.
THEOREM PortRoles == RecordsSpec => []OnePortOneRole
<1>1. IInv => OnePortOneRole
  <2>1. SUFFICES ASSUME IInv, ports # {}, ~crossed, ~overtaken
                 PROVE  /\ \A x, y \in Assigned(ports) : x[1] = y[1] => x = y
                        /\ Cardinality({x \in Assigned(ports) : x[2] = RequiredOnce}) = 1
    BY DEF OnePortOneRole
  <2>2. PICK b \in ports : ports = {b} /\ Valid(b.layout)
    BY <2>1 DEF IInv, BatchesValid
  <2>3. Assigned(ports) = b.layout
    BY <2>2 DEF Assigned
  <2>4. {x \in Assigned(ports) : x[2] = RequiredOnce} = {x \in b.layout : x[2] = RequiredOnce}
    BY <2>3
  <2>5. Cardinality({x \in b.layout : x[2] = RequiredOnce}) = 1
    BY <2>2 DEF Valid, ValidAnyRoles
  <2>6. \A x, y \in b.layout : x[1] = y[1] => x = y
    BY <2>2 DEF Valid
  <2> QED BY <2>3, <2>4, <2>5, <2>6
<1> QED BY <1>1, Invariance, PTL

\* While nothing overlapped, at most one batch of port assignments is stored and it passes Validate,
\* so that ConfigPreview and ClaimConfig can render it.
THEOREM Renderable == RecordsSpec => [](~crossed /\ ~overtaken => Previewable)
<1>1. IInv => (~crossed /\ ~overtaken => Previewable)
  BY DEF IInv, BatchesValid, Previewable
<1> QED BY <1>1, Invariance, PTL
=============================================================================
