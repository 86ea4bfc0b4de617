-------------------------- MODULE WireGuardJobs_proofs --------------------------
(***************************************************************************)
(* The job queue, for any number of agents, handlers, keys, jobs and       *)
(* faults: its types, one active job of each operation where the partial   *)
(* unique index exists, what the router hears of its jobs and what a row   *)
(* that says succeeded means; and, on a VPS with one agent, that wg0.conf  *)
(* and the interface never differ without a trace in the queue.            *)
(***************************************************************************)
EXTENDS WireGuardJobs, FiniteSetTheorems, SequenceTheorems, TLAPS

\* A sequence with one element replaced is a sequence.
LEMMA RowReplaced ==
  ASSUME NEW S, NEW s \in Seq(S), NEW j \in DOMAIN s, NEW q \in S
  PROVE  [s EXCEPT ![j] = q] \in Seq(S)
<1>1. j \in 1 .. Len(s)
  OBVIOUS
<1> QED
  BY <1>1, ExceptSeq

\* So is one whose elements are all replaced.
LEMMA RowsReplaced ==
  ASSUME NEW S, NEW s \in Seq(S), NEW t,
         t = [i \in DOMAIN s |-> t[i]],
         \A i \in DOMAIN s : t[i] \in S
  PROVE  t \in Seq(S)
<1>1. PICK n \in Nat : DOMAIN s = 1 .. n
  BY SMT
<1>2. t \in [1 .. n -> S]
  BY <1>1, Zenon
<1> QED
  BY <1>1, <1>2, SeqDef, Zenon

\* What a row of the typed queue is made of.
LEMMA RowFields ==
  ASSUME TypeOK, NEW j \in DOMAIN jobs
  PROVE  /\ jobs[j] \in JobRow
         /\ j \in Nat
         /\ jobs[j].op \in Operations
         /\ jobs[j].status \in Active \union Finished
         /\ jobs[j].key \in Keys \union {NoKey}
         /\ jobs[j].attempts \in Nat
         /\ jobs[j].expired \in BOOLEAN
<1>1. jobs \in Seq(JobRow)
  BY DEF TypeOK
<1>2. jobs[j] \in JobRow /\ j \in Nat
  BY <1>1, SMT
<1> QED
  BY <1>2 DEF JobRow

-----------------------------------------------------------------------------
(* The five ways a row changes.  Each keeps the rows' number, operations   *)
(* and types, and says which statuses it sets.                             *)

OthersSame(j) == \A i \in DOMAIN jobs \ {j} : jobs'[i] = jobs[i]

OpsSame == /\ DOMAIN jobs' = DOMAIN jobs
           /\ \A i \in DOMAIN jobs : jobs'[i].op = jobs[i].op

LEMMA ResetRow ==
  ASSUME TypeOK, NEW j \in DOMAIN jobs, NEW key \in Keys \union {NoKey}, Reset(j, key)
  PROVE  /\ jobs' \in Seq(JobRow)
         /\ OpsSame
         /\ OthersSame(j)
         /\ jobs'[j].status = "queued"
         /\ jobs'[j].attempts = jobs[j].attempts
         /\ jobs'[j].lockedBy = NoAgent
         /\ jobs'[j].key = key
<1> DEFINE q == [jobs[j] EXCEPT !.key = key, !.status = "queued", !.lockedBy = NoAgent,
                                !.expired = FALSE]
<1>1. jobs \in Seq(JobRow) /\ jobs[j] \in JobRow
  BY RowFields DEF TypeOK
<1>2. jobs' = [jobs EXCEPT ![j] = q]
  BY DEF Reset
<1>3. q \in JobRow
  BY <1>1 DEF JobRow, Active, Waiting
<1>4. /\ q.op = jobs[j].op /\ q.status = "queued"
      /\ q.attempts = jobs[j].attempts /\ q.lockedBy = NoAgent /\ q.key = key
  BY <1>1 DEF JobRow
<1> HIDE DEF q
<1>5. jobs' \in Seq(JobRow)
  BY <1>1, <1>2, <1>3, RowReplaced
<1> QED
  BY <1>2, <1>4, <1>5 DEF OpsSame, OthersSame

LEMMA ClaimRow ==
  ASSUME TypeOK, NEW a \in Agents, NEW j \in DOMAIN jobs, Claim(a, j)
  PROVE  /\ jobs' \in Seq(JobRow)
         /\ OpsSame
         /\ OthersSame(j)
         /\ jobs'[j].status = "claimed"
         /\ jobs'[j].attempts = jobs[j].attempts + 1
         /\ jobs'[j].key = jobs[j].key
<1> DEFINE n == jobs[j].attempts + 1
           id == AgentId[a]
           q == [jobs[j] EXCEPT !.status = "claimed", !.lockedBy = id,
                                !.expired = FALSE, !.attempts = n]
<1>1. jobs \in Seq(JobRow) /\ jobs[j] \in JobRow
  BY RowFields DEF TypeOK
<1>2. jobs' = [jobs EXCEPT ![j] = q]
  BY DEF Claim
<1>3. n \in Nat /\ id \in {AgentId[b] : b \in Agents} \union {NoAgent}
  <2>1. n \in Nat
    BY RowFields
  <2> QED
    BY <2>1, Zenon
<1> HIDE DEF n, id
<1>4. q \in JobRow /\ q.op = jobs[j].op /\ q.status = "claimed" /\ q.attempts = n
      /\ q.key = jobs[j].key
  BY <1>1, <1>3 DEF JobRow, Active, Leased
<1> HIDE DEF q
<1>5. jobs' \in Seq(JobRow)
  BY <1>1, <1>2, <1>4, RowReplaced
<1> QED
  BY <1>2, <1>4, <1>5 DEF OpsSame, OthersSame, n

LEMMA LeaseRow ==
  ASSUME TypeOK, NEW j \in DOMAIN jobs, jobs' = [jobs EXCEPT ![j].expired = TRUE]
  PROVE  /\ jobs' \in Seq(JobRow)
         /\ OpsSame
         /\ OthersSame(j)
         /\ jobs'[j].status = jobs[j].status
         /\ jobs'[j].attempts = jobs[j].attempts
         /\ jobs'[j].key = jobs[j].key
         /\ jobs'[j].lockedBy = jobs[j].lockedBy
<1>1. jobs \in Seq(JobRow) /\ jobs[j] \in JobRow
  BY RowFields DEF TypeOK
<1> DEFINE q == [jobs[j] EXCEPT !.expired = TRUE]
<1>2. q \in JobRow /\ q.op = jobs[j].op /\ q.status = jobs[j].status
      /\ q.attempts = jobs[j].attempts /\ q.key = jobs[j].key /\ q.lockedBy = jobs[j].lockedBy
  BY <1>1 DEF JobRow
<1>3. jobs' = [jobs EXCEPT ![j] = q]
  OBVIOUS
<1> HIDE DEF q
<1>4. [jobs EXCEPT ![j] = q] \in Seq(JobRow)
  BY <1>1, <1>2, RowReplaced
<1> QED
  BY <1>2, <1>3, <1>4 DEF OpsSame, OthersSame

\* The status a report leads to.
LEMMA StatusAfterType ==
  ASSUME NEW c
  PROVE  StatusAfter(c) \in {"applying", "succeeded", "failed", "retrying"}
BY DEF StatusAfter

LEMMA ReportRow ==
  ASSUME TypeOK, NEW c \in CallRecord, c.job \in DOMAIN jobs, UpdateClaimedJob(c)
  PROVE  /\ jobs' \in Seq(JobRow)
         /\ OpsSame
         /\ OthersSame(c.job)
         /\ jobs'[c.job].status = StatusAfter(c)
         /\ jobs'[c.job].attempts = jobs[c.job].attempts
         /\ jobs'[c.job].key = jobs[c.job].key
         /\ jobs'[c.job].lockedBy \in {jobs[c.job].lockedBy, NoAgent}
<1> DEFINE j == c.job
           st == StatusAfter(c)
           q == [jobs[j] EXCEPT !.status = st,
                                !.lockedBy = IF st = "retrying" THEN NoAgent ELSE @,
                                !.expired = IF st = "retrying" THEN FALSE ELSE @]
<1>1. jobs \in Seq(JobRow) /\ jobs[j] \in JobRow
  BY RowFields DEF TypeOK
<1>2. st \in Active \union Finished
  BY StatusAfterType DEF Active, Waiting, Leased, Finished
<1> HIDE DEF st
<1>3. q \in JobRow /\ q.op = jobs[j].op /\ q.status = st /\ q.attempts = jobs[j].attempts
      /\ q.key = jobs[j].key /\ q.lockedBy \in {jobs[j].lockedBy, NoAgent}
  BY <1>1, <1>2 DEF JobRow
<1>4. jobs' = [jobs EXCEPT ![j] = q]
  BY DEF UpdateClaimedJob, st
<1> HIDE DEF q
<1>5. jobs' \in Seq(JobRow)
  BY <1>1, <1>3, <1>4, RowReplaced
<1> QED
  BY <1>3, <1>4, <1>5 DEF OpsSame, OthersSame, st

LEMMA CancelledRows ==
  ASSUME TypeOK, NEW h \in Handlers,
         jobs' = [j \in DOMAIN jobs |->
                    IF j \in Others(h)
                    THEN [jobs[j] EXCEPT !.status = "cancelled", !.lockedBy = NoAgent,
                                         !.expired = FALSE]
                    ELSE jobs[j]]
  PROVE  /\ jobs' \in Seq(JobRow)
         /\ OpsSame
         /\ \A j \in DOMAIN jobs :
              \/ jobs'[j] = jobs[j]
              \/ /\ jobs'[j].status = "cancelled" /\ jobs'[j].lockedBy = NoAgent
                 /\ jobs'[j].attempts = jobs[j].attempts /\ jobs[j].status \in Active
                 /\ jobs[j].op = "configure"
<1> DEFINE cancelled(j) == [jobs[j] EXCEPT !.status = "cancelled", !.lockedBy = NoAgent,
                                           !.expired = FALSE]
<1>1. \A j \in DOMAIN jobs : /\ cancelled(j) \in JobRow
                             /\ cancelled(j).op = jobs[j].op
                             /\ cancelled(j).status = "cancelled"
                             /\ cancelled(j).lockedBy = NoAgent
                             /\ cancelled(j).attempts = jobs[j].attempts
  <2>1. TAKE j \in DOMAIN jobs
  <2>2. jobs[j] \in JobRow
    BY RowFields
  <2> QED
    BY <2>2 DEF JobRow, Finished
<1>2. jobs' = [j \in DOMAIN jobs |-> IF j \in Others(h) THEN cancelled(j) ELSE jobs[j]]
  OBVIOUS
<1> HIDE DEF cancelled
<1>3. jobs \in Seq(JobRow) /\ \A j \in DOMAIN jobs : jobs[j] \in JobRow
  BY RowFields DEF TypeOK
<1>4. DOMAIN jobs' = DOMAIN jobs
  BY <1>2, Zenon
<1>5. \A j \in DOMAIN jobs : jobs'[j] \in JobRow
  BY <1>1, <1>2, <1>3
<1>6. jobs' = [j \in DOMAIN jobs |-> jobs'[j]]
  BY <1>2, Zenon
<1>7. jobs' \in Seq(JobRow)
  BY <1>3, <1>5, <1>6, RowsReplaced, Zenon
<1> QED
  BY <1>1, <1>2, <1>4, <1>7 DEF OpsSame, Others, ActiveRows

-----------------------------------------------------------------------------
(* Type correctness.                                                       *)

\* Handlers that move on keep their type.
LEMMA HandlerMoved ==
  ASSUME TypeOK, NEW h \in Handlers, NEW q \in HandlerState
  PROVE  [req EXCEPT ![h] = q] \in [Handlers -> HandlerState]
BY DEF TypeOK

LEMMA HandlerStates ==
  ASSUME TypeOK, NEW h \in Handlers
  PROVE  /\ IdleHandler \in HandlerState
         /\ FindConfigureJob \in HandlerState
         /\ \A pc \in {"queue", "insert", "loadRouter", "cancelOthers"} :
              [req[h] EXCEPT !.pc = pc] \in HandlerState
BY DEF TypeOK, IdleHandler, FindConfigureJob, HandlerState, Operations

LEMMA ReportType ==
  ASSUME TypeOK, NEW c \in CallRecord, c.job \in DOMAIN jobs, NEW h \in Handlers, Serve(c, h)
  PROVE  /\ jobs' \in Seq(JobRow)
         /\ OpsSame
         /\ req' \in [Handlers -> HandlerState]
         /\ stale' \in BOOLEAN
<1>1. jobs' \in Seq(JobRow) /\ OpsSame /\ stale' \in BOOLEAN
  <2>1. CASE Accepted(c)
    <3>1. UpdateClaimedJob(c)
      BY <2>1 DEF Serve
    <3>2. jobs' \in Seq(JobRow) /\ OpsSame
      BY <3>1, ReportRow
    <3>3. stale' \in BOOLEAN
      BY <3>1 DEF UpdateClaimedJob, TypeOK
    <3> QED
      BY <3>2, <3>3
  <2>2. CASE ~Accepted(c)
    BY <2>2 DEF Serve, TypeOK, OpsSame
  <2> QED
    BY <2>1, <2>2
<1>2. req' \in [Handlers -> HandlerState]
  <2>1. CASE req' = req
    BY <2>1 DEF TypeOK
  <2>2. CASE Reports(c) /\ req' = [req EXCEPT ![h] =
               [IdleHandler EXCEPT !.pc = StatusAfter(c), !.op = jobs[c.job].op, !.job = c.job]]
    <3> DEFINE q == [IdleHandler EXCEPT !.pc = StatusAfter(c), !.op = jobs[c.job].op,
                                        !.job = c.job]
    <3>1. StatusAfter(c) \in {"succeeded", "failed"}
      BY <2>2 DEF Reports
    <3>2. jobs[c.job].op \in Operations /\ c.job \in Nat
      BY RowFields
    <3>3. q \in HandlerState
      BY <3>1, <3>2 DEF IdleHandler, HandlerState
    <3>4. [req EXCEPT ![h] = q] \in [Handlers -> HandlerState]
      BY <3>3, HandlerMoved, Zenon
    <3> QED
      BY <2>2, <3>4
  <2> QED
    BY <2>1, <2>2 DEF Serve
<1> QED
  BY <1>1, <1>2

\* The jobs that agents work on and calls speak of are rows of the table.
Refer == /\ \A a \in Agents : agent[a].pc # "idle" => agent[a].job \in DOMAIN jobs
         /\ \A c \in calls : c.job \in DOMAIN jobs

\* The call an agent is making.
LEMMA CallType ==
  ASSUME TypeOK, Refer, NEW a \in Agents, agent[a].pc \in {"applying", "complete", "fail"}
  PROVE  Call(a) \in CallRecord /\ Call(a).job \in DOMAIN jobs
BY DEF TypeOK, Refer, Call, CallRecord, AgentState

\* Steps that leave the rows alone and idle or move one agent keep the references.
LEMMA ReferKept ==
  ASSUME Refer, OpsSame, calls' \subseteq calls,
         \A a \in Agents : \/ agent'[a] = agent[a]
                           \/ agent'[a].pc = "idle"
                           \/ agent[a].pc # "idle" /\ agent'[a].job = agent[a].job
  PROVE  Refer'
BY DEF Refer, OpsSame

LEMMA HandlerType ==
  ASSUME TypeOK, Refer, NEW h \in Handlers, HandlerNext(h)
  PROVE  TypeOK' /\ Refer'
<1>0. NoKey \in Keys \union {NoKey}
  OBVIOUS
<1>1. ASSUME NEW key \in Keys \union {NoKey}, NEW op \in Operations, Ask(h, op, key)
      PROVE  /\ req' \in [Handlers -> HandlerState] /\ asked' \in Nat
             /\ UNCHANGED <<jobs, heard, stale, faults, vps>>
  BY <1>1 DEF Ask, TypeOK, HandlerState
<1>2. ASSUME NEW key \in Keys, QueuePeerUpsert(h, key) PROVE TypeOK' /\ Refer'
  <2>1. Ask(h, "upsert", key) /\ UNCHANGED router
    BY <1>2 DEF QueuePeerUpsert
  <2>2. "upsert" \in Operations
    BY DEF Operations
  <2> QED
    BY <1>1, <2>1, <2>2 DEF TypeOK, Refer, vps
<1>3. CASE QueueRouterConfigure(h)
  <2>1. req' \in [Handlers -> HandlerState]
    BY <1>3, HandlerStates, HandlerMoved DEF QueueRouterConfigure
  <2>2. asked' \in Nat /\ router' \in [handshake : BOOLEAN, deleted : BOOLEAN, tunnel : BOOLEAN]
    <3>1. asked' = asked + 1 /\ router' = [router EXCEPT !.handshake = TRUE]
      BY <1>3 DEF QueueRouterConfigure
    <3>2. asked \in Nat /\ router \in [handshake : BOOLEAN, deleted : BOOLEAN, tunnel : BOOLEAN]
      BY DEF TypeOK
    <3>3. asked' \in Nat
      BY <3>1, <3>2
    <3> QED
      BY <3>1, <3>2, <3>3, Zenon
  <2>3. UNCHANGED <<jobs, heard, stale, faults, vps>>
    BY <1>3 DEF QueueRouterConfigure
  <2> QED
    BY <2>1, <2>2, <2>3 DEF TypeOK, Refer, vps
<1>4. ASSUME NEW key \in Keys \union {NoKey}, QueuePeerRemoval(h, key) PROVE TypeOK' /\ Refer'
  <2>1. /\ Ask(h, "remove", key)
        /\ router' = [router EXCEPT !.deleted = TRUE]
    BY <1>4 DEF QueuePeerRemoval
  <2>2. "remove" \in Operations
    BY DEF Operations
  <2>3. router' \in [handshake : BOOLEAN, deleted : BOOLEAN, tunnel : BOOLEAN]
    BY <2>1 DEF TypeOK
  <2> QED
    BY <1>1, <2>1, <2>2, <2>3 DEF TypeOK, Refer, vps
<1>5. CASE QueueJob(h)
  <2>1. req' \in [Handlers -> HandlerState]
    <3>1. \/ req' = [req EXCEPT ![h] = [req[h] EXCEPT !.pc = "insert"]]
          \/ req' = [req EXCEPT ![h] = IdleHandler]
      BY <1>5 DEF QueueJob
    <3> QED
      BY <3>1, HandlerStates, HandlerMoved
  <2>2. jobs' \in Seq(JobRow) /\ OpsSame
    <3>1. CASE UNCHANGED jobs
      BY <3>1 DEF TypeOK, OpsSame
    <3>2. ASSUME NEW j \in ActiveRows(req[h].op), Reset(j, req[h].key)
          PROVE  jobs' \in Seq(JobRow) /\ OpsSame
      <4>1. j \in DOMAIN jobs /\ req[h].key \in Keys \union {NoKey}
        BY DEF ActiveRows, TypeOK, HandlerState
      <4> QED
        BY <3>2, <4>1, ResetRow
    <3> QED
      BY <1>5, <3>1, <3>2 DEF QueueJob
  <2>3. UNCHANGED <<router, asked, heard, stale, faults, vps>>
    BY <1>5 DEF QueueJob
  <2> QED
    BY <2>1, <2>2, <2>3 DEF TypeOK, Refer, OpsSame, vps
<1>6. CASE InsertJob(h)
  <2>1. req' \in [Handlers -> HandlerState]
    BY <1>6, HandlerStates, HandlerMoved DEF InsertJob
  <2>2. jobs' \in Seq(JobRow) /\ DOMAIN jobs \subseteq DOMAIN jobs'
    <3> DEFINE row == [op |-> req[h].op, status |-> "queued", key |-> req[h].key, attempts |-> 0,
                       lockedBy |-> NoAgent, expired |-> FALSE]
    <3>1. row \in JobRow
      BY DEF TypeOK, HandlerState, JobRow, Active, Waiting
    <3>2. jobs' = jobs \/ jobs' = Append(jobs, row)
      BY <1>6 DEF InsertJob
    <3> HIDE DEF row
    <3>3. jobs \in Seq(JobRow)
      BY DEF TypeOK
    <3>4. Append(jobs, row) \in Seq(JobRow) /\ DOMAIN jobs \subseteq DOMAIN Append(jobs, row)
      BY <3>1, <3>3
    <3> QED
      BY <3>2, <3>3, <3>4
  <2>3. UNCHANGED <<router, asked, heard, stale, faults, vps>>
    BY <1>6 DEF InsertJob
  <2> QED
    BY <2>1, <2>2, <2>3 DEF TypeOK, Refer, vps
<1>7. CASE ApplyRouterJobStatus(h)
  <2>1. req' \in [Handlers -> HandlerState]
    <3>1. AfterRouterStatus(h) \in HandlerState
      BY HandlerStates DEF AfterRouterStatus
    <3> QED
      BY <1>7, <3>1, HandlerMoved DEF ApplyRouterJobStatus
  <2>2. heard' \subseteq Nat
    BY <1>7 DEF ApplyRouterJobStatus, TypeOK, HandlerState
  <2>3. router' \in [handshake : BOOLEAN, deleted : BOOLEAN, tunnel : BOOLEAN]
    BY <1>7 DEF ApplyRouterJobStatus, TypeOK
  <2>4. UNCHANGED <<jobs, asked, stale, faults, vps>>
    BY <1>7 DEF ApplyRouterJobStatus
  <2> QED
    BY <2>1, <2>2, <2>3, <2>4 DEF TypeOK, Refer, vps
<1>8. CASE LoadRouter(h)
  BY <1>8 DEF LoadRouter, FindConfigureJob, IdleHandler, Operations, TypeOK, HandlerState, Refer, vps
<1>9. CASE FindConfigure(h)
  BY <1>9 DEF FindConfigure, IdleHandler, Operations, TypeOK, HandlerState, Refer, vps
<1>10. CASE CancelOthers(h)
  <2>1. jobs' \in Seq(JobRow) /\ OpsSame
    BY <1>10, CancelledRows DEF CancelOthers
  <2>2. req' \in [Handlers -> HandlerState]
    BY <1>10, HandlerStates, HandlerMoved DEF CancelOthers
  <2>3. UNCHANGED <<router, asked, heard, stale, faults, vps>>
    BY <1>10 DEF CancelOthers
  <2> QED
    BY <2>1, <2>2, <2>3 DEF TypeOK, Refer, OpsSame, vps
<1>11. ASSUME NEW a \in Agents, CallServed(a, h) PROVE TypeOK' /\ Refer'
  <2>1. /\ agent[a].pc \in {"applying", "complete", "fail"}
        /\ Serve(Call(a), h)
        /\ UNCHANGED <<calls, conf, kernel, ran>>
    BY <1>11 DEF CallServed
  <2>2. Call(a) \in CallRecord /\ Call(a).job \in DOMAIN jobs
    BY <2>1, CallType
  <2>3. /\ jobs' \in Seq(JobRow) /\ OpsSame
        /\ req' \in [Handlers -> HandlerState] /\ stale' \in BOOLEAN
    BY <2>1, <2>2, ReportType
  <2>4. UNCHANGED <<router, asked, faults, heard>>
    BY <2>1 DEF Serve
  <2>5. /\ agent' \in [Agents -> AgentState]
        /\ \A b \in Agents : \/ agent'[b] = agent[b]
                             \/ agent'[b].pc = "idle"
                             \/ agent[b].pc # "idle" /\ agent'[b].job = agent[b].job
    BY <1>11 DEF CallServed, TypeOK, AgentState, IdleAgent
  <2>6. Refer'
    BY <2>1, <2>3, <2>5, ReferKept
  <2> QED
    BY <2>1, <2>3, <2>4, <2>5, <2>6 DEF TypeOK
<1>12. ASSUME NEW c \in calls, LateCallServed(c, h) PROVE TypeOK' /\ Refer'
  <2>1. Serve(c, h) /\ calls' = calls \ {c} /\ UNCHANGED <<agent, conf, kernel, ran>>
    BY <1>12 DEF LateCallServed
  <2>2. c \in CallRecord /\ c.job \in DOMAIN jobs
    BY DEF TypeOK, Refer
  <2>3. /\ jobs' \in Seq(JobRow) /\ OpsSame
        /\ req' \in [Handlers -> HandlerState] /\ stale' \in BOOLEAN
    BY <2>1, <2>2, ReportType
  <2>4. UNCHANGED <<router, asked, faults, heard>>
    BY <2>1 DEF Serve
  <2> QED
    BY <2>1, <2>3, <2>4 DEF TypeOK, Refer, OpsSame
<1>13. CASE ServerCrash(h)
  BY <1>13 DEF ServerCrash, Fault, Faults, IdleHandler, Operations, TypeOK, HandlerState, Refer, vps
<1> QED
  BY <1>2, <1>3, <1>4, <1>5, <1>6, <1>7, <1>8, <1>9, <1>10, <1>11, <1>12, <1>13 DEF HandlerNext

\* A step of an agent that only moves it on.
LEMMA Advanced ==
  ASSUME TypeOK, Refer, NEW a \in Agents, agent[a].pc # "idle",
         NEW pc \in {"start", "persist", "set", "unset", "complete", "fail"}, Advance(a, pc),
         UNCHANGED <<jobs, calls>>
  PROVE  agent' \in [Agents -> AgentState] /\ Refer'
<1>1. agent' = [agent EXCEPT ![a] = [agent[a] EXCEPT !.pc = pc]]
  BY DEF Advance
<1>2. [agent[a] EXCEPT !.pc = pc] \in AgentState
  BY DEF TypeOK, AgentState
<1>3. [agent[a] EXCEPT !.pc = pc].job = agent[a].job
  BY DEF TypeOK, AgentState
<1>4. agent' \in [Agents -> AgentState]
  BY <1>1, <1>2 DEF TypeOK
<1>5. \A b \in Agents : \/ agent'[b] = agent[b]
                        \/ agent[b].pc # "idle" /\ agent'[b].job = agent[b].job
  BY <1>1, <1>3 DEF TypeOK
<1> QED
  BY <1>4, <1>5, ReferKept DEF OpsSame

LEMMA VerifyType ==
  ASSUME TypeOK, Refer, NEW a \in Agents, agent[a].pc # "idle", CarriedOut(a) \/ Verify(a),
         UNCHANGED <<jobs, calls>>
  PROVE  /\ agent' \in [Agents -> AgentState]
         /\ ran' \subseteq Nat \X Nat \X (Keys \union {NoKey})
         /\ Refer'
<1>1. CASE CarriedOut(a)
  <2>1. Advance(a, "complete")
    BY <1>1 DEF CarriedOut
  <2>2. agent' \in [Agents -> AgentState] /\ Refer'
    BY <2>1, Advanced
  <2>3. <<agent[a].job, agent[a].attempt, agent[a].key>> \in Nat \X Nat \X (Keys \union {NoKey})
    BY DEF TypeOK, AgentState
  <2>4. ran' \subseteq Nat \X Nat \X (Keys \union {NoKey})
    BY <1>1, <2>3 DEF CarriedOut, TypeOK
  <2> QED
    BY <2>2, <2>4
<1>2. CASE Advance(a, "fail") /\ UNCHANGED ran
  <2>1. agent' \in [Agents -> AgentState] /\ Refer'
    BY <1>2, Advanced
  <2> QED
    BY <1>2, <2>1 DEF TypeOK
<1> QED
  BY <1>1, <1>2 DEF Verify

\* An agent that stops working on its job.
LEMMA AgentIdles ==
  ASSUME TypeOK, Refer, NEW a \in Agents, agent' = [agent EXCEPT ![a] = IdleAgent],
         UNCHANGED jobs,
         \A c \in calls' : c \in calls \/ c.job \in DOMAIN jobs
  PROVE  agent' \in [Agents -> AgentState] /\ Refer'
<1>1. IdleAgent \in AgentState /\ IdleAgent.pc = "idle"
  BY DEF IdleAgent, AgentState
<1> HIDE DEF IdleAgent
<1> QED
  BY <1>1 DEF TypeOK, Refer

LEMMA AgentType ==
  ASSUME TypeOK, Refer, NEW a \in Agents, AgentNext(a)
  PROVE  TypeOK' /\ Refer'
<1>1. ASSUME NEW j \in DOMAIN jobs, ClaimJob(a, j) PROVE TypeOK' /\ Refer'
  <2>1. jobs' \in Seq(JobRow) /\ OpsSame
    BY <1>1, ClaimRow DEF ClaimJob
  <2> DEFINE q == [pc |-> "applying", job |-> j, key |-> jobs[j].key,
                   attempt |-> jobs[j].attempts + 1]
  <2>2. q \in AgentState /\ q.job = j
    BY RowFields DEF AgentState
  <2>3. /\ agent' = [agent EXCEPT ![a] = q]
        /\ UNCHANGED <<calls, conf, kernel, router, req, asked, faults, ran, heard, stale>>
    BY <1>1 DEF ClaimJob
  <2> HIDE DEF q
  <2> QED
    BY <2>1, <2>2, <2>3 DEF TypeOK, Refer, OpsSame
<1>2. ASSUME NEW j \in DOMAIN jobs, ClaimLost(a, j) PROVE TypeOK' /\ Refer'
  <2>1. jobs' \in Seq(JobRow) /\ OpsSame
    BY <1>2, ClaimRow DEF ClaimLost
  <2>2. faults' \in Seq(Faults)
    BY <1>2 DEF ClaimLost, Fault, Faults, TypeOK
  <2>3. UNCHANGED <<vps, router, req, asked, heard, stale>>
    BY <1>2 DEF ClaimLost
  <2> QED
    BY <2>1, <2>2, <2>3 DEF TypeOK, Refer, OpsSame, vps
<1>3. CASE GiveUp(a)
  <2>1. Call(a) \in CallRecord /\ Call(a).job \in DOMAIN jobs
    BY <1>3, CallType DEF GiveUp
  <2>2. /\ calls' = calls \union {Call(a)} /\ agent' = [agent EXCEPT ![a] = IdleAgent]
        /\ UNCHANGED <<conf, kernel, ran, server>>
    BY <1>3 DEF GiveUp
  <2>3. agent' \in [Agents -> AgentState] /\ Refer'
    BY <2>1, <2>2, AgentIdles DEF server
  <2>4. faults' \in Seq(Faults)
    BY <1>3 DEF GiveUp, Fault, Faults, TypeOK
  <2>5. calls' \subseteq CallRecord
    BY <2>1, <2>2 DEF TypeOK
  <2> QED
    BY <2>2, <2>3, <2>4, <2>5 DEF TypeOK, server
<1>4. CASE RemoveStalePeer(a)
  <2>1. kernel' \in Keys \union {NoKey}
    BY <1>4 DEF RemoveStalePeer, WithoutPeer, TypeOK
  <2>2. agent' \in [Agents -> AgentState] /\ Refer'
    BY <1>4, Advanced DEF RemoveStalePeer, server
  <2>3. UNCHANGED <<calls, conf, ran, server, faults>>
    BY <1>4 DEF RemoveStalePeer
  <2> QED
    BY <2>1, <2>2, <2>3 DEF TypeOK, server
<1>5. CASE PersistPeer(a)
  <2>1. conf' \in Keys \union {NoKey}
    BY <1>5 DEF PersistPeer, TypeOK, AgentState
  <2>2. agent' \in [Agents -> AgentState] /\ Refer'
    BY <1>5, Advanced DEF PersistPeer, server
  <2>3. UNCHANGED <<calls, kernel, ran, server, faults>>
    BY <1>5 DEF PersistPeer
  <2> QED
    BY <2>1, <2>2, <2>3 DEF TypeOK, server
<1>6. CASE SetPeer(a)
  <2>1. kernel' \in Keys \union {NoKey}
    BY <1>6 DEF SetPeer, PeerSet, TypeOK, AgentState
  <2>2. /\ agent' \in [Agents -> AgentState]
        /\ ran' \subseteq Nat \X Nat \X (Keys \union {NoKey})
        /\ Refer'
    BY <1>6, VerifyType DEF SetPeer, server
  <2>3. UNCHANGED <<calls, conf, server, faults>>
    BY <1>6 DEF SetPeer
  <2> QED
    BY <2>1, <2>2, <2>3 DEF TypeOK, server
<1>7. CASE UnpersistPeer(a)
  <2>1. conf' \in Keys \union {NoKey}
    BY <1>7 DEF UnpersistPeer, TypeOK
  <2>2. agent' \in [Agents -> AgentState] /\ Refer'
    BY <1>7, Advanced DEF UnpersistPeer, server
  <2>3. UNCHANGED <<calls, kernel, ran, server, faults>>
    BY <1>7 DEF UnpersistPeer
  <2> QED
    BY <2>1, <2>2, <2>3 DEF TypeOK, server
<1>8. CASE UnsetPeer(a)
  <2>1. kernel' \in Keys \union {NoKey}
    BY <1>8 DEF UnsetPeer, WithoutPeer, TypeOK
  <2>2. /\ agent' \in [Agents -> AgentState]
        /\ ran' \subseteq Nat \X Nat \X (Keys \union {NoKey})
        /\ Refer'
    BY <1>8, VerifyType DEF UnsetPeer, server
  <2>3. UNCHANGED <<calls, conf, server, faults>>
    BY <1>8 DEF UnsetPeer
  <2> QED
    BY <2>1, <2>2, <2>3 DEF TypeOK, server
<1>9. CASE ConfigureRouter(a)
  <2>1. /\ agent' \in [Agents -> AgentState]
        /\ ran' \subseteq Nat \X Nat \X (Keys \union {NoKey})
        /\ Refer'
    BY <1>9, VerifyType DEF ConfigureRouter, server
  <2>2. UNCHANGED <<calls, conf, kernel, server, faults>>
    BY <1>9 DEF ConfigureRouter
  <2> QED
    BY <2>1, <2>2 DEF TypeOK, server
<1>10. CASE ApplyFails(a)
  <2>1. agent' \in [Agents -> AgentState] /\ Refer'
    BY <1>10, Advanced DEF ApplyFails, server
  <2>2. UNCHANGED <<calls, conf, kernel, ran, server, faults>>
    BY <1>10 DEF ApplyFails
  <2> QED
    BY <2>1, <2>2 DEF TypeOK, server
<1>11. CASE AgentCrash(a)
  <2>1. agent' = [agent EXCEPT ![a] = IdleAgent] /\ UNCHANGED <<calls, conf, kernel, ran, server>>
    BY <1>11 DEF AgentCrash
  <2>2. agent' \in [Agents -> AgentState] /\ Refer'
    BY <2>1, AgentIdles DEF server
  <2>3. faults' \in Seq(Faults)
    BY <1>11 DEF AgentCrash, Fault, Faults, TypeOK
  <2> QED
    BY <2>1, <2>2, <2>3 DEF TypeOK, server
<1> QED
  BY <1>1, <1>2, <1>3, <1>4, <1>5, <1>6, <1>7, <1>8, <1>9, <1>10, <1>11 DEF AgentNext

LEMMA LeaseType ==
  ASSUME TypeOK, Refer, NEW j \in DOMAIN jobs, LeaseExpires(j)
  PROVE  TypeOK' /\ Refer'
<1>1. jobs' = [jobs EXCEPT ![j].expired = TRUE] /\ UNCHANGED <<vps, router, req, asked, heard, stale>>
  BY DEF LeaseExpires
<1>2. jobs' \in Seq(JobRow) /\ OpsSame
  BY <1>1, LeaseRow
<1>3. faults' \in Seq(Faults)
  <2>1. Fault("leaseOutlived") \/ UNCHANGED faults
    BY DEF LeaseExpires
  <2> QED
    BY <2>1 DEF Fault, Faults, TypeOK
<1> QED
  BY <1>1, <1>2, <1>3 DEF TypeOK, Refer, OpsSame, vps

LEMMA TypeInit == Init => TypeOK /\ Refer
<1> SUFFICES ASSUME Init PROVE TypeOK /\ Refer
  OBVIOUS
<1>1. jobs \in Seq(JobRow) /\ faults \in Seq(Faults)
  BY DEF Init
<1>2. agent \in [Agents -> AgentState] /\ req \in [Handlers -> HandlerState]
  BY DEF Init, IdleAgent, IdleHandler, AgentState, HandlerState, Operations
<1>3. Refer
  BY DEF Init, Refer, IdleAgent
<1> QED
  BY <1>1, <1>2, <1>3 DEF Init, TypeOK

LEMMA TypeStep == TypeOK /\ Refer /\ [Next]_vars => TypeOK' /\ Refer'
<1> SUFFICES ASSUME TypeOK, Refer, [Next]_vars PROVE TypeOK' /\ Refer'
  OBVIOUS
<1>1. CASE UNCHANGED vars
  BY <1>1 DEF vars, TypeOK, Refer
<1> QED
  BY <1>1, HandlerType, AgentType, LeaseType DEF Next

\* Every variable keeps to its columns and value sets, and agents and calls speak of rows that
\* exist, for any number of agents, handlers, keys, jobs and faults.
THEOREM TypeCorrectness == Spec => [](TypeOK /\ Refer)
BY TypeInit, TypeStep, PTL DEF Spec

-----------------------------------------------------------------------------
(* One active job of each operation, where the index exists.               *)

OneActive ==
  \A i, j \in DOMAIN jobs :
    jobs[i].op = jobs[j].op /\ jobs[i].status \in Active /\ jobs[j].status \in Active => i = j

LEMMA ActiveIsIndexed == Active = Indexed
BY DEF Active, Waiting, Leased, Indexed

\* Steps that make no row active keep it.
LEMMA OneActiveKept ==
  ASSUME OneActive, OpsSame,
         \A j \in DOMAIN jobs : jobs'[j].status \in Active => jobs[j].status \in Active
  PROVE  OneActive'
BY DEF OneActive, OpsSame

\* So does a report, whose new status the index checks.
LEMMA ReportKeeps ==
  ASSUME UniqueIndex, TypeOK, OneActive, NEW c \in CallRecord, c.job \in DOMAIN jobs,
         NEW h \in Handlers, Serve(c, h)
  PROVE  OneActive'
<1>1. CASE ~Accepted(c)
  BY <1>1 DEF Serve, OneActive
<1>2. CASE Accepted(c)
  <2>1. UpdateClaimedJob(c)
    BY <1>2 DEF Serve
  <2>2. OpsSame /\ OthersSame(c.job) /\ jobs'[c.job].status = StatusAfter(c)
    BY <2>1, ReportRow
  <2>3. StatusAfter(c) \in Active =>
          \A i \in DOMAIN jobs \ {c.job} :
            ~(jobs[i].op = jobs[c.job].op /\ jobs[i].status \in Active)
    BY <1>2, ActiveIsIndexed DEF Accepted, IndexAllows
  <2> QED
    BY <2>2, <2>3 DEF OneActive, OpsSame, OthersSame
<1> QED
  BY <1>1, <1>2

LEMMA OneActiveStep ==
  ASSUME UniqueIndex
  PROVE  TypeOK /\ Refer /\ OneActive /\ [Next]_vars => OneActive'
<1> SUFFICES ASSUME TypeOK, Refer, OneActive, [Next]_vars PROVE OneActive'
  OBVIOUS
<1>1. CASE UNCHANGED jobs
  BY <1>1 DEF OneActive
<1>2. ASSUME NEW h \in Handlers, QueueJob(h), ~UNCHANGED jobs PROVE OneActive'
  <2>1. PICK j \in ActiveRows(req[h].op) : Reset(j, req[h].key)
    BY <1>2 DEF QueueJob
  <2>2. j \in DOMAIN jobs /\ jobs[j].status \in Active /\ req[h].key \in Keys \union {NoKey}
    BY DEF ActiveRows, TypeOK, HandlerState
  <2>3. OpsSame /\ OthersSame(j)
    BY <2>1, <2>2, ResetRow
  <2> QED
    BY <2>2, <2>3, OneActiveKept DEF OthersSame
<1>3. ASSUME NEW h \in Handlers, InsertJob(h), ~UNCHANGED jobs PROVE OneActive'
  <2> DEFINE row == [op |-> req[h].op, status |-> "queued", key |-> req[h].key, attempts |-> 0,
                     lockedBy |-> NoAgent, expired |-> FALSE]
  <2>1. jobs' = Append(jobs, row) /\ IndexAllows(0, req[h].op, "queued")
    BY <1>3 DEF InsertJob
  <2>2. jobs \in Seq(JobRow) /\ 0 \notin DOMAIN jobs
    BY DEF TypeOK
  <2>3. \A i \in DOMAIN jobs : ~(jobs[i].op = req[h].op /\ jobs[i].status \in Active)
    BY <2>1, <2>2, ActiveIsIndexed DEF IndexAllows, Indexed
  <2>4. row.op = req[h].op
    OBVIOUS
  <2> HIDE DEF row
  <2>5. /\ DOMAIN jobs' = DOMAIN jobs \union {Len(jobs) + 1}
        /\ jobs'[Len(jobs) + 1] = row
        /\ \A i \in DOMAIN jobs : jobs'[i] = jobs[i]
    BY <2>1, <2>2
  <2> QED
    BY <2>3, <2>4, <2>5 DEF OneActive
<1>4. ASSUME NEW h \in Handlers, CancelOthers(h) PROVE OneActive'
  <2>1. /\ OpsSame
        /\ \A j \in DOMAIN jobs : jobs'[j] = jobs[j] \/ jobs'[j].status = "cancelled"
    BY <1>4, CancelledRows DEF CancelOthers
  <2>2. "cancelled" \notin Active
    BY DEF Active, Waiting, Leased
  <2> QED
    BY <2>1, <2>2, OneActiveKept
<1>5. ASSUME NEW h \in Handlers, NEW a \in Agents, CallServed(a, h) PROVE OneActive'
  <2>1. Call(a) \in CallRecord /\ Call(a).job \in DOMAIN jobs /\ Serve(Call(a), h)
    BY <1>5, CallType DEF CallServed
  <2> QED
    BY <2>1, ReportKeeps
<1>6. ASSUME NEW h \in Handlers, NEW c \in calls, LateCallServed(c, h) PROVE OneActive'
  <2>1. c \in CallRecord /\ c.job \in DOMAIN jobs /\ Serve(c, h)
    BY <1>6 DEF LateCallServed, TypeOK, Refer
  <2> QED
    BY <2>1, ReportKeeps
<1>7. ASSUME NEW a \in Agents, NEW j \in DOMAIN jobs, ClaimJob(a, j) \/ ClaimLost(a, j)
      PROVE  OneActive'
  <2>1. Claim(a, j) /\ jobs[j].status \in Active
    BY <1>7 DEF ClaimJob, ClaimLost, Claimable, Active
  <2>2. OpsSame /\ OthersSame(j)
    BY <2>1, ClaimRow
  <2> QED
    BY <2>1, <2>2, OneActiveKept DEF OthersSame
<1>8. ASSUME NEW j \in DOMAIN jobs, LeaseExpires(j) PROVE OneActive'
  <2>1. OpsSame /\ OthersSame(j) /\ jobs'[j].status = jobs[j].status
    BY <1>8, LeaseRow DEF LeaseExpires
  <2> QED
    BY <2>1, OneActiveKept DEF OthersSame
<1>9. ASSUME NEW h \in Handlers, HandlerNext(h) PROVE OneActive'
  <2>1. QueueJob(h) \/ InsertJob(h) \/ CancelOthers(h) \/ UNCHANGED jobs
        \/ (\E a \in Agents : CallServed(a, h)) \/ (\E c \in calls : LateCallServed(c, h))
    BY <1>9 DEF HandlerNext, QueuePeerUpsert, QueueRouterConfigure, QueuePeerRemoval, Ask,
                ApplyRouterJobStatus, LoadRouter, FindConfigure, ServerCrash
  <2> QED
    BY <1>1, <1>2, <1>3, <1>4, <1>5, <1>6, <2>1
<1>10. ASSUME NEW a \in Agents, AgentNext(a) PROVE OneActive'
  <2>1. UNCHANGED jobs \/ \E j \in DOMAIN jobs : ClaimJob(a, j) \/ ClaimLost(a, j)
    BY <1>10 DEF AgentNext, GiveUp, RemoveStalePeer, PersistPeer, SetPeer, UnpersistPeer,
                 UnsetPeer, ConfigureRouter, ApplyFails, AgentCrash, server
  <2> QED
    BY <1>1, <1>7, <2>1
<1> QED
  BY <1>1, <1>8, <1>9, <1>10 DEF Next, vars

\* At most one element, hence at most one counted.
LEMMA OneActiveCounts == TypeOK /\ OneActive => SingleActive
<1> SUFFICES ASSUME TypeOK, OneActive, NEW op \in Operations
             PROVE  Cardinality(ActiveRows(op)) <= 1
  BY DEF SingleActive
<1>1. CASE ActiveRows(op) = {}
  BY <1>1, FS_EmptySet
<1>2. ASSUME NEW j \in ActiveRows(op) PROVE Cardinality(ActiveRows(op)) <= 1
  <2>1. ActiveRows(op) = {j}
    BY <1>2 DEF ActiveRows, OneActive
  <2> QED
    BY <2>1, FS_Singleton
<1> QED
  BY <1>1, <1>2

\* With the unique index of migrations/002 a router never has two active jobs of one operation,
\* however many callbacks insert and however many agents report late.
THEOREM OneActiveJob ==
  ASSUME UniqueIndex
  PROVE  Spec => []SingleActive
<1>1. Init => OneActive
  BY DEF Init, OneActive
<1>2. TypeOK /\ Refer /\ OneActive /\ [Next]_vars => OneActive'
  BY OneActiveStep
<1>3. TypeOK /\ OneActive => SingleActive
  BY OneActiveCounts
<1> QED
  BY <1>1, <1>2, <1>3, TypeCorrectness, PTL DEF Spec

-----------------------------------------------------------------------------
(* A result is written to the router or on its way there.                  *)

\* What RouterHears promises of one job.
Told(j) == \/ j \in heard
           \/ \E h \in Handlers : req[h].pc = jobs[j].status /\ req[h].job = j

Over(j) == jobs[j].status \in {"succeeded", "failed"}

\* Faults are never forgotten.
LEMMA FaultsStay ==
  ASSUME TypeOK, NEW f, UNCHANGED faults \/ \E g \in Faults : Fault(g)
  PROVE  Happened(f) => Happened(f)'
<1>1. CASE UNCHANGED faults
  BY <1>1 DEF Happened
<1>2. ASSUME NEW g \in Faults, Fault(g) PROVE Happened(f) => Happened(f)'
  <2>1. faults \in Seq(Faults) /\ faults' = Append(faults, g)
    BY <1>2 DEF TypeOK, Fault
  <2>2. \A i \in DOMAIN faults : i \in DOMAIN faults' /\ faults'[i] = faults[i]
    BY <2>1
  <2> QED
    BY <2>2 DEF Happened
<1> QED
  BY <1>1, <1>2

\* Steps that finish no job, forget nothing and take no report off its handler.
LEMMA ToldKept ==
  ASSUME RouterHears, Happened("serverCrash") => Happened("serverCrash")',
         heard \subseteq heard',
         \A j \in DOMAIN jobs' : Over(j)' =>
            j \in DOMAIN jobs /\ jobs'[j].status = jobs[j].status,
         \A h \in Handlers : req[h].pc \in {"succeeded", "failed"} =>
            \/ req'[h].pc = req[h].pc /\ req'[h].job = req[h].job
            \/ req[h].job \in heard'
  PROVE  RouterHears'
<1> SUFFICES ASSUME ~Happened("serverCrash")', NEW j \in DOMAIN jobs', Over(j)'
             PROVE  Told(j)'
  BY DEF RouterHears, Told, Over
<1>1. j \in DOMAIN jobs /\ jobs'[j].status = jobs[j].status /\ Over(j)
  BY DEF Over
<1>2. Told(j)
  BY <1>1 DEF RouterHears, Told, Over
<1>3. CASE j \in heard
  BY <1>3 DEF Told
<1>4. ASSUME NEW h \in Handlers, req[h].pc = jobs[j].status, req[h].job = j PROVE Told(j)'
  BY <1>1, <1>4 DEF Told, Over
<1> QED
  BY <1>2, <1>3, <1>4 DEF Told

\* A report that finishes its job leaves the result with the handler that took it.
LEMMA ReportTold ==
  ASSUME TypeOK, RouterHears, NEW c \in CallRecord, c.job \in DOMAIN jobs,
         NEW h \in Handlers, Serve(c, h)
  PROVE  RouterHears'
<1>0. req[h].pc = "idle" /\ UNCHANGED <<faults, heard>>
  BY DEF Serve
<1>1. CASE ~Accepted(c)
  BY <1>0, <1>1 DEF Serve, RouterHears, Happened
<1>2. CASE Accepted(c)
  <2>1. UpdateClaimedJob(c)
    BY <1>2 DEF Serve
  <2>2. OpsSame /\ OthersSame(c.job) /\ jobs'[c.job].status = StatusAfter(c)
    BY <2>1, ReportRow
  <2>3. \A g \in Handlers \ {h} : req'[g] = req[g]
    BY <1>2 DEF Serve, TypeOK
  <2>4. Reports(c) => req'[h].pc = StatusAfter(c) /\ req'[h].job = c.job
    <3>1. Reports(c) => req' = [req EXCEPT ![h] =
            [IdleHandler EXCEPT !.pc = StatusAfter(c), !.op = jobs[c.job].op, !.job = c.job]]
      BY <1>2 DEF Serve
    <3> QED
      BY <3>1 DEF TypeOK, IdleHandler
  <2> SUFFICES ASSUME ~Happened("serverCrash")', NEW j \in DOMAIN jobs', Over(j)'
               PROVE  Told(j)'
    BY DEF RouterHears, Told, Over
  <2>5. CASE j = c.job
    <3>1. Reports(c)
      BY <2>2, <2>5 DEF Over, Reports
    <3> QED
      BY <2>2, <2>4, <2>5, <3>1 DEF Told
  <2>6. CASE j # c.job
    <3>1. j \in DOMAIN jobs /\ jobs'[j] = jobs[j] /\ Over(j)
      BY <2>2, <2>6 DEF OpsSame, OthersSame, Over
    <3>2. Told(j)
      BY <1>0, <3>1 DEF RouterHears, Told, Over, Happened
    <3>3. CASE j \in heard
      BY <1>0, <3>3 DEF Told
    <3>4. ASSUME NEW g \in Handlers, req[g].pc = jobs[j].status, req[g].job = j PROVE Told(j)'
      <4>1. g # h
        BY <1>0, <3>1, <3>4 DEF Over
      <4> QED
        BY <2>3, <3>1, <3>4, <4>1 DEF Told
    <3> QED
      BY <3>2, <3>3, <3>4 DEF Told
  <2> QED
    BY <2>5, <2>6
<1> QED
  BY <1>1, <1>2

\* Steps of a handler that takes no report and only moves itself.
LEMMA HandlerKeeps ==
  ASSUME TypeOK, RouterHears, NEW h \in Handlers, UNCHANGED <<faults, heard>>,
         req[h].pc \notin {"succeeded", "failed"},
         NEW q, req' = [req EXCEPT ![h] = q],
         \A j \in DOMAIN jobs' : Over(j)' =>
            j \in DOMAIN jobs /\ jobs'[j].status = jobs[j].status
  PROVE  RouterHears'
<1>1. \A g \in Handlers : req[g].pc \in {"succeeded", "failed"} => req'[g] = req[g]
  BY DEF TypeOK
<1> QED
  BY <1>1, ToldKept DEF Happened

LEMMA RouterHearsStep == TypeOK /\ Refer /\ RouterHears /\ [Next]_vars => RouterHears'
<1> SUFFICES ASSUME TypeOK, Refer, RouterHears, [Next]_vars PROVE RouterHears'
  OBVIOUS
<1> DEFINE RowsKeep == \A j \in DOMAIN jobs' : Over(j)' =>
                          j \in DOMAIN jobs /\ jobs'[j].status = jobs[j].status
<1>1. UNCHANGED jobs => RowsKeep
  BY DEF Over
<1>2. ASSUME NEW h \in Handlers, NEW op, NEW key, Ask(h, op, key) PROVE RouterHears'
  BY <1>1, <1>2, HandlerKeeps DEF Ask
<1>3. ASSUME NEW h \in Handlers, QueueRouterConfigure(h) PROVE RouterHears'
  BY <1>1, <1>3, HandlerKeeps DEF QueueRouterConfigure
<1>4. ASSUME NEW h \in Handlers, QueueJob(h) PROVE RouterHears'
  <2>1. RowsKeep
    <3>1. ASSUME NEW j \in ActiveRows(req[h].op), Reset(j, req[h].key) PROVE RowsKeep
      <4>1. j \in DOMAIN jobs /\ req[h].key \in Keys \union {NoKey}
        BY DEF ActiveRows, TypeOK, HandlerState
      <4>2. OpsSame /\ OthersSame(j) /\ jobs'[j].status = "queued"
        BY <3>1, <4>1, ResetRow
      <4> QED
        BY <4>2 DEF OpsSame, OthersSame, Over
    <3> QED
      BY <1>1, <1>4, <3>1 DEF QueueJob
  <2>2. \/ req' = [req EXCEPT ![h] = [req[h] EXCEPT !.pc = "insert"]]
        \/ req' = [req EXCEPT ![h] = IdleHandler]
    BY <1>4 DEF QueueJob
  <2>3. UNCHANGED <<faults, heard>> /\ req[h].pc = "queue"
    BY <1>4 DEF QueueJob
  <2> QED
    BY <2>1, <2>2, <2>3, HandlerKeeps
<1>5. ASSUME NEW h \in Handlers, InsertJob(h) PROVE RouterHears'
  <2>1. RowsKeep
    <3> DEFINE row == [op |-> req[h].op, status |-> "queued", key |-> req[h].key, attempts |-> 0,
                       lockedBy |-> NoAgent, expired |-> FALSE]
    <3>1. UNCHANGED jobs \/ jobs' = Append(jobs, row)
      BY <1>5 DEF InsertJob
    <3>2. row.status = "queued"
      OBVIOUS
    <3> HIDE DEF row
    <3>3. CASE jobs' = Append(jobs, row)
      <4>1. jobs \in Seq(JobRow)
        BY DEF TypeOK
      <4>2. /\ \A j \in DOMAIN jobs' : j \in DOMAIN jobs \/ jobs'[j] = row
            /\ \A j \in DOMAIN jobs : jobs'[j] = jobs[j]
        BY <3>3, <4>1
      <4> QED
        BY <3>2, <4>2 DEF Over
    <3> QED
      BY <1>1, <3>1, <3>3
  <2>2. req' = [req EXCEPT ![h] = IdleHandler] /\ UNCHANGED <<faults, heard>>
        /\ req[h].pc = "insert"
    BY <1>5 DEF InsertJob
  <2> QED
    BY <2>1, <2>2, HandlerKeeps
<1>6. ASSUME NEW h \in Handlers, ApplyRouterJobStatus(h) PROVE RouterHears'
  <2>1. UNCHANGED <<jobs, faults>> /\ heard' = heard \union {req[h].job}
    BY <1>6 DEF ApplyRouterJobStatus
  <2>2. \A g \in Handlers \ {h} : req'[g] = req[g]
    BY <1>6 DEF ApplyRouterJobStatus, TypeOK
  <2> QED
    BY <1>1, <2>1, <2>2, ToldKept DEF Happened
<1>7. ASSUME NEW h \in Handlers, LoadRouter(h) \/ FindConfigure(h) PROVE RouterHears'
  BY <1>1, <1>7, HandlerKeeps DEF LoadRouter, FindConfigure
<1>8. ASSUME NEW h \in Handlers, CancelOthers(h) PROVE RouterHears'
  <2>1. /\ OpsSame
        /\ \A j \in DOMAIN jobs : jobs'[j] = jobs[j] \/ jobs'[j].status = "cancelled"
    BY <1>8, CancelledRows DEF CancelOthers
  <2>2. RowsKeep
    BY <2>1 DEF OpsSame, Over
  <2>3. req' = [req EXCEPT ![h] = IdleHandler] /\ UNCHANGED <<faults, heard>>
        /\ req[h].pc = "cancelOthers"
    BY <1>8 DEF CancelOthers
  <2> QED
    BY <2>2, <2>3, HandlerKeeps
<1>9. ASSUME NEW h \in Handlers, NEW a \in Agents, CallServed(a, h) PROVE RouterHears'
  <2>1. Call(a) \in CallRecord /\ Call(a).job \in DOMAIN jobs /\ Serve(Call(a), h)
    BY <1>9, CallType DEF CallServed
  <2> QED
    BY <2>1, ReportTold
<1>10. ASSUME NEW h \in Handlers, NEW c \in calls, LateCallServed(c, h) PROVE RouterHears'
  <2>1. c \in CallRecord /\ c.job \in DOMAIN jobs /\ Serve(c, h)
    BY <1>10 DEF LateCallServed, TypeOK, Refer
  <2> QED
    BY <2>1, ReportTold
<1>11. ASSUME NEW h \in Handlers, ServerCrash(h) PROVE RouterHears'
  <2>1. faults \in Seq(Faults) /\ faults' = Append(faults, "serverCrash")
    BY <1>11 DEF ServerCrash, Fault, TypeOK
  <2>2. Happened("serverCrash")'
    <3>1. Len(faults) + 1 \in DOMAIN faults' /\ faults'[Len(faults) + 1] = "serverCrash"
      BY <2>1
    <3> QED
      BY <3>1 DEF Happened
  <2> QED
    BY <2>2 DEF RouterHears
<1>12. ASSUME NEW a \in Agents, NEW j \in DOMAIN jobs, ClaimJob(a, j) \/ ClaimLost(a, j)
       PROVE  RouterHears'
  <2>1. Claim(a, j) /\ UNCHANGED <<req, heard>>
    BY <1>12 DEF ClaimJob, ClaimLost
  <2>2. OpsSame /\ OthersSame(j) /\ jobs'[j].status = "claimed"
    <3>1. jobs'[j].status = "claimed"
      BY <2>1 DEF Claim, TypeOK, JobRow
    <3> QED
      BY <2>1, <3>1, ClaimRow
  <2>3. RowsKeep
    BY <2>2 DEF OpsSame, OthersSame, Over
  <2>4. UNCHANGED faults \/ Fault("claimLost")
    BY <1>12 DEF ClaimJob, ClaimLost
  <2> QED
    BY <2>1, <2>3, <2>4, FaultsStay, ToldKept DEF Faults
<1>13. ASSUME NEW j \in DOMAIN jobs, LeaseExpires(j) PROVE RouterHears'
  <2>1. OpsSame /\ OthersSame(j) /\ jobs'[j].status = jobs[j].status
    BY <1>13, LeaseRow DEF LeaseExpires
  <2>2. RowsKeep
    BY <2>1 DEF OpsSame, OthersSame, Over
  <2>3. UNCHANGED <<req, heard>> /\ (UNCHANGED faults \/ Fault("leaseOutlived"))
    BY <1>13 DEF LeaseExpires
  <2> QED
    BY <2>2, <2>3, FaultsStay, ToldKept DEF Faults
<1>14. ASSUME UNCHANGED <<jobs, req, heard>>, UNCHANGED faults \/ \E g \in Faults : Fault(g)
       PROVE  RouterHears'
  BY <1>1, <1>14, FaultsStay, ToldKept
<1>15. ASSUME NEW a \in Agents, AgentNext(a) PROVE RouterHears'
  <2>1. \/ \E j \in DOMAIN jobs : ClaimJob(a, j) \/ ClaimLost(a, j)
        \/ UNCHANGED server /\ (UNCHANGED faults \/ Fault("gaveUp") \/ Fault("agentCrash"))
    BY <1>15 DEF AgentNext, GiveUp, RemoveStalePeer, PersistPeer, SetPeer, UnpersistPeer,
                 UnsetPeer, ConfigureRouter, ApplyFails, AgentCrash
  <2> QED
    BY <1>12, <1>14, <2>1 DEF server, Faults
<1>16. ASSUME NEW h \in Handlers, HandlerNext(h) PROVE RouterHears'
  BY <1>2, <1>3, <1>4, <1>5, <1>6, <1>7, <1>8, <1>9, <1>10, <1>11, <1>16
     DEF HandlerNext, QueuePeerUpsert, QueuePeerRemoval
<1>17. CASE UNCHANGED vars
  BY <1>14, <1>17 DEF vars
<1> QED
  BY <1>13, <1>15, <1>16, <1>17 DEF Next

\* Unless the server stopped in between, a job that succeeded or failed for good has been written to
\* its router, or the handler that took the report is about to: for any number of handlers, agents
\* and late reports.
THEOREM RouterIsTold == Spec => []RouterHears
<1>1. Init => RouterHears
  BY DEF Init, RouterHears
<1> QED
  BY <1>1, RouterHearsStep, TypeCorrectness, PTL DEF Spec

-----------------------------------------------------------------------------
(* What a claim is worth.  The attempt counter, which the code stores but   *)
(* never compares, tells the claims of a job apart: one agent, or one call  *)
(* it has given up on, holds each of them.                                  *)

Works(a) == agent[a].pc # "idle"

Holds(x, j, n) == x.job = j /\ x.attempt = n

\* x holds the last claim of its job, and the row is still locked.
Current(x) == x.attempt = jobs[x.job].attempts /\ jobs[x.job].lockedBy # NoAgent

AttemptsKnown ==
  /\ \A a \in Agents : Works(a) => agent[a].attempt <= jobs[agent[a].job].attempts
  /\ \A c \in calls : c.attempt <= jobs[c.job].attempts

OneHolder ==
  /\ \A a, b \in Agents :
       Works(a) /\ Works(b) /\ Holds(agent[a], agent[b].job, agent[b].attempt) => a = b
  /\ \A a \in Agents, c \in calls : Works(a) => ~Holds(agent[a], c.job, c.attempt)
  /\ \A c, d \in calls : Holds(c, d.job, d.attempt) => c = d

NoneLeft ==
  ~stale =>
    \A j \in DOMAIN jobs : Over(j) =>
      /\ \A a \in Agents : Works(a) => ~Holds(agent[a], j, jobs[j].attempts)
      /\ \A c \in calls : ~Holds(c, j, jobs[j].attempts)

KeyKnown ==
  \A a \in Agents : Works(a) /\ Current(agent[a]) => agent[a].key = jobs[agent[a].job].key

RanKnown ==
  /\ \A a \in Agents :
       agent[a].pc = "complete" => <<agent[a].job, agent[a].attempt, agent[a].key>> \in ran
  /\ \A c \in calls :
       c.kind = "complete" /\ Current(c) => <<c.job, c.attempt, jobs[c.job].key>> \in ran

CancelledFree == \A j \in DOMAIN jobs : jobs[j].status = "cancelled" => jobs[j].lockedBy = NoAgent

Claims == /\ AttemptsKnown /\ OneHolder /\ NoneLeft /\ KeyKnown /\ RanKnown
          /\ CancelledFree /\ SucceededMeansApplied

\* A step that claims nothing: it takes no lock, changes no key under one, and finishes no job.
Tame ==
  /\ DOMAIN jobs \subseteq DOMAIN jobs'
  /\ \A j \in DOMAIN jobs :
       /\ jobs'[j].attempts = jobs[j].attempts
       /\ jobs'[j].lockedBy # NoAgent => jobs[j].lockedBy # NoAgent /\ jobs'[j].key = jobs[j].key
       /\ Over(j)' => jobs'[j] = jobs[j]
  /\ \A j \in DOMAIN jobs' : Over(j)' => j \in DOMAIN jobs
  /\ \A j \in DOMAIN jobs' : jobs'[j].status = "cancelled" =>
       jobs'[j].lockedBy = NoAgent \/ (j \in DOMAIN jobs /\ jobs'[j] = jobs[j])

LEMMA TameKeeps ==
  ASSUME TypeOK, Refer, Claims, Tame, UNCHANGED <<agent, calls, ran, stale>>
  PROVE  Claims'
<1>1. /\ \A a \in Agents : Works(a) => agent[a].job \in DOMAIN jobs
      /\ \A c \in calls : c.job \in DOMAIN jobs
  BY DEF Refer, Works
<1>2. AttemptsKnown'
  BY <1>1 DEF Claims, AttemptsKnown, Tame, Works
<1>3. OneHolder'
  BY DEF Claims, OneHolder, Works, Holds
<1>4. NoneLeft'
  BY DEF Claims, NoneLeft, Tame, Works, Holds, Over
<1>5. KeyKnown'
  BY <1>1 DEF Claims, KeyKnown, Tame, Works, Current
<1>6. RanKnown'
  BY <1>1 DEF Claims, RanKnown, Tame, Current
<1>7. SucceededMeansApplied'
  BY DEF Claims, SucceededMeansApplied, Tame, Over
<1>8. CancelledFree'
  BY DEF Claims, CancelledFree, Tame
<1> QED
  BY <1>2, <1>3, <1>4, <1>5, <1>6, <1>7, <1>8 DEF Claims

\* A step of one agent, which goes on with its claim, drops it or leaves it to a call.
LEMMA AgentKeeps ==
  ASSUME TypeOK, Refer, Claims, UNCHANGED <<jobs, stale>>, ran \subseteq ran',
         NEW a \in Agents, Works(a),
         \A b \in Agents \ {a} : agent'[b] = agent[b],
         \/ /\ calls' = calls
            /\ \/ agent'[a].pc = "idle"
               \/ /\ agent'[a].job = agent[a].job
                  /\ agent'[a].attempt = agent[a].attempt
                  /\ agent'[a].key = agent[a].key
                  /\ agent'[a].pc = "complete" =>
                       <<agent[a].job, agent[a].attempt, agent[a].key>> \in ran'
         \/ calls' = calls \union {Call(a)} /\ agent'[a].pc = "idle"
  PROVE  Claims'
<1>1. /\ Call(a).job = agent[a].job /\ Call(a).attempt = agent[a].attempt
      /\ Call(a).kind = agent[a].pc
  BY DEF Call
<1>2. \A b \in Agents : Works(b)' => /\ Works(b)
                                    /\ agent'[b].job = agent[b].job
                                    /\ agent'[b].attempt = agent[b].attempt
                                    /\ agent'[b].key = agent[b].key
  BY DEF Works
<1>3. \A c \in calls' : c \in calls \/ (c = Call(a) /\ ~Works(a)')
  BY DEF Works
<1>4. AttemptsKnown'
  BY <1>1, <1>2, <1>3 DEF Claims, AttemptsKnown, Works
<1>5. OneHolder'
  BY <1>1, <1>2, <1>3 DEF Claims, OneHolder, Works, Holds
<1>6. NoneLeft'
  BY <1>1, <1>2, <1>3 DEF Claims, NoneLeft, Works, Holds, Over
<1>7. KeyKnown'
  BY <1>2 DEF Claims, KeyKnown, Works, Current
<1>8. RanKnown'
  <2>1. ASSUME NEW b \in Agents, agent'[b].pc = "complete"
        PROVE  <<agent'[b].job, agent'[b].attempt, agent'[b].key>> \in ran'
    BY <1>2, <2>1 DEF Claims, RanKnown, Works
  <2>2. ASSUME NEW c \in calls', c.kind = "complete", Current(c)'
        PROVE  <<c.job, c.attempt, jobs'[c.job].key>> \in ran'
    <3>1. CASE c \in calls
      BY <2>2, <3>1 DEF Claims, RanKnown, Current
    <3>2. CASE c = Call(a)
      <4>1. agent[a].pc = "complete" /\ Current(agent[a])
        BY <1>1, <2>2, <3>2 DEF Current
      <4>2. agent[a].key = jobs[agent[a].job].key
        BY <4>1 DEF Claims, KeyKnown
      <4>3. <<agent[a].job, agent[a].attempt, agent[a].key>> \in ran
        BY <4>1 DEF Claims, RanKnown
      <4> QED
        BY <1>1, <3>2, <4>2, <4>3
    <3> QED
      BY <1>3, <3>1, <3>2
  <2> QED
    BY <2>1, <2>2 DEF RanKnown
<1>9. SucceededMeansApplied' /\ CancelledFree'
  BY DEF Claims, SucceededMeansApplied, CancelledFree
<1> QED
  BY <1>4, <1>5, <1>6, <1>7, <1>8, <1>9 DEF Claims

\* A claim: its attempt is above every other claim of the job.
LEMMA ClaimKeeps ==
  ASSUME TypeOK, Refer, Claims, NEW a \in Agents, NEW j \in DOMAIN jobs,
         ~Works(a), Claim(a, j), UNCHANGED <<calls, ran, stale>>,
         \/ UNCHANGED agent
         \/ agent' = [agent EXCEPT ![a] = [pc |-> "applying", job |-> j, key |-> jobs[j].key,
                                           attempt |-> jobs[j].attempts + 1]]
  PROVE  Claims'
<1>1. /\ OpsSame /\ OthersSame(j)
      /\ jobs'[j].status = "claimed"
      /\ jobs'[j].attempts = jobs[j].attempts + 1
      /\ jobs'[j].key = jobs[j].key
  BY ClaimRow
<1>2. \A i \in DOMAIN jobs : jobs[i].attempts \in Nat
  BY RowFields
<1>3. \A b \in Agents : /\ Works(b) => agent[b].job \in DOMAIN jobs
                        /\ agent[b].attempt \in Nat
  BY DEF Refer, Works, TypeOK, AgentState
<1>4. \A c \in calls : c.job \in DOMAIN jobs /\ c.attempt \in Nat
  BY DEF Refer, TypeOK, CallRecord
<1>5. \A b \in Agents \ {a} : agent'[b] = agent[b]
  BY DEF TypeOK
<1>6. \/ ~Works(a)'
      \/ /\ agent'[a].pc = "applying" /\ agent'[a].job = j /\ agent'[a].key = jobs[j].key
         /\ agent'[a].attempt = jobs[j].attempts + 1
  BY DEF TypeOK, Works
<1>7. \A b \in Agents : Works(b)' => b = a \/ (Works(b) /\ agent'[b] = agent[b])
  BY <1>5 DEF Works
<1>8. \A i \in DOMAIN jobs : jobs'[i].attempts >= jobs[i].attempts
  BY <1>1, <1>2 DEF OthersSame
<1>9. AttemptsKnown'
  <2>1. ASSUME NEW b \in Agents, Works(b)'
        PROVE  agent'[b].attempt <= jobs'[agent'[b].job].attempts
    <3>1. CASE b = a
      BY <1>1, <1>2, <1>6, <2>1, <3>1
    <3>2. CASE b # a
      <4>1. Works(b) /\ agent'[b] = agent[b] /\ agent[b].job \in DOMAIN jobs
            /\ agent[b].attempt <= jobs[agent[b].job].attempts
        BY <1>3, <1>7, <2>1, <3>2 DEF Claims, AttemptsKnown
      <4> QED
        BY <1>2, <1>3, <1>8, <4>1, <1>1 DEF OthersSame
    <3> QED
      BY <3>1, <3>2
  <2>2. ASSUME NEW c \in calls' PROVE c.attempt <= jobs'[c.job].attempts
    <3>1. c \in calls /\ c.attempt <= jobs[c.job].attempts
      BY DEF Claims, AttemptsKnown
    <3> QED
      BY <1>1, <1>2, <1>4, <3>1 DEF OthersSame
  <2> QED
    BY <2>1, <2>2 DEF AttemptsKnown
<1>10. /\ \A b \in Agents : Works(b) => ~Holds(agent[b], j, jobs[j].attempts + 1)
       /\ \A c \in calls : ~Holds(c, j, jobs[j].attempts + 1)
  BY <1>2, <1>3, <1>4 DEF Claims, AttemptsKnown, Holds
<1>11. OneHolder'
  <2>1. ASSUME NEW b \in Agents, NEW d \in Agents, Works(b)', Works(d)',
               Holds(agent'[b], agent'[d].job, agent'[d].attempt)
        PROVE  b = d
    BY <1>6, <1>7, <1>10, <2>1 DEF Claims, OneHolder, Holds
  <2>2. ASSUME NEW b \in Agents, NEW c \in calls', Works(b)'
        PROVE  ~Holds(agent'[b], c.job, c.attempt)
    BY <1>6, <1>7, <1>10, <2>2 DEF Claims, OneHolder, Holds
  <2>3. \A c, d \in calls' : Holds(c, d.job, d.attempt) => c = d
    BY DEF Claims, OneHolder, Holds
  <2> QED
    BY <2>1, <2>2, <2>3 DEF OneHolder, Works, Holds
<1>12. NoneLeft'
  <2> SUFFICES ASSUME ~stale, NEW i \in DOMAIN jobs', Over(i)'
               PROVE  /\ \A b \in Agents : Works(b)' => ~Holds(agent'[b], i, jobs'[i].attempts)
                      /\ \A c \in calls' : ~Holds(c, i, jobs'[i].attempts)
    BY DEF NoneLeft, Works, Holds
  <2>1. i # j /\ i \in DOMAIN jobs /\ jobs'[i] = jobs[i] /\ Over(i)
    BY <1>1 DEF OpsSame, OthersSame, Over
  <2> QED
    BY <1>6, <1>7, <2>1 DEF Claims, NoneLeft, Holds
<1>13. KeyKnown'
  <2> SUFFICES ASSUME NEW b \in Agents, Works(b)', Current(agent[b])'
               PROVE  agent'[b].key = jobs'[agent'[b].job].key
    BY DEF KeyKnown
  <2>1. CASE b = a
    BY <1>1, <1>6, <2>1
  <2>2. CASE b # a
    <3>1. Works(b) /\ agent'[b] = agent[b] /\ agent[b].job \in DOMAIN jobs
      BY <1>3, <1>7, <2>2
    <3>2. agent[b].job # j
      BY <1>1, <1>10, <3>1 DEF Current, Holds
    <3> QED
      BY <1>1, <3>1, <3>2 DEF Claims, KeyKnown, Current, OthersSame
  <2> QED
    BY <2>1, <2>2
<1>14. RanKnown'
  <2>1. ASSUME NEW b \in Agents, agent'[b].pc = "complete"
        PROVE  <<agent'[b].job, agent'[b].attempt, agent'[b].key>> \in ran
    <3>1. b # a
      BY <1>6, <2>1 DEF Works
    <3> QED
      BY <1>5, <2>1, <3>1 DEF Claims, RanKnown
  <2>2. ASSUME NEW c \in calls, c.kind = "complete", Current(c)'
        PROVE  <<c.job, c.attempt, jobs'[c.job].key>> \in ran
    <3>1. c.job # j
      BY <1>1, <1>10, <2>2 DEF Current, Holds
    <3> QED
      BY <1>1, <1>4, <2>2, <3>1 DEF Claims, RanKnown, Current, OthersSame
  <2> QED
    BY <2>1, <2>2 DEF RanKnown
<1>15. SucceededMeansApplied' /\ CancelledFree'
  BY <1>1 DEF Claims, SucceededMeansApplied, CancelledFree, OpsSame, OthersSame
<1> QED
  BY <1>9, <1>11, <1>12, <1>13, <1>14, <1>15 DEF Claims

\* The caller of a report holds the claim it speaks of.
Held(c) == \/ \E a \in Agents : Works(a) /\ Holds(agent[a], c.job, c.attempt)
           \/ c \in calls

\* A report: whoever made it holds the claim no more, unless it goes on to apply the job.
LEMMA ServeKeeps ==
  ASSUME TypeOK, Refer, Claims, NEW c \in CallRecord, c.job \in DOMAIN jobs,
         NEW h \in Handlers, Serve(c, h), Held(c), UNCHANGED ran, calls' \subseteq calls,
         \A b \in Agents : Works(b)' =>
           /\ Works(b)
           /\ agent'[b].job = agent[b].job
           /\ agent'[b].attempt = agent[b].attempt
           /\ agent'[b].key = agent[b].key
           /\ agent'[b].pc = "complete" => agent[b].pc = "complete",
         Accepted(c) /\ c.kind # "applying" =>
           /\ \A b \in Agents : Works(b)' => ~Holds(agent[b], c.job, c.attempt)
           /\ \A d \in calls' : ~Holds(d, c.job, c.attempt),
         c.kind = "complete" /\ Current(c) => <<c.job, c.attempt, jobs[c.job].key>> \in ran
  PROVE  /\ Claims'
         /\ stale' \/ \A j \in DOMAIN jobs : jobs[j].status \in Finished => jobs'[j] = jobs[j]
<1>1. CASE ~Accepted(c)
  <2>1. UNCHANGED <<jobs, stale>>
    BY <1>1 DEF Serve
  <2>2. AttemptsKnown' /\ OneHolder' /\ NoneLeft'
    BY <2>1 DEF Claims, AttemptsKnown, OneHolder, NoneLeft, Works, Holds, Over
  <2>3. KeyKnown'
    BY <2>1 DEF Claims, KeyKnown, Works, Current
  <2>4. RanKnown'
    BY <2>1 DEF Claims, RanKnown, Works, Current
  <2>5. SucceededMeansApplied' /\ CancelledFree'
    BY <2>1 DEF Claims, SucceededMeansApplied, CancelledFree
  <2> QED
    BY <2>1, <2>2, <2>3, <2>4, <2>5 DEF Claims
<1>2. CASE Accepted(c)
  <2>1. UpdateClaimedJob(c)
    BY <1>2 DEF Serve
  <2>2. /\ OpsSame /\ OthersSame(c.job)
        /\ jobs'[c.job].status = StatusAfter(c)
        /\ jobs'[c.job].attempts = jobs[c.job].attempts
        /\ jobs'[c.job].key = jobs[c.job].key
        /\ jobs'[c.job].lockedBy \in {jobs[c.job].lockedBy, NoAgent}
    BY <2>1, ReportRow
  <2>3. stale' = (stale \/ c.attempt # jobs[c.job].attempts)
    BY <2>1 DEF UpdateClaimedJob
  <2>4. jobs[c.job].lockedBy # NoAgent
    BY <1>2, ConstantsAssumption DEF Accepted, CallRecord
  <2>5. \A j \in DOMAIN jobs : /\ jobs'[j].attempts = jobs[j].attempts
                               /\ jobs'[j].key = jobs[j].key
                               /\ jobs'[j].lockedBy # NoAgent => jobs[j].lockedBy # NoAgent
    BY <2>2 DEF OthersSame
  <2>6. /\ \A b \in Agents : Works(b) => agent[b].job \in DOMAIN jobs
        /\ \A d \in calls : d.job \in DOMAIN jobs
    BY DEF Refer, Works
  <2>7. ~stale' => ~stale /\ c.attempt = jobs[c.job].attempts
    BY <2>3
  <2>8. AttemptsKnown'
    BY <2>5, <2>6 DEF Claims, AttemptsKnown, Works
  <2>9. OneHolder'
    BY DEF Claims, OneHolder, Works, Holds
  <2>10. NoneLeft'
    <3> SUFFICES ASSUME ~stale', NEW j \in DOMAIN jobs', Over(j)'
                 PROVE  /\ \A b \in Agents : Works(b)' => ~Holds(agent'[b], j, jobs'[j].attempts)
                        /\ \A d \in calls' : ~Holds(d, j, jobs'[j].attempts)
      BY DEF NoneLeft, Works, Holds
    <3>1. CASE j = c.job
      <4>1. c.kind # "applying"
        BY <2>2, <3>1 DEF Over, StatusAfter
      <4> QED
        BY <1>2, <2>2, <2>7, <3>1, <4>1 DEF Holds
    <3>2. CASE j # c.job
      <4>1. j \in DOMAIN jobs /\ jobs'[j] = jobs[j] /\ Over(j)
        BY <2>2, <3>2 DEF OpsSame, OthersSame, Over
      <4> QED
        BY <2>7, <4>1 DEF Claims, NoneLeft, Holds
    <3> QED
      BY <3>1, <3>2
  <2>11. KeyKnown'
    BY <2>5, <2>6 DEF Claims, KeyKnown, Works, Current
  <2>12. RanKnown'
    BY <2>5, <2>6 DEF Claims, RanKnown, Works, Current
  <2>13. SucceededMeansApplied'
    <3> SUFFICES ASSUME ~stale', NEW j \in DOMAIN jobs', jobs'[j].status = "succeeded"
                 PROVE  <<j, jobs'[j].attempts, jobs'[j].key>> \in ran
      BY DEF SucceededMeansApplied
    <3>1. CASE j = c.job
      <4>1. c.kind = "complete"
        BY <2>2, <3>1 DEF StatusAfter
      <4>2. Current(c)
        BY <2>4, <2>7 DEF Current
      <4> QED
        BY <2>2, <2>7, <3>1, <4>1, <4>2
    <3>2. CASE j # c.job
      <4>1. j \in DOMAIN jobs /\ jobs'[j] = jobs[j]
        BY <2>2, <3>2 DEF OpsSame, OthersSame
      <4> QED
        BY <2>7, <4>1 DEF Claims, SucceededMeansApplied
    <3> QED
      BY <3>1, <3>2
  <2>14. CancelledFree'
    <3>1. StatusAfter(c) # "cancelled"
      BY DEF StatusAfter
    <3> QED
      BY <2>2, <3>1 DEF Claims, CancelledFree, OpsSame, OthersSame
  <2>15. stale' \/ \A j \in DOMAIN jobs : jobs[j].status \in Finished => jobs'[j] = jobs[j]
    <3> SUFFICES ASSUME ~stale', jobs[c.job].status \in Finished PROVE FALSE
      BY <2>2 DEF OthersSame
    <3>1. jobs[c.job].status # "cancelled"
      BY <2>4 DEF Claims, CancelledFree
    <3>2. Over(c.job)
      BY <3>1 DEF Over, Finished
    <3> QED
      BY <2>7, <3>2 DEF Claims, NoneLeft, Held, Holds
  <2> QED
    BY <2>8, <2>9, <2>10, <2>11, <2>12, <2>13, <2>14, <2>15 DEF Claims
<1> QED
  BY <1>1, <1>2

\* What FinishedStays says of a step.
FinishedStep == \A j \in DOMAIN jobs : jobs[j].status \in Finished => stale' \/ jobs'[j] = jobs[j]

LEMMA HandlerClaims ==
  ASSUME TypeOK, Refer, Claims, NEW h \in Handlers, HandlerNext(h)
  PROVE  Claims' /\ FinishedStep
<1>1. ASSUME UNCHANGED <<jobs, agent, calls, ran, stale>> PROVE Claims' /\ FinishedStep
  <2>1. Tame
    BY <1>1 DEF Tame, Over
  <2> QED
    BY <1>1, <2>1, TameKeeps DEF FinishedStep
<1>2. CASE QueueJob(h) /\ ~UNCHANGED jobs
  <2>1. PICK j \in ActiveRows(req[h].op) : Reset(j, req[h].key)
    BY <1>2 DEF QueueJob
  <2>2. j \in DOMAIN jobs /\ jobs[j].status \in Active /\ req[h].key \in Keys \union {NoKey}
    BY DEF ActiveRows, TypeOK, HandlerState
  <2>3. /\ OpsSame /\ OthersSame(j) /\ jobs'[j].status = "queued"
        /\ jobs'[j].attempts = jobs[j].attempts /\ jobs'[j].lockedBy = NoAgent
    BY <2>1, <2>2, ResetRow
  <2>4. Tame
    BY <2>3 DEF Tame, OpsSame, OthersSame, Over
  <2>5. FinishedStep
    BY <2>2, <2>3 DEF FinishedStep, OthersSame, Active, Waiting, Leased, Finished
  <2>6. UNCHANGED <<agent, calls, ran, stale>>
    BY <1>2 DEF QueueJob, vps
  <2> QED
    BY <2>4, <2>5, <2>6, TameKeeps
<1>3. CASE InsertJob(h) /\ ~UNCHANGED jobs
  <2> DEFINE row == [op |-> req[h].op, status |-> "queued", key |-> req[h].key, attempts |-> 0,
                     lockedBy |-> NoAgent, expired |-> FALSE]
  <2>1. jobs' = Append(jobs, row)
    BY <1>3 DEF InsertJob
  <2>2. row.status = "queued"
    OBVIOUS
  <2> HIDE DEF row
  <2>3. jobs \in Seq(JobRow)
    BY DEF TypeOK
  <2>4. /\ DOMAIN jobs \subseteq DOMAIN jobs'
        /\ \A j \in DOMAIN jobs' : j \in DOMAIN jobs \/ jobs'[j] = row
        /\ \A j \in DOMAIN jobs : jobs'[j] = jobs[j]
    BY <2>1, <2>3
  <2>5. Tame /\ FinishedStep
    BY <2>2, <2>4 DEF Tame, Over, FinishedStep
  <2>6. UNCHANGED <<agent, calls, ran, stale>>
    BY <1>3 DEF InsertJob, vps
  <2> QED
    BY <2>5, <2>6, TameKeeps
<1>4. CASE CancelOthers(h)
  <2>1. /\ OpsSame
        /\ \A j \in DOMAIN jobs :
             \/ jobs'[j] = jobs[j]
             \/ /\ jobs'[j].status = "cancelled" /\ jobs'[j].lockedBy = NoAgent
                /\ jobs'[j].attempts = jobs[j].attempts /\ jobs[j].status \in Active
    BY <1>4, CancelledRows DEF CancelOthers
  <2>2. Tame
    BY <2>1 DEF Tame, OpsSame, Over
  <2>3. FinishedStep
    BY <2>1 DEF FinishedStep, Active, Waiting, Leased, Finished
  <2>4. UNCHANGED <<agent, calls, ran, stale>>
    BY <1>4 DEF CancelOthers, vps
  <2> QED
    BY <2>2, <2>3, <2>4, TameKeeps
<1>5. ASSUME NEW a \in Agents, CallServed(a, h) PROVE Claims' /\ FinishedStep
  <2> DEFINE c == Call(a)
  <2>1. /\ agent[a].pc \in {"applying", "complete", "fail"}
        /\ Serve(c, h)
        /\ UNCHANGED <<calls, conf, kernel, ran>>
        /\ agent' = [agent EXCEPT ![a] = IF agent[a].pc = "applying" /\ Accepted(c)
                                         THEN [agent[a] EXCEPT !.pc = "start"] ELSE IdleAgent]
    BY <1>5 DEF CallServed
  <2>2. c \in CallRecord /\ c.job \in DOMAIN jobs
    BY <2>1, CallType
  <2>3. c.job = agent[a].job /\ c.attempt = agent[a].attempt /\ c.kind = agent[a].pc
    BY DEF Call
  <2>4. Works(a)
    BY <2>1 DEF Works
  <2>5. Held(c)
    BY <2>3, <2>4 DEF Held, Holds
  <2> HIDE DEF c
  <2>6. /\ \A b \in Agents \ {a} : agent'[b] = agent[b]
        /\ \/ agent'[a].pc = "idle"
           \/ /\ agent[a].pc = "applying" /\ agent'[a].pc = "start"
              /\ agent'[a].job = agent[a].job /\ agent'[a].attempt = agent[a].attempt
              /\ agent'[a].key = agent[a].key
    BY <2>1 DEF TypeOK, AgentState, IdleAgent
  <2>7. \A b \in Agents : Works(b)' =>
          /\ Works(b)
          /\ agent'[b].job = agent[b].job
          /\ agent'[b].attempt = agent[b].attempt
          /\ agent'[b].key = agent[b].key
          /\ agent'[b].pc = "complete" => agent[b].pc = "complete"
    BY <2>6 DEF Works
  <2>8. c.kind # "applying" =>
          /\ \A b \in Agents : Works(b)' => ~Holds(agent[b], c.job, c.attempt)
          /\ \A d \in calls' : ~Holds(d, c.job, c.attempt)
    <3> SUFFICES ASSUME c.kind # "applying"
                 PROVE  /\ \A b \in Agents : Works(b)' => ~Holds(agent[b], c.job, c.attempt)
                        /\ \A d \in calls : ~Holds(d, c.job, c.attempt)
      BY <2>1
    <3>1. \A b \in Agents : Works(b)' => b # a /\ Works(b)
      BY <2>3, <2>6 DEF Works
    <3> QED
      BY <2>3, <2>4, <3>1 DEF Claims, OneHolder, Holds
  <2>9. c.kind = "complete" /\ Current(c) => <<c.job, c.attempt, jobs[c.job].key>> \in ran
    BY <2>3, <2>4 DEF Claims, RanKnown, KeyKnown, Current
  <2>10. calls' \subseteq calls /\ UNCHANGED ran
    BY <2>1
  <2> QED
    BY <2>1, <2>2, <2>5, <2>7, <2>8, <2>9, <2>10, ServeKeeps DEF FinishedStep
<1>6. ASSUME NEW c \in calls, LateCallServed(c, h) PROVE Claims' /\ FinishedStep
  <2>1. Serve(c, h) /\ calls' = calls \ {c} /\ UNCHANGED <<agent, conf, kernel, ran>>
    BY <1>6 DEF LateCallServed
  <2>2. c \in CallRecord /\ c.job \in DOMAIN jobs
    BY DEF TypeOK, Refer
  <2>3. /\ \A b \in Agents : Works(b) => ~Holds(agent[b], c.job, c.attempt)
        /\ \A d \in calls' : ~Holds(d, c.job, c.attempt)
    BY <2>1 DEF Claims, OneHolder
  <2>4. c.kind = "complete" /\ Current(c) => <<c.job, c.attempt, jobs[c.job].key>> \in ran
    BY DEF Claims, RanKnown
  <2>5. Held(c) /\ calls' \subseteq calls
    BY <2>1 DEF Held
  <2> QED
    BY <2>1, <2>2, <2>3, <2>4, <2>5, ServeKeeps DEF FinishedStep, Works
<1>7. CASE UNCHANGED <<jobs, agent, calls, ran, stale>>
  BY <1>1, <1>7
<1>8. \/ UNCHANGED <<jobs, agent, calls, ran, stale>>
      \/ QueueJob(h) \/ InsertJob(h) \/ CancelOthers(h)
      \/ (\E a \in Agents : CallServed(a, h)) \/ (\E c \in calls : LateCallServed(c, h))
  BY DEF HandlerNext, QueuePeerUpsert, QueueRouterConfigure, QueuePeerRemoval, Ask,
         ApplyRouterJobStatus, LoadRouter, FindConfigure, ServerCrash, vps
<1>9. CASE (QueueJob(h) \/ InsertJob(h)) /\ UNCHANGED jobs
  BY <1>1, <1>9 DEF QueueJob, InsertJob, vps
<1> QED
  BY <1>2, <1>3, <1>4, <1>5, <1>6, <1>7, <1>8, <1>9

LEMMA AgentClaims ==
  ASSUME TypeOK, Refer, Claims, NEW a \in Agents, AgentNext(a)
  PROVE  Claims' /\ FinishedStep
<1>1. ASSUME NEW j \in DOMAIN jobs, ClaimJob(a, j) \/ ClaimLost(a, j)
      PROVE  Claims' /\ FinishedStep
  <2>1. /\ ~Works(a) /\ Claim(a, j) /\ jobs[j].status \in Active
        /\ UNCHANGED <<calls, ran, stale>>
        /\ \/ UNCHANGED agent
           \/ agent' = [agent EXCEPT ![a] = [pc |-> "applying", job |-> j, key |-> jobs[j].key,
                                             attempt |-> jobs[j].attempts + 1]]
    BY <1>1 DEF ClaimJob, ClaimLost, Claimable, Active, Works, vps
  <2>2. Claims'
    BY <2>1, ClaimKeeps
  <2>3. OthersSame(j)
    BY <2>1, ClaimRow
  <2>4. jobs[j].status \notin Finished
    BY <2>1 DEF Active, Waiting, Leased, Finished
  <2> QED
    BY <2>2, <2>3, <2>4 DEF FinishedStep, OthersSame
<1>2. ASSUME Works(a), UNCHANGED <<server, calls>>, ran \subseteq ran',
             NEW pc \in {"start", "persist", "set", "unset", "complete", "fail"}, Advance(a, pc),
             pc = "complete" => <<agent[a].job, agent[a].attempt, agent[a].key>> \in ran'
      PROVE  Claims' /\ FinishedStep
  <2>1. /\ \A b \in Agents \ {a} : agent'[b] = agent[b]
        /\ agent'[a].job = agent[a].job /\ agent'[a].attempt = agent[a].attempt
        /\ agent'[a].key = agent[a].key /\ agent'[a].pc = pc
    BY <1>2 DEF Advance, TypeOK, AgentState
  <2>2. UNCHANGED <<jobs, stale>> /\ calls' = calls
    BY <1>2 DEF server
  <2>3. Claims'
    BY <1>2, <2>1, <2>2, AgentKeeps
  <2> QED
    BY <2>2, <2>3 DEF FinishedStep
<1>3. ASSUME Works(a), UNCHANGED <<server, calls>>, CarriedOut(a) \/ Verify(a)
      PROVE  Claims' /\ FinishedStep
  <2>1. CASE CarriedOut(a)
    BY <1>2, <1>3, <2>1 DEF CarriedOut
  <2>2. CASE Advance(a, "fail") /\ UNCHANGED ran
    BY <1>2, <1>3, <2>2
  <2> QED
    BY <1>3, <2>1, <2>2 DEF Verify
<1>4. ASSUME Works(a), UNCHANGED <<server, ran>>, agent' = [agent EXCEPT ![a] = IdleAgent],
             calls' = calls \/ calls' = calls \union {Call(a)}
      PROVE  Claims' /\ FinishedStep
  <2>1. /\ \A b \in Agents \ {a} : agent'[b] = agent[b]
        /\ agent'[a].pc = "idle"
    BY <1>4 DEF TypeOK, IdleAgent
  <2>2. UNCHANGED <<jobs, stale>>
    BY <1>4 DEF server
  <2>3. Claims'
    BY <1>4, <2>1, <2>2, AgentKeeps
  <2> QED
    BY <2>2, <2>3 DEF FinishedStep
<1>5. CASE GiveUp(a) \/ AgentCrash(a)
  BY <1>4, <1>5 DEF GiveUp, AgentCrash, Works
<1>6. CASE RemoveStalePeer(a) \/ PersistPeer(a) \/ UnpersistPeer(a) \/ ApplyFails(a)
  BY <1>2, <1>6 DEF RemoveStalePeer, PersistPeer, UnpersistPeer, ApplyFails, Works
<1>7. CASE SetPeer(a) \/ UnsetPeer(a) \/ ConfigureRouter(a)
  BY <1>3, <1>7 DEF SetPeer, UnsetPeer, ConfigureRouter, Works
<1> QED
  BY <1>1, <1>5, <1>6, <1>7 DEF AgentNext

LEMMA ClaimsStep == TypeOK /\ Refer /\ Claims /\ [Next]_vars => Claims' /\ [FinishedStep]_vars
<1> SUFFICES ASSUME TypeOK, Refer, Claims, [Next]_vars PROVE Claims' /\ [FinishedStep]_vars
  OBVIOUS
<1>1. ASSUME NEW j \in DOMAIN jobs, LeaseExpires(j) PROVE Claims' /\ FinishedStep
  <2>1. /\ OpsSame /\ OthersSame(j) /\ jobs'[j].status = jobs[j].status
        /\ jobs'[j].attempts = jobs[j].attempts /\ jobs'[j].key = jobs[j].key
        /\ jobs'[j].lockedBy = jobs[j].lockedBy
    BY <1>1, LeaseRow DEF LeaseExpires
  <2>2. jobs[j].status \in Leased
    BY <1>1 DEF LeaseExpires
  <2>3. Tame /\ FinishedStep
    BY <2>1, <2>2 DEF Tame, OpsSame, OthersSame, Over, FinishedStep, Finished, Leased
  <2>4. UNCHANGED <<agent, calls, ran, stale>>
    BY <1>1 DEF LeaseExpires, vps
  <2> QED
    BY <2>3, <2>4, TameKeeps
<1>2. CASE UNCHANGED vars
  <2>1. UNCHANGED <<agent, calls, ran, stale>> /\ Tame
    BY <1>2 DEF vars, Tame, Over
  <2> QED
    BY <1>2, <2>1, TameKeeps
<1> QED
  BY <1>1, <1>2, HandlerClaims, AgentClaims DEF Next

LEMMA ClaimsInit == Init => Claims
BY DEF Init, Claims, AttemptsKnown, OneHolder, NoneLeft, KeyKnown, RanKnown, CancelledFree,
       SucceededMeansApplied, Works, IdleAgent

\* A row that says succeeded was carried out to the end, in its last claim and with the key it has,
\* unless a report of an earlier claim was accepted: for any number of agents and late calls.
THEOREM AppliedJobs == Spec => []SucceededMeansApplied
<1>1. Claims => SucceededMeansApplied
  BY DEF Claims
<1>2. TypeOK /\ Refer /\ Claims /\ [Next]_vars => Claims'
  BY ClaimsStep
<1> QED
  BY <1>1, <1>2, ClaimsInit, TypeCorrectness, PTL DEF Spec

\* No step changes a finished row unless it accepts a report of an earlier claim.
THEOREM FinishedJobs == Spec => FinishedStays
<1>1. TypeOK /\ Refer /\ Claims /\ [Next]_vars => Claims'
  BY ClaimsStep
<1>2. TypeOK /\ Refer /\ Claims /\ [Next]_vars => [FinishedStep]_vars
  BY ClaimsStep
<1>3. Spec => [][FinishedStep]_vars
  BY <1>1, <1>2, ClaimsInit, TypeCorrectness, PTL DEF Spec
<1> QED
  BY <1>3 DEF FinishedStays, FinishedStep

-----------------------------------------------------------------------------
(* wg0.conf against the running interface.  A job that was begun and not   *)
(* finished still stands in the queue, and says which way the two differ.  *)

Alone == \A a, b \in Agents : a = b

\* Job j is open or failed, and nobody is about to report its last claim complete.
Undone(j) ==
  /\ jobs[j].status \in Active \union {"failed"}
  /\ \A a \in Agents : agent[a].pc = "complete" => ~Holds(agent[a], j, jobs[j].attempts)
  /\ \A c \in calls : c.kind = "complete" => ~Holds(c, j, jobs[j].attempts)

\* It may have left the file and the interface apart: a removal has taken its key out of the file.
HalfDone(j) ==
  /\ Undone(j)
  /\ \/ jobs[j].op = "upsert"
     \/ jobs[j].op = "remove" /\ conf = NoKey /\ kernel = jobs[j].key

Removing(h) == req[h].pc \in {"findConfigure", "queue", "insert"} /\ req[h].op = "remove"

\* All removals of the router are of one key: it is deleted once.
RemovalKey(key) ==
  /\ \A j \in DOMAIN jobs : jobs[j].op = "remove" => jobs[j].key = key
  /\ \A h \in Handlers : Removing(h) => req[h].key = key
  /\ \A a \in Agents : Works(a) /\ Op(a) = "remove" => agent[a].key = key

NoRemoval ==
  /\ \A j \in DOMAIN jobs : jobs[j].op # "remove"
  /\ \A h \in Handlers : ~Removing(h)

OneRemoval == /\ \E key \in Keys \union {NoKey} : RemovalKey(key)
              /\ ~router.deleted => NoRemoval

LastClaim == \A a \in Agents : Works(a) => agent[a].attempt = jobs[agent[a].job].attempts

\* What the agent knows between two commands.
AtCommand ==
  \A a \in Agents :
    /\ agent[a].pc \in {"persist", "set"} => Op(a) = "upsert"
    /\ agent[a].pc = "set" => conf = agent[a].key
    /\ agent[a].pc = "unset" =>
         Op(a) = "remove" /\ agent[a].key # NoKey /\ conf # agent[a].key

Traced == ~stale /\ conf # kernel => \E j \in DOMAIN jobs : HalfDone(j)

LEMMA UndoneKept ==
  ASSUME NEW j \in DOMAIN jobs, Undone(j),
         jobs'[j].status \in Active \union {"failed"}, jobs'[j].attempts = jobs[j].attempts,
         \A a \in Agents : agent'[a].pc = "complete" =>
           \/ agent[a].pc = "complete" /\ agent'[a].job = agent[a].job
                                       /\ agent'[a].attempt = agent[a].attempt
           \/ agent'[a].job # j,
         \A c \in calls' : c \in calls \/ \E a \in Agents : c = Call(a)
  PROVE  Undone(j)'
<1>1. ASSUME NEW c \in calls', c.kind = "complete"
      PROVE  ~Holds(c, j, jobs[j].attempts)
  BY <1>1 DEF Undone, Call, Holds
<1> QED BY <1>1 DEF Undone, Holds

LEMMA HalfDoneKept ==
  ASSUME NEW j \in DOMAIN jobs, HalfDone(j), Undone(j)', jobs'[j].op = jobs[j].op,
         jobs'[j].key = jobs[j].key \/ jobs[j].op = "upsert", UNCHANGED <<conf, kernel>>
  PROVE  HalfDone(j)'
BY DEF HalfDone

\* Steps that pass keys on, from a handler to a row and from a row to an agent.
LEMMA RemovalKept ==
  ASSUME Refer, OneRemoval, ~router'.deleted => ~router.deleted,
         DOMAIN jobs \subseteq DOMAIN jobs',
         \A j \in DOMAIN jobs : jobs'[j].op = jobs[j].op,
         \A h \in Handlers : Removing(h)' => Removing(h) /\ req'[h].key = req[h].key,
         \A j \in DOMAIN jobs' : jobs'[j].op = "remove" =>
           \/ j \in DOMAIN jobs /\ jobs'[j].key = jobs[j].key
           \/ \E h \in Handlers : Removing(h) /\ jobs'[j].key = req[h].key,
         \A a \in Agents : Works(a)' =>
           \/ Works(a) /\ agent'[a].job = agent[a].job /\ agent'[a].key = agent[a].key
           \/ agent'[a].job \in DOMAIN jobs /\ agent'[a].key = jobs[agent'[a].job].key
  PROVE  OneRemoval'
<1>1. PICK key \in Keys \union {NoKey} : RemovalKey(key)
  BY DEF OneRemoval
<1>2. \A a \in Agents : Works(a) => agent[a].job \in DOMAIN jobs
  BY DEF Refer, Works
<1>3. \A a \in Agents : Works(a)' /\ Op(a)' = "remove" => agent'[a].key = key
  BY <1>1, <1>2 DEF RemovalKey, Op
<1>4. \A j \in DOMAIN jobs' : jobs'[j].op = "remove" => jobs'[j].key = key
  BY <1>1 DEF RemovalKey
<1>5. \A h \in Handlers : Removing(h)' => req'[h].key = key
  BY <1>1 DEF RemovalKey
<1>6. ~router'.deleted => NoRemoval'
  <2>1. ASSUME NoRemoval PROVE NoRemoval'
    <3>1. \A h \in Handlers : ~Removing(h)'
      BY <2>1 DEF NoRemoval
    <3>2. ASSUME NEW j \in DOMAIN jobs', jobs'[j].op = "remove" PROVE FALSE
      BY <2>1, <3>2 DEF NoRemoval
    <3> QED BY <3>1, <3>2 DEF NoRemoval
  <2> QED BY <2>1 DEF OneRemoval
<1>7. RemovalKey(key)'
  BY <1>3, <1>4, <1>5 DEF RemovalKey
<1> QED BY <1>6, <1>7 DEF OneRemoval

\* The deletion of the router is the only source of removals.
LEMMA RemovalBegins ==
  ASSUME TypeOK, Refer, OneRemoval, NEW h \in Handlers, NEW key \in Keys \union {NoKey},
         QueuePeerRemoval(h, key)
  PROVE  OneRemoval'
<1>1. /\ NoRemoval /\ router'.deleted /\ UNCHANGED <<jobs, agent>>
      /\ req'[h].key = key /\ \A g \in Handlers \ {h} : req'[g] = req[g]
  BY DEF QueuePeerRemoval, Ask, OneRemoval, TypeOK, vps
<1>2. \A a \in Agents : Works(a) => agent[a].job \in DOMAIN jobs
  BY DEF Refer, Works
<1>3. RemovalKey(key)'
  BY <1>1, <1>2 DEF RemovalKey, NoRemoval, Removing, Works, Op
<1> QED BY <1>1, <1>3 DEF OneRemoval

LEMMA HandlerRemoval ==
  ASSUME TypeOK, Refer, OneRemoval, NEW h \in Handlers, HandlerNext(h)
  PROVE  OneRemoval'
<1>1. ASSUME ~router'.deleted => ~router.deleted, UNCHANGED <<jobs, agent>>,
             \A g \in Handlers \ {h} : req'[g] = req[g],
             Removing(h)' => Removing(h) /\ req'[h].key = req[h].key
      PROVE  OneRemoval'
  BY <1>1, RemovalKept DEF Removing, Works
<1>2. CASE \E key \in Keys : QueuePeerUpsert(h, key)
  BY <1>1, <1>2 DEF QueuePeerUpsert, Ask, Removing, TypeOK, vps
<1>3. CASE QueueRouterConfigure(h) \/ FindConfigure(h) \/ LoadRouter(h) \/ ServerCrash(h)
  <2>1. /\ ~router'.deleted => ~router.deleted
        /\ UNCHANGED <<jobs, agent>>
    BY <1>3 DEF QueueRouterConfigure, FindConfigure, LoadRouter, ServerCrash, TypeOK, vps
  <2>2. \A g \in Handlers \ {h} : req'[g] = req[g]
    BY <1>3 DEF QueueRouterConfigure, FindConfigure, LoadRouter, ServerCrash, TypeOK
  <2>3. Removing(h)' => Removing(h) /\ req'[h].key = req[h].key
    <3>1. IdleHandler.pc = "idle" /\ FindConfigureJob.op = "configure"
      BY DEF IdleHandler, FindConfigureJob
    <3>2. CASE QueueRouterConfigure(h) \/ LoadRouter(h) \/ ServerCrash(h)
      <4>1. req'[h] \in {IdleHandler, FindConfigureJob}
        BY <3>2 DEF QueueRouterConfigure, LoadRouter, ServerCrash, TypeOK
      <4> QED BY <3>1, <4>1 DEF Removing
    <3>3. CASE FindConfigure(h)
      BY <3>1, <3>3 DEF FindConfigure, Removing, TypeOK, HandlerState
    <3> QED BY <1>3, <3>2, <3>3
  <2> QED BY <1>1, <2>1, <2>2, <2>3
<1>4. CASE ApplyRouterJobStatus(h)
  BY <1>1, <1>4 DEF ApplyRouterJobStatus, AfterRouterStatus, Removing, IdleHandler, TypeOK,
                    HandlerState, vps
<1>5. CASE \E key \in Keys \union {NoKey} : QueuePeerRemoval(h, key)
  BY <1>5, RemovalBegins
<1>6. CASE QueueJob(h)
  <2>1. CASE UNCHANGED jobs /\ req' = [req EXCEPT ![h].pc = "insert"]
    BY <1>1, <1>6, <2>1 DEF QueueJob, Removing, TypeOK, HandlerState, vps
  <2>2. CASE \E j \in ActiveRows(req[h].op) : Reset(j, req[h].key) /\ req' = [req EXCEPT ![h] = IdleHandler]
    <3>1. PICK j \in ActiveRows(req[h].op) : Reset(j, req[h].key)
      BY <2>2
    <3>2. j \in DOMAIN jobs /\ jobs[j].op = req[h].op /\ req[h].key \in Keys \union {NoKey}
      BY DEF ActiveRows, TypeOK, HandlerState
    <3>3. OpsSame /\ OthersSame(j) /\ jobs'[j].key = req[h].key
      BY <3>1, <3>2, ResetRow
    <3>4. /\ \A g \in Handlers : Removing(g)' => Removing(g) /\ req'[g].key = req[g].key
          /\ UNCHANGED <<router, agent>> /\ req[h].pc = "queue"
      BY <1>6, <2>2 DEF QueueJob, Removing, IdleHandler, TypeOK, vps
    <3>5. \A i \in DOMAIN jobs' : jobs'[i].op = "remove" =>
            \/ i \in DOMAIN jobs /\ jobs'[i].key = jobs[i].key
            \/ \E g \in Handlers : Removing(g) /\ jobs'[i].key = req[g].key
      BY <3>2, <3>3, <3>4 DEF OpsSame, OthersSame, Removing
    <3> QED BY <3>3, <3>4, <3>5, RemovalKept DEF OpsSame, Works
  <2> QED BY <1>6, <2>1, <2>2 DEF QueueJob
<1>7. CASE InsertJob(h)
  <2>1. CASE UNCHANGED jobs
    BY <1>1, <1>7, <2>1 DEF InsertJob, Removing, IdleHandler, TypeOK, HandlerState, vps
  <2>2. CASE ~UNCHANGED jobs
    <3> DEFINE row == [op |-> req[h].op, status |-> "queued", key |-> req[h].key, attempts |-> 0,
                       lockedBy |-> NoAgent, expired |-> FALSE]
    <3>1. jobs' = Append(jobs, row)
      BY <1>7, <2>2 DEF InsertJob
    <3>2. row.op = req[h].op /\ row.key = req[h].key
      OBVIOUS
    <3> HIDE DEF row
    <3>3. jobs \in Seq(JobRow)
      BY DEF TypeOK
    <3>4. /\ DOMAIN jobs \subseteq DOMAIN jobs'
          /\ \A j \in DOMAIN jobs' : j \in DOMAIN jobs \/ jobs'[j] = row
          /\ \A j \in DOMAIN jobs : jobs'[j] = jobs[j]
      BY <3>1, <3>3
    <3>5. /\ \A g \in Handlers : Removing(g)' => Removing(g) /\ req'[g].key = req[g].key
          /\ UNCHANGED <<router, agent>> /\ req[h].pc = "insert"
      BY <1>7 DEF InsertJob, Removing, IdleHandler, TypeOK, vps
    <3>6. \A i \in DOMAIN jobs' : jobs'[i].op = "remove" =>
            \/ i \in DOMAIN jobs /\ jobs'[i].key = jobs[i].key
            \/ \E g \in Handlers : Removing(g) /\ jobs'[i].key = req[g].key
      BY <3>2, <3>4, <3>5 DEF Removing
    <3> QED BY <3>4, <3>5, <3>6, RemovalKept DEF Works
  <2> QED BY <2>1, <2>2
<1>8. CASE CancelOthers(h)
  <2>1. /\ OpsSame
        /\ \A j \in DOMAIN jobs :
             \/ jobs'[j] = jobs[j]
             \/ /\ jobs'[j].status = "cancelled" /\ jobs'[j].lockedBy = NoAgent
                /\ jobs'[j].attempts = jobs[j].attempts /\ jobs[j].status \in Active
                /\ jobs[j].op = "configure"
    <3>1. jobs' = [j \in DOMAIN jobs |->
                     IF j \in Others(h)
                     THEN [jobs[j] EXCEPT !.status = "cancelled", !.lockedBy = NoAgent,
                                          !.expired = FALSE]
                     ELSE jobs[j]]
      BY <1>8, Zenon DEF CancelOthers
    <3> QED BY <3>1, CancelledRows, Zenon
  <2>2. /\ \A g \in Handlers : Removing(g)' => Removing(g) /\ req'[g].key = req[g].key
        /\ UNCHANGED <<router, agent>>
    <3>1. req' = [req EXCEPT ![h] = IdleHandler] /\ UNCHANGED <<router, agent>>
      BY <1>8, Zenon DEF CancelOthers, vps
    <3> QED BY <3>1 DEF Removing, IdleHandler, TypeOK
  <2> QED BY <2>1, <2>2, RemovalKept DEF OpsSame, Works
<1>9. ASSUME NEW c \in CallRecord, c.job \in DOMAIN jobs, Serve(c, h),
             \A a \in Agents : Works(a)' =>
               Works(a) /\ agent'[a].job = agent[a].job /\ agent'[a].key = agent[a].key
      PROVE  OneRemoval'
  <2>1. /\ OpsSame
        /\ \A j \in DOMAIN jobs : jobs'[j].key = jobs[j].key
    <3>1. CASE Accepted(c)
      BY <1>9, <3>1, ReportRow DEF Serve, OpsSame, OthersSame
    <3>2. CASE ~Accepted(c)
      BY <1>9, <3>2 DEF Serve, OpsSame
    <3> QED BY <3>1, <3>2
  <2>2. /\ \A g \in Handlers : Removing(g)' => Removing(g) /\ req'[g].key = req[g].key
        /\ UNCHANGED router
    BY <1>9, StatusAfterType DEF Serve, Reports, Removing, IdleHandler, TypeOK
  <2> QED BY <1>9, <2>1, <2>2, RemovalKept DEF OpsSame
<1>10. ASSUME NEW a \in Agents, CallServed(a, h) PROVE OneRemoval'
  <2>1. Call(a) \in CallRecord /\ Call(a).job \in DOMAIN jobs
    BY <1>10, CallType DEF CallServed
  <2>2. \A b \in Agents : Works(b)' =>
          Works(b) /\ agent'[b].job = agent[b].job /\ agent'[b].key = agent[b].key
    BY <1>10 DEF CallServed, Works, IdleAgent, TypeOK, AgentState
  <2> QED BY <1>9, <1>10, <2>1, <2>2 DEF CallServed
<1>11. ASSUME NEW c \in calls, LateCallServed(c, h) PROVE OneRemoval'
  <2>1. c \in CallRecord /\ c.job \in DOMAIN jobs
    BY DEF TypeOK, Refer
  <2> QED BY <1>9, <1>11, <2>1 DEF LateCallServed, Works
<1> QED BY <1>2, <1>3, <1>4, <1>5, <1>6, <1>7, <1>8, <1>10, <1>11 DEF HandlerNext

LEMMA RemovalStep == TypeOK /\ Refer /\ OneRemoval /\ [Next]_vars => OneRemoval'
<1> SUFFICES ASSUME TypeOK, Refer, OneRemoval, [Next]_vars PROVE OneRemoval'
  OBVIOUS
<1>1. ASSUME NEW a \in Agents, AgentNext(a) PROVE OneRemoval'
  <2>1. ASSUME NEW j \in DOMAIN jobs, ClaimJob(a, j) \/ ClaimLost(a, j) PROVE OneRemoval'
    <3>1. Claim(a, j) /\ UNCHANGED <<req, router>>
      BY <2>1 DEF ClaimJob, ClaimLost
    <3>2. OpsSame /\ \A i \in DOMAIN jobs : jobs'[i].key = jobs[i].key
      BY <3>1, ClaimRow DEF OpsSame, OthersSame
    <3>3. \A b \in Agents : Works(b)' =>
            \/ Works(b) /\ agent'[b].job = agent[b].job /\ agent'[b].key = agent[b].key
            \/ agent'[b].job \in DOMAIN jobs /\ agent'[b].key = jobs[agent'[b].job].key
      BY <2>1 DEF ClaimJob, ClaimLost, Works, TypeOK, vps
    <3> QED BY <3>1, <3>2, <3>3, RemovalKept DEF OpsSame, Removing
  <2>2. ASSUME UNCHANGED server,
               \A b \in Agents : Works(b)' =>
                 Works(b) /\ agent'[b].job = agent[b].job /\ agent'[b].key = agent[b].key
        PROVE  OneRemoval'
    BY <2>2, RemovalKept DEF server, Removing
  <2>3. ASSUME Works(a), UNCHANGED server, NEW pc, Advance(a, pc) PROVE OneRemoval'
    BY <2>2, <2>3 DEF Advance, Works, TypeOK, AgentState
  <2>4. ASSUME UNCHANGED server, agent' = [agent EXCEPT ![a] = IdleAgent] PROVE OneRemoval'
    BY <2>2, <2>4 DEF Works, TypeOK, IdleAgent
  <2>5. CASE GiveUp(a) \/ AgentCrash(a)
    BY <2>4, <2>5 DEF GiveUp, AgentCrash
  <2>6. CASE RemoveStalePeer(a) \/ PersistPeer(a) \/ UnpersistPeer(a) \/ ApplyFails(a)
    BY <2>3, <2>6 DEF RemoveStalePeer, PersistPeer, UnpersistPeer, ApplyFails, Works
  <2>7. CASE SetPeer(a) \/ UnsetPeer(a) \/ ConfigureRouter(a)
    BY <2>3, <2>7 DEF SetPeer, UnsetPeer, ConfigureRouter, Verify, CarriedOut, Works
  <2> QED BY <1>1, <2>1, <2>5, <2>6, <2>7 DEF AgentNext
<1>2. ASSUME NEW j \in DOMAIN jobs, LeaseExpires(j) PROVE OneRemoval'
  <2>1. OpsSame /\ \A i \in DOMAIN jobs : jobs'[i].key = jobs[i].key
    BY <1>2, LeaseRow DEF LeaseExpires, OpsSame, OthersSame
  <2> QED BY <1>2, <2>1, RemovalKept DEF LeaseExpires, OpsSame, Removing, Works, vps
<1>3. CASE UNCHANGED vars
  BY <1>3, RemovalKept DEF vars, Removing, Works
<1> QED BY <1>1, <1>2, <1>3, HandlerRemoval DEF Next

\* Steps that claim nothing and go on with no command.
LEMMA CommandKept ==
  ASSUME Refer, LastClaim, AtCommand, UNCHANGED conf,
         \A j \in DOMAIN jobs : jobs'[j].op = jobs[j].op /\ jobs'[j].attempts = jobs[j].attempts,
         \A a \in Agents : Works(a)' =>
           /\ Works(a)
           /\ agent'[a].job = agent[a].job /\ agent'[a].attempt = agent[a].attempt
           /\ agent'[a].key = agent[a].key
           /\ agent'[a].pc = agent[a].pc \/ agent'[a].pc \notin {"persist", "set", "unset"}
  PROVE  LastClaim' /\ AtCommand'
<1>1. \A a \in Agents : Works(a) => agent[a].job \in DOMAIN jobs
  BY DEF Refer, Works
<1>2. LastClaim'
  BY <1>1 DEF LastClaim
<1>3. AtCommand'
  <2> SUFFICES ASSUME NEW a \in Agents, agent'[a].pc \in {"persist", "set", "unset"}
               PROVE  /\ agent'[a].pc \in {"persist", "set"} => Op(a)' = "upsert"
                      /\ agent'[a].pc = "set" => conf' = agent'[a].key
                      /\ agent'[a].pc = "unset" =>
                           Op(a)' = "remove" /\ agent'[a].key # NoKey /\ conf' # agent'[a].key
    BY DEF AtCommand
  <2>1. Works(a)' /\ Works(a) /\ agent'[a].pc = agent[a].pc
    BY DEF Works
  <2>2. Op(a)' = Op(a) /\ agent'[a].key = agent[a].key
    BY <1>1, <2>1 DEF Op
  <2> QED BY <2>1, <2>2 DEF AtCommand
<1> QED BY <1>2, <1>3

\* The rows of a report keep operation, attempts and key.
LEMMA ServedRows ==
  ASSUME TypeOK, NEW c \in CallRecord, c.job \in DOMAIN jobs, NEW h \in Handlers, Serve(c, h)
  PROVE  /\ OpsSame
         /\ \A j \in DOMAIN jobs : /\ jobs'[j].attempts = jobs[j].attempts
                                   /\ jobs'[j].key = jobs[j].key
         /\ Accepted(c) => /\ OthersSame(c.job)
                           /\ jobs'[c.job].status = StatusAfter(c)
                           /\ stale' = (stale \/ c.attempt # jobs[c.job].attempts)
         /\ ~Accepted(c) => UNCHANGED <<jobs, stale>>
<1>1. CASE Accepted(c)
  <2>1. UpdateClaimedJob(c)
    BY <1>1 DEF Serve
  <2>2. /\ OpsSame /\ OthersSame(c.job)
        /\ jobs'[c.job].status = StatusAfter(c)
        /\ jobs'[c.job].attempts = jobs[c.job].attempts
        /\ jobs'[c.job].key = jobs[c.job].key
    BY <2>1, ReportRow
  <2> QED BY <1>1, <2>1, <2>2 DEF OthersSame, UpdateClaimedJob
<1>2. CASE ~Accepted(c)
  BY <1>2 DEF Serve, OpsSame
<1> QED BY <1>1, <1>2

\* What a call that is served does to the agents.
LEMMA ServedAgent ==
  ASSUME TypeOK, NEW a \in Agents, NEW h \in Handlers, CallServed(a, h)
  PROVE  \A b \in Agents : Works(b)' =>
           /\ Works(b)
           /\ agent'[b].job = agent[b].job /\ agent'[b].attempt = agent[b].attempt
           /\ agent'[b].key = agent[b].key
           /\ agent'[b] = agent[b] \/ (b = a /\ agent[a].pc = "applying" /\ agent'[b].pc = "start")
BY DEF CallServed, Works, IdleAgent, TypeOK, AgentState

LEMMA HandlerCommand ==
  ASSUME TypeOK, Refer, LastClaim, AtCommand, NEW h \in Handlers, HandlerNext(h)
  PROVE  LastClaim' /\ AtCommand'
<1>1. ASSUME UNCHANGED <<jobs, agent, conf>> PROVE LastClaim' /\ AtCommand'
  BY <1>1, CommandKept DEF Works
<1>2. ASSUME UNCHANGED <<agent, conf>>,
             \A j \in DOMAIN jobs :
               jobs'[j].op = jobs[j].op /\ jobs'[j].attempts = jobs[j].attempts
      PROVE  LastClaim' /\ AtCommand'
  BY <1>2, CommandKept DEF Works
<1>3. CASE QueueJob(h) /\ ~UNCHANGED jobs
  <2>1. PICK j \in ActiveRows(req[h].op) : Reset(j, req[h].key)
    BY <1>3 DEF QueueJob
  <2>2. j \in DOMAIN jobs /\ req[h].key \in Keys \union {NoKey}
    BY DEF ActiveRows, TypeOK, HandlerState
  <2>3. OpsSame /\ OthersSame(j) /\ jobs'[j].attempts = jobs[j].attempts
    BY <2>1, <2>2, ResetRow
  <2> QED BY <1>2, <1>3, <2>3 DEF QueueJob, OpsSame, OthersSame, vps
<1>4. CASE InsertJob(h) /\ ~UNCHANGED jobs
  <2> DEFINE row == [op |-> req[h].op, status |-> "queued", key |-> req[h].key, attempts |-> 0,
                     lockedBy |-> NoAgent, expired |-> FALSE]
  <2>1. jobs' = Append(jobs, row)
    BY <1>4 DEF InsertJob
  <2> HIDE DEF row
  <2>2. jobs \in Seq(JobRow)
    BY DEF TypeOK
  <2>3. \A j \in DOMAIN jobs : jobs'[j] = jobs[j]
    BY <2>1, <2>2
  <2> QED BY <1>2, <1>4, <2>3 DEF InsertJob, vps
<1>5. CASE CancelOthers(h)
  <2>1. jobs' = [j \in DOMAIN jobs |->
                   IF j \in Others(h)
                   THEN [jobs[j] EXCEPT !.status = "cancelled", !.lockedBy = NoAgent,
                                        !.expired = FALSE]
                   ELSE jobs[j]]
    BY <1>5, Zenon DEF CancelOthers
  <2>2. OpsSame /\ \A j \in DOMAIN jobs : \/ jobs'[j] = jobs[j]
                                          \/ jobs'[j].attempts = jobs[j].attempts
    BY <2>1, CancelledRows, Zenon
  <2>3. UNCHANGED <<agent, conf>>
    BY <1>5, Zenon DEF CancelOthers, vps
  <2> QED BY <1>2, <2>2, <2>3 DEF OpsSame
<1>6. ASSUME NEW a \in Agents, CallServed(a, h) PROVE LastClaim' /\ AtCommand'
  <2>1. Call(a) \in CallRecord /\ Call(a).job \in DOMAIN jobs
    BY <1>6, CallType DEF CallServed
  <2>2. OpsSame /\ \A j \in DOMAIN jobs : jobs'[j].attempts = jobs[j].attempts
    BY <1>6, <2>1, ServedRows DEF CallServed
  <2>3. UNCHANGED conf
    BY <1>6 DEF CallServed
  <2> QED BY <1>6, <2>2, <2>3, ServedAgent, CommandKept DEF OpsSame
<1>7. ASSUME NEW c \in calls, LateCallServed(c, h) PROVE LastClaim' /\ AtCommand'
  <2>1. c \in CallRecord /\ c.job \in DOMAIN jobs
    BY DEF TypeOK, Refer
  <2>2. OpsSame /\ \A j \in DOMAIN jobs : jobs'[j].attempts = jobs[j].attempts
    BY <1>7, <2>1, ServedRows DEF LateCallServed
  <2> QED BY <1>2, <1>7, <2>2 DEF LateCallServed, OpsSame
<1>8. \/ UNCHANGED <<jobs, agent, conf>>
      \/ QueueJob(h) \/ InsertJob(h) \/ CancelOthers(h)
      \/ (\E a \in Agents : CallServed(a, h)) \/ (\E c \in calls : LateCallServed(c, h))
  BY DEF HandlerNext, QueuePeerUpsert, QueueRouterConfigure, QueuePeerRemoval, Ask,
         ApplyRouterJobStatus, LoadRouter, FindConfigure, ServerCrash, vps
<1>9. CASE (QueueJob(h) \/ InsertJob(h)) /\ UNCHANGED jobs
  BY <1>1, <1>9 DEF QueueJob, InsertJob, vps
<1> QED BY <1>1, <1>3, <1>4, <1>5, <1>6, <1>7, <1>8, <1>9

LEMMA AgentCommand ==
  ASSUME Alone, TypeOK, Refer, LastClaim, AtCommand, NEW a \in Agents, AgentNext(a)
  PROVE  LastClaim' /\ AtCommand'
<1>1. \A b \in Agents : b = a
  BY DEF Alone
<1>2. ASSUME NEW j \in DOMAIN jobs, ClaimJob(a, j) \/ ClaimLost(a, j)
      PROVE  LastClaim' /\ AtCommand'
  <2>1. Claim(a, j) /\ ~Works(a)
    BY <1>2 DEF ClaimJob, ClaimLost, Works
  <2>2. jobs'[j].attempts = jobs[j].attempts + 1
    BY <2>1, ClaimRow
  <2>3. Works(a)' => /\ agent'[a].pc = "applying" /\ agent'[a].job = j
                     /\ agent'[a].attempt = jobs[j].attempts + 1
    BY <1>2, <2>1 DEF ClaimJob, ClaimLost, Works, TypeOK, vps
  <2> QED BY <1>1, <2>2, <2>3 DEF LastClaim, AtCommand, Works
<1>3. CASE GiveUp(a) \/ AgentCrash(a)
  <2>1. UNCHANGED <<jobs, conf>> /\ agent'[a].pc = "idle"
    BY <1>3 DEF GiveUp, AgentCrash, server, TypeOK, IdleAgent
  <2> QED BY <1>1, <2>1 DEF LastClaim, AtCommand, Works
<1>4. ASSUME Works(a), UNCHANGED jobs, NEW pc, Advance(a, pc),
             pc \in {"persist", "set"} => Op(a) = "upsert",
             pc = "set" => conf' = agent[a].key,
             pc = "unset" => Op(a) = "remove" /\ agent[a].key # NoKey /\ conf' # agent[a].key
      PROVE  LastClaim' /\ AtCommand'
  <2>1. /\ agent'[a].pc = pc /\ agent'[a].job = agent[a].job /\ agent'[a].key = agent[a].key
        /\ agent'[a].attempt = agent[a].attempt
    BY <1>4 DEF Advance, TypeOK, AgentState
  <2>2. LastClaim'
    BY <1>1, <1>4, <2>1 DEF LastClaim, Works
  <2>3. Op(a)' = Op(a)
    BY <1>4, <2>1 DEF Op
  <2> QED BY <1>1, <1>4, <2>1, <2>2, <2>3 DEF AtCommand
<1>5. CASE RemoveStalePeer(a)
  BY <1>4, <1>5 DEF RemoveStalePeer, Works, server
<1>6. CASE PersistPeer(a)
  BY <1>4, <1>6 DEF PersistPeer, AtCommand, Works, server
<1>7. CASE UnpersistPeer(a)
  BY <1>4, <1>7 DEF UnpersistPeer, Works, server
<1>8. CASE SetPeer(a) \/ UnsetPeer(a) \/ ConfigureRouter(a) \/ ApplyFails(a)
  <2>1. Works(a) /\ UNCHANGED jobs /\ (Advance(a, "complete") \/ Advance(a, "fail"))
    BY <1>8 DEF SetPeer, UnsetPeer, ConfigureRouter, ApplyFails, Verify, CarriedOut, Works, server
  <2> QED BY <1>4, <2>1
<1> QED BY <1>2, <1>3, <1>5, <1>6, <1>7, <1>8 DEF AgentNext

CancelledConfigure == \A j \in DOMAIN jobs : jobs[j].status = "cancelled" => jobs[j].op = "configure"

\* Whoever goes on with a claim has not finished its job: only its own report would have.
LEMMA AtWorkUndone ==
  ASSUME TypeOK, Refer, Claims, LastClaim, ~stale, NEW a \in Agents,
         CancelledConfigure,
         agent[a].pc \in {"start", "persist", "set", "unset"}, Op(a) \in {"upsert", "remove"}
  PROVE  agent[a].job \in DOMAIN jobs /\ Undone(agent[a].job)
<1> DEFINE j == agent[a].job
<1>1. Works(a) /\ j \in DOMAIN jobs
  BY DEF Works, Refer
<1>2. Holds(agent[a], j, jobs[j].attempts)
  BY <1>1 DEF LastClaim, Holds
<1>3. jobs[j].status \in Active \union {"failed"}
  <2>1. ~Over(j)
    BY <1>1, <1>2 DEF Claims, NoneLeft
  <2>2. jobs[j].status \in Active \union Finished /\ jobs[j].status # "cancelled"
    BY <1>1, RowFields DEF CancelledConfigure, Op
  <2> QED BY <2>1, <2>2 DEF Over, Finished
<1>4. \A b \in Agents : agent[b].pc = "complete" => ~Holds(agent[b], j, jobs[j].attempts)
  <2>1. ASSUME NEW b \in Agents, agent[b].pc = "complete", Holds(agent[b], j, jobs[j].attempts)
        PROVE  FALSE
    <3>1. Works(b) /\ Holds(agent[b], agent[a].job, agent[a].attempt)
      BY <1>2, <2>1 DEF Works, Holds
    <3>2. b = a
      BY <1>1, <3>1 DEF Claims, OneHolder
    <3> QED BY <2>1, <3>2
  <2> QED BY <2>1
<1>5. \A c \in calls : c.kind = "complete" => ~Holds(c, j, jobs[j].attempts)
  BY <1>1, <1>2 DEF Claims, OneHolder, Holds
<1> QED BY <1>1, <1>3, <1>4, <1>5 DEF Undone

LEMMA CancelledStep ==
  TypeOK /\ Refer /\ CancelledConfigure /\ [Next]_vars => CancelledConfigure'
<1> SUFFICES ASSUME TypeOK, Refer, CancelledConfigure, [Next]_vars PROVE CancelledConfigure'
  OBVIOUS
<1>1. ASSUME UNCHANGED jobs PROVE CancelledConfigure'
  BY <1>1 DEF CancelledConfigure
<1>2. ASSUME NEW h \in Handlers, HandlerNext(h) PROVE CancelledConfigure'
  <2>1. CASE QueueJob(h) /\ ~UNCHANGED jobs
    <3>1. PICK j \in ActiveRows(req[h].op) : Reset(j, req[h].key)
      BY <2>1 DEF QueueJob
    <3>2. j \in DOMAIN jobs /\ req[h].key \in Keys \union {NoKey}
      BY DEF ActiveRows, TypeOK, HandlerState
    <3>3. OpsSame /\ OthersSame(j) /\ jobs'[j].status = "queued"
      BY <3>1, <3>2, ResetRow
    <3> QED BY <3>3 DEF CancelledConfigure, OpsSame, OthersSame
  <2>2. CASE InsertJob(h) /\ ~UNCHANGED jobs
    <3> DEFINE row == [op |-> req[h].op, status |-> "queued", key |-> req[h].key, attempts |-> 0,
                       lockedBy |-> NoAgent, expired |-> FALSE]
    <3>1. jobs' = Append(jobs, row)
      BY <2>2 DEF InsertJob
    <3>2. row.status = "queued"
      OBVIOUS
    <3> HIDE DEF row
    <3>3. jobs \in Seq(JobRow)
      BY DEF TypeOK
    <3>4. /\ \A j \in DOMAIN jobs' : j \in DOMAIN jobs \/ jobs'[j] = row
          /\ \A j \in DOMAIN jobs : jobs'[j] = jobs[j]
      BY <3>1, <3>3
    <3> QED BY <3>2, <3>4 DEF CancelledConfigure
  <2>3. CASE CancelOthers(h)
    <3>1. jobs' = [j \in DOMAIN jobs |->
                     IF j \in Others(h)
                     THEN [jobs[j] EXCEPT !.status = "cancelled", !.lockedBy = NoAgent,
                                          !.expired = FALSE]
                     ELSE jobs[j]]
      BY <2>3, Zenon DEF CancelOthers
    <3>2. OpsSame /\ \A j \in DOMAIN jobs : jobs'[j] = jobs[j] \/ jobs[j].op = "configure"
      BY <3>1, CancelledRows, Zenon
    <3> QED BY <3>2 DEF CancelledConfigure, OpsSame
  <2>4. ASSUME NEW c \in CallRecord, c.job \in DOMAIN jobs, Serve(c, h) PROVE CancelledConfigure'
    BY <2>4, ServedRows, StatusAfterType DEF CancelledConfigure, OpsSame, OthersSame
  <2>5. ASSUME NEW a \in Agents, CallServed(a, h) PROVE CancelledConfigure'
    BY <2>4, <2>5, CallType DEF CallServed
  <2>6. ASSUME NEW c \in calls, LateCallServed(c, h) PROVE CancelledConfigure'
    BY <2>4, <2>6 DEF LateCallServed, TypeOK, Refer
  <2>7. \/ UNCHANGED jobs
        \/ QueueJob(h) \/ InsertJob(h) \/ CancelOthers(h)
        \/ (\E a \in Agents : CallServed(a, h)) \/ (\E c \in calls : LateCallServed(c, h))
    BY <1>2 DEF HandlerNext, QueuePeerUpsert, QueueRouterConfigure, QueuePeerRemoval, Ask,
                ApplyRouterJobStatus, LoadRouter, FindConfigure, ServerCrash
  <2> QED BY <1>1, <2>1, <2>2, <2>3, <2>5, <2>6, <2>7
<1>3. ASSUME NEW a \in Agents, AgentNext(a) PROVE CancelledConfigure'
  <2>1. ASSUME NEW j \in DOMAIN jobs, ClaimJob(a, j) \/ ClaimLost(a, j) PROVE CancelledConfigure'
    <3>1. Claim(a, j)
      BY <2>1 DEF ClaimJob, ClaimLost
    <3>2. OpsSame /\ OthersSame(j) /\ jobs'[j].status = "claimed"
      BY <3>1, ClaimRow
    <3> QED BY <3>2 DEF CancelledConfigure, OpsSame, OthersSame
  <2>2. UNCHANGED jobs \/ \E j \in DOMAIN jobs : ClaimJob(a, j) \/ ClaimLost(a, j)
    BY <1>3 DEF AgentNext, GiveUp, AgentCrash, RemoveStalePeer, PersistPeer, SetPeer,
                UnpersistPeer, UnsetPeer, ConfigureRouter, ApplyFails, server
  <2> QED BY <1>1, <2>1, <2>2
<1>4. ASSUME NEW j \in DOMAIN jobs, LeaseExpires(j) PROVE CancelledConfigure'
  BY <1>4, LeaseRow DEF LeaseExpires, CancelledConfigure, OpsSame, OthersSame
<1>5. CASE UNCHANGED vars
  BY <1>1, <1>5 DEF vars
<1> QED BY <1>2, <1>3, <1>4, <1>5 DEF Next

LEMMA ReportTraced ==
  ASSUME TypeOK, Refer, NEW c \in CallRecord, c.job \in DOMAIN jobs, NEW h \in Handlers, Serve(c, h),
         c.kind = "complete" =>
           \/ \E a \in Agents : agent[a].pc = "complete" /\ Holds(agent[a], c.job, c.attempt)
           \/ c \in calls,
         Traced, UNCHANGED <<conf, kernel>>, calls' \subseteq calls,
         \A a \in Agents : agent'[a].pc = "complete" =>
           agent[a].pc = "complete" /\ agent'[a].job = agent[a].job
                                    /\ agent'[a].attempt = agent[a].attempt
  PROVE  Traced'
<1> SUFFICES ASSUME ~stale', conf # kernel PROVE \E j \in DOMAIN jobs' : HalfDone(j)'
  BY DEF Traced
<1>1. /\ OpsSame
      /\ \A j \in DOMAIN jobs : /\ jobs'[j].attempts = jobs[j].attempts
                                /\ jobs'[j].key = jobs[j].key
      /\ Accepted(c) => /\ OthersSame(c.job)
                        /\ jobs'[c.job].status = StatusAfter(c)
                        /\ stale' = (stale \/ c.attempt # jobs[c.job].attempts)
      /\ ~Accepted(c) => UNCHANGED <<jobs, stale>>
  BY ServedRows
<1>2. ~stale
  <2>1. Accepted(c) => ~stale
    BY <1>1
  <2>2. ~Accepted(c) => ~stale
    BY <1>1
  <2> QED BY <2>1, <2>2
<1>3. PICK j \in DOMAIN jobs : HalfDone(j)
  BY <1>2 DEF Traced
<1>4. Accepted(c) /\ j = c.job => c.kind # "complete"
  <2> SUFFICES ASSUME Accepted(c), j = c.job, c.kind = "complete" PROVE FALSE
    OBVIOUS
  <2>1. Holds(c, j, jobs[j].attempts)
    BY <1>1 DEF Holds
  <2> QED BY <1>3, <2>1 DEF HalfDone, Undone, Holds
<1>5. jobs'[j].status \in Active \union {"failed"}
  <2>1. CASE Accepted(c) /\ j = c.job
    BY <1>1, <1>4, <2>1 DEF StatusAfter, Active, Waiting, Leased
  <2>2. CASE ~(Accepted(c) /\ j = c.job)
    BY <1>1, <1>3, <2>2 DEF OthersSame, HalfDone, Undone
  <2> QED BY <2>1, <2>2
<1>6. Undone(j)'
  BY <1>1, <1>3, <1>5, UndoneKept DEF HalfDone
<1>7. HalfDone(j)' /\ j \in DOMAIN jobs'
  BY <1>1, <1>3, <1>6, HalfDoneKept DEF OpsSame
<1> QED BY <1>7

LEMMA HandlerTraced ==
  ASSUME TypeOK, Refer, OneRemoval, Traced, NEW h \in Handlers, HandlerNext(h)
  PROVE  Traced'
<1>1. ASSUME UNCHANGED <<agent, calls, conf, kernel, stale>>,
             DOMAIN jobs \subseteq DOMAIN jobs',
             \A j \in DOMAIN jobs :
               \/ jobs'[j] = jobs[j]
               \/ jobs[j].op = "configure"
               \/ /\ jobs'[j].op = jobs[j].op /\ jobs'[j].attempts = jobs[j].attempts
                  /\ jobs'[j].status \in Active
                  /\ jobs'[j].key = jobs[j].key \/ jobs[j].op = "upsert"
      PROVE  Traced'
  <2> SUFFICES ASSUME ~stale, conf # kernel PROVE \E j \in DOMAIN jobs' : HalfDone(j)'
    BY <1>1 DEF Traced
  <2>1. PICK j \in DOMAIN jobs : HalfDone(j)
    BY DEF Traced
  <2>2. /\ jobs'[j].op = jobs[j].op /\ jobs'[j].attempts = jobs[j].attempts
        /\ jobs'[j].status \in Active \union {"failed"}
        /\ jobs'[j].key = jobs[j].key \/ jobs[j].op = "upsert"
    BY <1>1, <2>1 DEF HalfDone, Undone
  <2>3. Undone(j)'
    BY <1>1, <2>1, <2>2, UndoneKept DEF HalfDone
  <2>4. HalfDone(j)' /\ j \in DOMAIN jobs'
    BY <1>1, <2>1, <2>2, <2>3, HalfDoneKept
  <2> QED BY <2>4
<1>2. ASSUME UNCHANGED <<jobs, agent, calls, conf, kernel, stale>> PROVE Traced'
  BY <1>1, <1>2
<1>3. CASE QueueJob(h) /\ ~UNCHANGED jobs
  <2>1. PICK j \in ActiveRows(req[h].op) : Reset(j, req[h].key)
    BY <1>3 DEF QueueJob
  <2>2. j \in DOMAIN jobs /\ jobs[j].op = req[h].op /\ req[h].key \in Keys \union {NoKey}
    BY DEF ActiveRows, TypeOK, HandlerState
  <2>3. /\ OpsSame /\ OthersSame(j) /\ jobs'[j].status = "queued"
        /\ jobs'[j].attempts = jobs[j].attempts /\ jobs'[j].key = req[h].key
    BY <2>1, <2>2, ResetRow
  <2>4. jobs[j].op = "remove" => jobs[j].key = req[h].key
    <3>1. PICK key \in Keys \union {NoKey} : RemovalKey(key)
      BY DEF OneRemoval
    <3>2. req[h].pc = "queue"
      BY <1>3 DEF QueueJob
    <3> QED BY <2>2, <3>1, <3>2 DEF RemovalKey, Removing
  <2>5. jobs[j].op \in {"upsert", "remove", "configure"}
    BY <2>2, RowFields DEF Operations
  <2>6. UNCHANGED <<agent, calls, conf, kernel, stale>>
    BY <1>3 DEF QueueJob, vps
  <2> QED BY <1>1, <2>2, <2>3, <2>4, <2>5, <2>6 DEF OpsSame, OthersSame, Active, Waiting
<1>4. CASE InsertJob(h) /\ ~UNCHANGED jobs
  <2> DEFINE row == [op |-> req[h].op, status |-> "queued", key |-> req[h].key, attempts |-> 0,
                     lockedBy |-> NoAgent, expired |-> FALSE]
  <2>1. jobs' = Append(jobs, row)
    BY <1>4 DEF InsertJob
  <2> HIDE DEF row
  <2>2. jobs \in Seq(JobRow)
    BY DEF TypeOK
  <2>3. DOMAIN jobs \subseteq DOMAIN jobs' /\ \A j \in DOMAIN jobs : jobs'[j] = jobs[j]
    BY <2>1, <2>2
  <2>4. UNCHANGED <<agent, calls, conf, kernel, stale>>
    BY <1>4 DEF InsertJob, vps
  <2> QED BY <1>1, <2>3, <2>4
<1>5. CASE CancelOthers(h)
  <2>1. jobs' = [j \in DOMAIN jobs |->
                   IF j \in Others(h)
                   THEN [jobs[j] EXCEPT !.status = "cancelled", !.lockedBy = NoAgent,
                                        !.expired = FALSE]
                   ELSE jobs[j]]
    BY <1>5, Zenon DEF CancelOthers
  <2>2. OpsSame /\ \A j \in DOMAIN jobs : jobs'[j] = jobs[j] \/ jobs[j].op = "configure"
    BY <2>1, CancelledRows, Zenon
  <2>3. UNCHANGED <<agent, calls, conf, kernel, stale>>
    BY <1>5, Zenon DEF CancelOthers, vps
  <2> QED BY <1>1, <2>2, <2>3 DEF OpsSame
<1>6. ASSUME NEW a \in Agents, CallServed(a, h) PROVE Traced'
  <2>1. Call(a) \in CallRecord /\ Call(a).job \in DOMAIN jobs
    BY <1>6, CallType DEF CallServed
  <2>2. Call(a).kind = "complete" =>
          agent[a].pc = "complete" /\ Holds(agent[a], Call(a).job, Call(a).attempt)
    BY DEF Call, Holds
  <2>3. \A b \in Agents : agent'[b].pc = "complete" =>
          agent[b].pc = "complete" /\ agent'[b].job = agent[b].job
                                   /\ agent'[b].attempt = agent[b].attempt
    BY <1>6, ServedAgent DEF Works
  <2>4. Serve(Call(a), h) /\ UNCHANGED <<calls, conf, kernel>>
    BY <1>6 DEF CallServed
  <2> QED BY <2>1, <2>2, <2>3, <2>4, ReportTraced
<1>7. ASSUME NEW c \in calls, LateCallServed(c, h) PROVE Traced'
  <2>1. c \in CallRecord /\ c.job \in DOMAIN jobs
    BY DEF TypeOK, Refer
  <2>2. Serve(c, h) /\ calls' \subseteq calls /\ UNCHANGED <<agent, conf, kernel>>
    BY <1>7 DEF LateCallServed
  <2> QED BY <2>1, <2>2, ReportTraced
<1>8. \/ UNCHANGED <<jobs, agent, calls, conf, kernel, stale>>
      \/ QueueJob(h) \/ InsertJob(h) \/ CancelOthers(h)
      \/ (\E a \in Agents : CallServed(a, h)) \/ (\E c \in calls : LateCallServed(c, h))
  BY DEF HandlerNext, QueuePeerUpsert, QueueRouterConfigure, QueuePeerRemoval, Ask,
         ApplyRouterJobStatus, LoadRouter, FindConfigure, ServerCrash, vps
<1>9. CASE (QueueJob(h) \/ InsertJob(h)) /\ UNCHANGED jobs
  BY <1>2, <1>9 DEF QueueJob, InsertJob, vps
<1> QED BY <1>2, <1>3, <1>4, <1>5, <1>6, <1>7, <1>8, <1>9

LEMMA ClaimTraced ==
  ASSUME Alone, TypeOK, Refer, Claims, Traced, NEW a \in Agents, NEW j \in DOMAIN jobs,
         Claim(a, j), agent'[a].pc # "complete", UNCHANGED <<calls, conf, kernel, stale>>
  PROVE  Traced'
<1> SUFFICES ASSUME ~stale, conf # kernel PROVE \E i \in DOMAIN jobs' : HalfDone(i)'
  BY DEF Traced
<1>1. /\ OpsSame /\ OthersSame(j) /\ jobs'[j].status = "claimed"
      /\ jobs'[j].attempts = jobs[j].attempts + 1 /\ jobs'[j].key = jobs[j].key
  BY ClaimRow
<1>2. PICK i \in DOMAIN jobs : HalfDone(i)
  BY DEF Traced
<1>3. \A b \in Agents : agent'[b].pc # "complete"
  BY DEF Alone
<1>4. Undone(i)'
  <2>1. CASE i # j
    BY <1>1, <1>2, <1>3, <2>1, UndoneKept DEF OthersSame, HalfDone, Undone
  <2>2. CASE i = j
    <3>1. jobs[j].attempts \in Nat
      BY RowFields
    <3>2. ASSUME NEW c \in calls, Holds(c, j, jobs[j].attempts + 1) PROVE FALSE
      BY <3>1, <3>2 DEF Claims, AttemptsKnown, Holds
    <3> QED BY <1>1, <1>3, <2>2, <3>2 DEF Undone, Active, Leased
  <2> QED BY <2>1, <2>2
<1>5. jobs'[i].op = jobs[i].op /\ jobs'[i].key = jobs[i].key
  BY <1>1 DEF OpsSame, OthersSame
<1> QED BY <1>1, <1>2, <1>4, <1>5, HalfDoneKept DEF OpsSame

\* Commands: the file first, the interface next, and back only when they agree.
LEMMA AgentTraced ==
  ASSUME Alone, TypeOK, Refer, Claims, OneRemoval, CancelledConfigure, LastClaim, AtCommand, Traced,
         NEW a \in Agents, AgentNext(a)
  PROVE  Traced'
<1>1. \A b \in Agents : b = a
  BY DEF Alone
<1>2. CASE \E j \in DOMAIN jobs : ClaimJob(a, j) \/ ClaimLost(a, j)
  BY <1>2, ClaimTraced DEF ClaimJob, ClaimLost, TypeOK, vps
<1> SUFFICES ASSUME UNCHANGED <<jobs, stale>>, ~stale, conf' # kernel', Works(a),
                    \A c \in calls' : c \in calls \/ c = Call(a),
                    agent'[a].job = agent[a].job \/ agent'[a].pc = "idle"
             PROVE  \E j \in DOMAIN jobs : HalfDone(j)'
  <2>1. ASSUME ~\E j \in DOMAIN jobs : ClaimJob(a, j) \/ ClaimLost(a, j)
        PROVE  /\ UNCHANGED <<jobs, stale>> /\ Works(a)
               /\ \A c \in calls' : c \in calls \/ c = Call(a)
               /\ agent'[a].job = agent[a].job \/ agent'[a].pc = "idle"
    <3>1. UNCHANGED <<jobs, stale>> /\ Works(a)
      BY <2>1 DEF AgentNext, GiveUp, AgentCrash, RemoveStalePeer, PersistPeer, SetPeer,
                  UnpersistPeer, UnsetPeer, ConfigureRouter, ApplyFails, server, Works
    <3>2. \A c \in calls' : c \in calls \/ c = Call(a)
      BY <2>1 DEF AgentNext, GiveUp, AgentCrash, RemoveStalePeer, PersistPeer, SetPeer,
                  UnpersistPeer, UnsetPeer, ConfigureRouter, ApplyFails
    <3>3. \/ \E pc \in {"persist", "set", "unset", "complete", "fail"} : Advance(a, pc)
          \/ agent' = [agent EXCEPT ![a] = IdleAgent]
      BY <2>1 DEF AgentNext, GiveUp, AgentCrash, RemoveStalePeer, PersistPeer, SetPeer,
                  UnpersistPeer, UnsetPeer, ConfigureRouter, ApplyFails, Verify, CarriedOut
    <3>4. agent'[a].job = agent[a].job \/ agent'[a].pc = "idle"
      BY <3>3 DEF Advance, TypeOK, AgentState, IdleAgent
    <3> QED BY <3>1, <3>2, <3>4
  <2> QED BY <1>2, <2>1 DEF Traced
<1>3. ASSUME NEW j \in DOMAIN jobs, Undone(j), agent'[a].pc # "complete" \/ agent[a].job # j
      PROVE  Undone(j)'
  <2>1. jobs'[j].status \in Active \union {"failed"} /\ jobs'[j].attempts = jobs[j].attempts
    BY <1>3 DEF Undone
  <2>2. \A b \in Agents : agent'[b].pc = "complete" =>
          \/ agent[b].pc = "complete" /\ agent'[b].job = agent[b].job
                                      /\ agent'[b].attempt = agent[b].attempt
          \/ agent'[b].job # j
    BY <1>1, <1>3
  <2> QED BY <1>3, <2>1, <2>2, UndoneKept
<1>4. CASE UNCHANGED <<conf, kernel>> /\ agent'[a].pc # "complete"
  <2>1. PICK j \in DOMAIN jobs : HalfDone(j)
    BY <1>4 DEF Traced
  <2>2. Undone(j)'
    BY <1>3, <1>4, <2>1 DEF HalfDone
  <2> QED BY <1>4, <2>1, <2>2, HalfDoneKept
<1>5. CASE GiveUp(a) \/ AgentCrash(a) \/ ApplyFails(a)
  BY <1>4, <1>5 DEF GiveUp, AgentCrash, ApplyFails, Advance, IdleAgent, TypeOK, AgentState
<1>6. CASE RemoveStalePeer(a) \/ PersistPeer(a)
  <2>1. agent[a].pc \in {"start", "persist"} /\ Op(a) = "upsert"
    BY <1>6 DEF RemoveStalePeer, PersistPeer, AtCommand
  <2>2. agent[a].job \in DOMAIN jobs /\ Undone(agent[a].job)
    BY <2>1, AtWorkUndone
  <2>3. agent'[a].pc # "complete"
    BY <1>6 DEF RemoveStalePeer, PersistPeer, Advance, TypeOK, AgentState
  <2>4. PICK j \in DOMAIN jobs : j = agent[a].job
    BY <2>2
  <2>5. Undone(j)'
    BY <1>3, <2>2, <2>3, <2>4
  <2>6. jobs[j].op = "upsert" /\ UNCHANGED jobs
    BY <2>1, <2>4 DEF Op
  <2>7. HalfDone(j)'
    BY <2>5, <2>6 DEF HalfDone
  <2> QED BY <2>7
<1>7. CASE SetPeer(a)
  BY <1>7 DEF SetPeer, PeerSet, AtCommand
<1>8. CASE ConfigureRouter(a)
  <2>1. PICK j \in DOMAIN jobs : HalfDone(j)
    BY <1>8 DEF ConfigureRouter, Traced
  <2>2. agent[a].job # j
    BY <1>8, <2>1 DEF ConfigureRouter, Op, HalfDone
  <2>3. Undone(j)'
    BY <1>3, <2>1, <2>2 DEF HalfDone
  <2> QED BY <1>8, <2>1, <2>3, HalfDoneKept DEF ConfigureRouter
<1>9. CASE UnpersistPeer(a)
  <2> DEFINE i == agent[a].job
  <2>1. agent[a].pc = "start" /\ Op(a) = "remove" /\ agent[a].key # NoKey
    BY <1>9 DEF UnpersistPeer
  <2>2. i \in DOMAIN jobs /\ Undone(i)
    BY <2>1, AtWorkUndone
  <2>3. agent'[a].pc # "complete" /\ kernel' = kernel
    BY <1>9 DEF UnpersistPeer, Advance, TypeOK, AgentState
  <2>4. ASSUME NEW j \in DOMAIN jobs, Undone(j) PROVE Undone(j)'
    BY <1>3, <2>3, <2>4
  <2>5. jobs[i].op = "remove" /\ jobs[i].key = agent[a].key
    BY <2>1, <2>2 DEF OneRemoval, RemovalKey, Works, Op
  <2>6. CASE conf = kernel
    <3>1. conf' = NoKey /\ kernel' = agent[a].key
      BY <1>9, <2>3, <2>6 DEF UnpersistPeer
    <3>2. PICK k \in DOMAIN jobs : k = i
      BY <2>2
    <3>3. HalfDone(k)'
      BY <2>2, <2>4, <2>5, <3>1, <3>2 DEF HalfDone
    <3> QED BY <3>3
  <2>7. CASE conf # kernel
    <3>1. PICK j \in DOMAIN jobs : HalfDone(j)
      BY <2>7 DEF Traced
    <3>2. Undone(j)'
      BY <2>4, <3>1 DEF HalfDone
    <3>3. conf = NoKey => conf' = NoKey
      BY <1>9 DEF UnpersistPeer
    <3> QED BY <2>3, <3>1, <3>2, <3>3 DEF HalfDone
  <2> QED BY <2>6, <2>7
<1>10. CASE UnsetPeer(a)
  <2>1. agent[a].pc = "unset" /\ Op(a) = "remove" /\ conf # agent[a].key
    BY <1>10 DEF UnsetPeer, AtCommand
  <2>2. /\ conf' = conf
        /\ kernel = agent[a].key => kernel' = NoKey
        /\ kernel # agent[a].key => kernel' = kernel
    BY <1>10 DEF UnsetPeer, WithoutPeer
  <2>3. conf # kernel
    BY <2>1, <2>2
  <2>4. PICK j \in DOMAIN jobs : HalfDone(j)
    BY <2>3 DEF Traced
  <2>5. CASE jobs[j].op = "upsert"
    <3>1. agent[a].job # j
      BY <2>1, <2>5 DEF Op
    <3>2. Undone(j)'
      BY <1>3, <2>4, <3>1 DEF HalfDone
    <3> QED BY <2>5, <3>2 DEF HalfDone
  <2>6. CASE jobs[j].op = "remove"
    <3>1. jobs[j].key = agent[a].key
      BY <2>1, <2>6 DEF OneRemoval, RemovalKey, Works
    <3> QED BY <2>2, <2>4, <2>6, <3>1 DEF HalfDone
  <2> QED BY <2>4, <2>5, <2>6 DEF HalfDone
<1>11. ~\E j \in DOMAIN jobs : ClaimJob(a, j) \/ ClaimLost(a, j)
  BY DEF ClaimJob, ClaimLost, Works
<1> QED BY <1>4, <1>5, <1>6, <1>7, <1>8, <1>9, <1>10, <1>11 DEF AgentNext

LEMMA LeaseTraced ==
  ASSUME TypeOK, Refer, LastClaim, AtCommand, Traced, NEW j \in DOMAIN jobs, LeaseExpires(j)
  PROVE  LastClaim' /\ AtCommand' /\ Traced'
<1>1. UNCHANGED <<calls, agent, conf, kernel, stale>>
  BY DEF LeaseExpires, vps
<1>2. /\ DOMAIN jobs' = DOMAIN jobs
      /\ \A i \in DOMAIN jobs : /\ jobs'[i].op = jobs[i].op /\ jobs'[i].key = jobs[i].key
                                /\ jobs'[i].status = jobs[i].status
                                /\ jobs'[i].attempts = jobs[i].attempts
  BY RowFields DEF LeaseExpires, TypeOK
<1>3. LastClaim' /\ AtCommand'
  BY <1>1, <1>2, CommandKept DEF Works
<1>4. ASSUME NEW i \in DOMAIN jobs, HalfDone(i) PROVE HalfDone(i)'
  <2>1. Undone(i)'
    BY <1>1, <1>2, <1>4, UndoneKept DEF HalfDone, Undone
  <2> QED BY <1>1, <1>2, <1>4, <2>1, HalfDoneKept
<1>5. Traced'
  BY <1>1, <1>2, <1>4 DEF Traced
<1> QED BY <1>3, <1>5

AgentInv == LastClaim /\ AtCommand /\ Traced

LEMMA AgentInvStep ==
  ASSUME Alone, TypeOK, Refer, Claims, OneRemoval, CancelledConfigure, AgentInv, [Next]_vars
  PROVE  AgentInv'
<1>1. ASSUME NEW h \in Handlers, HandlerNext(h) PROVE AgentInv'
  BY <1>1, HandlerCommand, HandlerTraced DEF AgentInv
<1>2. ASSUME NEW a \in Agents, AgentNext(a) PROVE AgentInv'
  BY <1>2, AgentCommand, AgentTraced DEF AgentInv
<1>3. ASSUME NEW j \in DOMAIN jobs, LeaseExpires(j) PROVE AgentInv'
  BY <1>3, LeaseTraced DEF AgentInv
<1>4. CASE UNCHANGED vars
  <2>1. UNCHANGED <<jobs, agent, calls, conf, kernel, stale>>
    BY <1>4 DEF vars, vps, server
  <2> QED BY <2>1 DEF AgentInv, LastClaim, AtCommand, Traced, HalfDone, Undone, Holds, Works, Op
<1> QED BY <1>1, <1>2, <1>3, <1>4 DEF Next

\* wg0.conf and the running interface of a VPS with one agent differ only while a job that changes
\* them is open or has failed, or after the call of an earlier claim was accepted.
THEOREM Divergence == Spec => []DivergenceShows
<1> DEFINE QueueInv == TypeOK /\ Refer /\ Claims /\ OneRemoval /\ CancelledConfigure
           DivInv == QueueInv /\ (Alone => AgentInv)
<1>1. Init => DivInv
  <2> SUFFICES ASSUME Init PROVE DivInv
    OBVIOUS
  <2>1. TypeOK /\ Refer
    BY TypeInit
  <2>2. Claims
    BY ClaimsInit
  <2>3. /\ DOMAIN jobs = {} /\ conf = kernel
        /\ \A h \in Handlers : ~Removing(h)
        /\ \A a \in Agents : agent[a].pc = "idle"
    BY DEF Init, Removing, IdleHandler, IdleAgent
  <2>4. OneRemoval
    BY <2>3 DEF OneRemoval, RemovalKey, NoRemoval, Works
  <2>5. CancelledConfigure /\ AgentInv
    BY <2>3 DEF CancelledConfigure, AgentInv, LastClaim, AtCommand, Traced, Works
  <2> QED BY <2>1, <2>2, <2>4, <2>5
<1>2. DivInv /\ [Next]_vars => DivInv'
  <2> SUFFICES ASSUME DivInv, [Next]_vars PROVE DivInv'
    OBVIOUS
  <2>1. TypeOK' /\ Refer'
    BY TypeStep
  <2>2. Claims'
    BY ClaimsStep
  <2>3. OneRemoval'
    BY RemovalStep
  <2>4. CancelledConfigure'
    BY CancelledStep
  <2>5. Alone => AgentInv'
    BY AgentInvStep
  <2>6. Alone' => Alone
    BY DEF Alone
  <2> QED BY <2>1, <2>2, <2>3, <2>4, <2>5, <2>6
<1>3. DivInv => DivergenceShows
  BY DEF DivergenceShows, Alone, AgentInv, Traced, HalfDone, Undone
<1> QED BY <1>1, <1>2, <1>3, PTL DEF Spec

=============================================================================
