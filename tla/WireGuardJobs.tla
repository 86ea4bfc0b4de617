---------------------------- MODULE WireGuardJobs ----------------------------
(***************************************************************************)
(* The WireGuard job queue of one router: the API server queues peer and   *)
(* configuration jobs (src/internal/wireguard/service.go), the VPS agent   *)
(* claims them under a lease, changes wg0.conf and the running interface,  *)
(* and reports back (src/cmd/noblifi-vps-agent/wireguard_worker.go).       *)
(*                                                                         *)
(* req[h] is a handler of the server, a step of it is one transaction.     *)
(* agent[a] is the loop of an agent, a step of it is one call or one       *)
(* command.  A call the agent has given up on may still be served.  The    *)
(* router has a tunnel address and no remote ports, available_at is        *)
(* abstracted to "some time later", and a callback reads and saves the     *)
(* router's row in one step.                                               *)
(***************************************************************************)
EXTENDS Integers, Sequences, FiniteSets

CONSTANTS Agents,       \* agent processes on the VPS
          AgentId,      \* agent |-> its NOBLIFI_AGENT_ID, the same by default
          NoAgent,      \* the empty locked_by
          Keys,         \* public keys the router may report
          NoKey,
          Handlers,     \* handlers of the server that can run together
          UniqueIndex,  \* whether idx_wire_guard_jobs_active_unique exists
          MaxAttempts,
          MaxJobs,      \* bound on wire_guard_jobs rows
          MaxAsked,     \* bound on callbacks that queue a job
          MaxFaults     \* bound on faults

Faults == {"agentCrash", "serverCrash", "claimLost", "gaveUp", "leaseOutlived"}

ASSUME ConstantsAssumption ==
  /\ NoAgent \notin {AgentId[a] : a \in Agents}
  /\ NoKey \notin Keys
  /\ UniqueIndex \in BOOLEAN
  /\ MaxAttempts \in Nat \ {0}
  /\ MaxJobs \in Nat
  /\ MaxAsked \in Nat
  /\ MaxFaults \in Nat

VARIABLES jobs,    \* wire_guard_jobs rows, in order of created_at
          agent,   \* what each agent is doing
          calls,   \* calls the agents have given up on
          conf,    \* key that owns the router's address in wg0.conf
          kernel,  \* key that owns it in the running interface
          router,  \* columns of the routers row
          req,     \* handlers in flight
          asked,
          faults,  \* what has gone wrong so far
          ran,     \* history: <<job, attempt, key>> carried out to the end
          heard,   \* history: jobs whose result was written to the router
          stale    \* history: a call of an earlier claim was accepted

server == <<jobs, router, req, asked, heard, stale>>
vps == <<agent, calls, conf, kernel, ran>>
vars == <<jobs, agent, calls, conf, kernel, router, req, asked, faults, ran, heard, stale>>

Operations == {"upsert", "remove", "configure"}

Waiting == {"queued", "retrying"}

Leased == {"claimed", "applying"}

\* The active statuses QueueJob and existingConfigureJob look for.
Active == Waiting \union Leased

Finished == {"succeeded", "failed", "cancelled"}

\* Mutant: the index does not cover jobs that are being applied.
IndexedTooFew == {"queued", "claimed", "retrying"}

\* WHERE clause of the partial unique index in migrations/002.
Indexed == {"queued", "claimed", "applying", "retrying"}

IdleAgent == [pc |-> "idle", job |-> 0, key |-> NoKey, attempt |-> 0]

IdleHandler == [pc |-> "idle", op |-> "upsert", key |-> NoKey, job |-> 0]

FindConfigureJob == [IdleHandler EXCEPT !.pc = "findConfigure", !.op = "configure"]

ActiveRows(op) == {j \in DOMAIN jobs : jobs[j].op = op /\ jobs[j].status \in Active}

\* The index lets row j (or a new row) of operation op take this status.
IndexAllows(j, op, status) ==
  UniqueIndex /\ status \in Indexed =>
    \A i \in DOMAIN jobs \ {j} : ~(jobs[i].op = op /\ jobs[i].status \in Indexed)

Init == /\ jobs = << >>
        /\ agent = [a \in Agents |-> IdleAgent]
        /\ calls = {}
        /\ conf = NoKey
        /\ kernel = NoKey
        /\ router = [handshake |-> FALSE, deleted |-> FALSE, tunnel |-> TRUE]
        /\ req = [h \in Handlers |-> IdleHandler]
        /\ asked = 0
        /\ faults = << >>
        /\ ran = {}
        /\ heard = {}
        /\ stale = FALSE

Fault(f) == /\ Len(faults) < MaxFaults
            /\ faults' = Append(faults, f)

Happened(f) == \E i \in DOMAIN faults : faults[i] = f

-----------------------------------------------------------------------------
(* Callbacks and the dashboard ask for jobs.                               *)

\* A handler starts with QueueJob(op, key).
Ask(h, op, key) ==
  /\ req[h].pc = "idle"
  /\ ~router.deleted
  /\ asked < MaxAsked
  /\ asked' = asked + 1
  /\ req' = [req EXCEPT ![h] = [pc |-> "queue", op |-> op, key |-> key, job |-> 0]]
  /\ UNCHANGED <<jobs, heard, stale, faults, vps>>

\* WireGuardKey, after it has saved the router: QueuePeerUpsert.
QueuePeerUpsert(h, key) ==
  /\ Ask(h, "upsert", key)
  /\ UNCHANGED router

\* WireGuardStatus "connected", after it has saved the router: QueueRouterConfigure.
QueueRouterConfigure(h) ==
  /\ req[h].pc = "idle"
  /\ ~router.deleted
  /\ asked < MaxAsked
  /\ asked' = asked + 1
  /\ router' = [router EXCEPT !.handshake = TRUE]
  /\ req' = [req EXCEPT ![h] = FindConfigureJob]
  /\ UNCHANGED <<jobs, heard, stale, faults, vps>>

\* DeleteRouter, after its transaction: QueuePeerRemoval, also of a router without a key.
QueuePeerRemoval(h, key) ==
  /\ Ask(h, "remove", key)
  /\ router' = [router EXCEPT !.deleted = TRUE]

-----------------------------------------------------------------------------
(* QueueJob: one transaction when it finds an active row, which it resets,  *)
(* and when it finds none an INSERT that other handlers may overtake.       *)

Reset(j, key) ==
  jobs' = [jobs EXCEPT ![j].key = key, ![j].status = "queued",
                       ![j].lockedBy = NoAgent, ![j].expired = FALSE]

QueueJob(h) ==
  LET rows == ActiveRows(req[h].op)
  IN  /\ req[h].pc = "queue"
      /\ \/ /\ rows = {}
            /\ req' = [req EXCEPT ![h].pc = "insert"]
            /\ UNCHANGED jobs
         \/ \E j \in rows :
              /\ \A i \in rows : i <= j
              /\ Reset(j, req[h].key)
              /\ req' = [req EXCEPT ![h] = IdleHandler]
      /\ UNCHANGED <<router, asked, heard, stale, faults, vps>>

\* The INSERT fails on the unique index, and in the model also when MaxJobs rows exist.
InsertJob(h) ==
  /\ req[h].pc = "insert"
  /\ IF IndexAllows(0, req[h].op, "queued") /\ Len(jobs) < MaxJobs
     THEN jobs' = Append(jobs, [op |-> req[h].op, status |-> "queued", key |-> req[h].key,
                                attempts |-> 0, lockedBy |-> NoAgent, expired |-> FALSE])
     ELSE UNCHANGED jobs
  /\ req' = [req EXCEPT ![h] = IdleHandler]
  /\ UNCHANGED <<router, asked, heard, stale, faults, vps>>

-----------------------------------------------------------------------------
(* ClaimJob and the lease.                                                 *)

\* Mutant: a job whose lease has expired is never claimed again.
ClaimableWaiting(j) == jobs[j].status \in Waiting

Claimable(j) == \/ jobs[j].status \in Waiting
                \/ jobs[j].status \in Leased /\ jobs[j].expired

Claim(a, j) ==
  jobs' = [jobs EXCEPT ![j].status = "claimed", ![j].lockedBy = AgentId[a],
                       ![j].expired = FALSE, ![j].attempts = @ + 1]

ClaimJob(a, j) ==
  /\ agent[a].pc = "idle"
  /\ Claimable(j)
  /\ Claim(a, j)
  /\ agent' = [agent EXCEPT ![a] = [pc |-> "applying", job |-> j, key |-> jobs[j].key,
                                    attempt |-> jobs[j].attempts + 1]]
  /\ UNCHANGED <<calls, conf, kernel, router, req, asked, faults, ran, heard, stale>>

\* The answer does not arrive: the row is leased to an agent that does not know.
ClaimLost(a, j) ==
  /\ agent[a].pc = "idle"
  /\ Claimable(j)
  /\ Claim(a, j)
  /\ Fault("claimLost")
  /\ UNCHANGED <<vps, router, req, asked, heard, stale>>

AtWork(j) == \E a \in Agents : /\ agent[a].pc # "idle"
                               /\ agent[a].job = j
                               /\ agent[a].attempt = jobs[j].attempts

\* The lease of a job nobody works on runs out; one an agent is working on may do so too.
LeaseExpires(j) ==
  /\ jobs[j].status \in Leased
  /\ ~jobs[j].expired
  /\ jobs' = [jobs EXCEPT ![j].expired = TRUE]
  /\ IF AtWork(j) THEN Fault("leaseOutlived") ELSE UNCHANGED faults
  /\ UNCHANGED <<vps, router, req, asked, heard, stale>>

-----------------------------------------------------------------------------
(* updateClaimedJob: a report is accepted from the agent id in locked_by.   *)

Call(a) == [kind |-> agent[a].pc, job |-> agent[a].job, agent |-> a,
            attempt |-> agent[a].attempt]

\* Mutants: locked_by is not compared; the call's name is stored as the status.
AcceptedFromAnyone(c) == TRUE

RawStatusAfter(c) == c.kind

StatusAfter(c) ==
  CASE c.kind = "applying" -> "applying"
    [] c.kind = "complete" -> "succeeded"
    [] OTHER -> IF jobs[c.job].attempts >= MaxAttempts THEN "failed" ELSE "retrying"

\* locked_by names the caller, and the save does not violate the unique index.
Accepted(c) ==
  /\ jobs[c.job].lockedBy = AgentId[c.agent]
  /\ IndexAllows(c.job, jobs[c.job].op, StatusAfter(c))

\* FailJob gives the lease back when it lets the job retry.
UpdateClaimedJob(c) ==
  LET status == StatusAfter(c)
  IN  /\ jobs' = [jobs EXCEPT ![c.job].status = status,
                              ![c.job].lockedBy = IF status = "retrying" THEN NoAgent ELSE @,
                              ![c.job].expired = IF status = "retrying" THEN FALSE ELSE @]
      /\ stale' = (stale \/ c.attempt # jobs[c.job].attempts)

\* Mutant: only completions go on to the router.
ReportsCompletion(c) == c.kind = "complete"

\* CompleteJob and the last FailJob go on to applyRouterJobStatus.
Reports(c) == StatusAfter(c) \in {"succeeded", "failed"}

Serve(c, h) ==
  /\ req[h].pc = "idle"
  /\ IF Accepted(c)
     THEN /\ UpdateClaimedJob(c)
          /\ IF Reports(c)
             THEN req' = [req EXCEPT ![h] = [IdleHandler EXCEPT !.pc = StatusAfter(c),
                                                                !.op = jobs[c.job].op,
                                                                !.job = c.job]]
             ELSE UNCHANGED req
     ELSE UNCHANGED <<jobs, req, stale>>
  /\ UNCHANGED <<router, asked, faults, heard>>

\* The agent's call is answered; only an accepted "applying" lets it go on.
CallServed(a, h) ==
  /\ agent[a].pc \in {"applying", "complete", "fail"}
  /\ Serve(Call(a), h)
  /\ agent' = [agent EXCEPT ![a] = IF @.pc = "applying" /\ Accepted(Call(a))
                                   THEN [@ EXCEPT !.pc = "start"] ELSE IdleAgent]
  /\ UNCHANGED <<calls, conf, kernel, ran>>

\* The HTTP client times out: runOnce returns, and the call may be served later or never.
GiveUp(a) ==
  /\ agent[a].pc \in {"applying", "complete", "fail"}
  /\ Fault("gaveUp")
  /\ calls' = calls \union {Call(a)}
  /\ agent' = [agent EXCEPT ![a] = IdleAgent]
  /\ UNCHANGED <<conf, kernel, ran, server>>

LateCallServed(c, h) ==
  /\ Serve(c, h)
  /\ calls' = calls \ {c}
  /\ UNCHANGED <<agent, conf, kernel, ran>>

-----------------------------------------------------------------------------
(* The rest of CompleteJob and FailJob, after the job row is committed.     *)

AfterRouterStatus(h) ==
  CASE req[h].pc = "failed" -> IdleHandler
    [] req[h].op = "upsert" -> [req[h] EXCEPT !.pc = "loadRouter"]
    [] req[h].op = "configure" -> [req[h] EXCEPT !.pc = "cancelOthers"]
    [] OTHER -> IdleHandler

\* applyRouterJobStatus with a copy of the row; the removal of the peer also clears the tunnel
\* address.
ApplyRouterJobStatus(h) ==
  /\ req[h].pc \in {"succeeded", "failed"}
  /\ heard' = heard \union {req[h].job}
  /\ router' = IF req[h].op = "remove" /\ req[h].pc = "succeeded"
               THEN [router EXCEPT !.deleted = TRUE, !.tunnel = FALSE] ELSE router
  /\ req' = [req EXCEPT ![h] = AfterRouterStatus(h)]
  /\ UNCHANGED <<jobs, asked, stale, faults, vps>>

\* CompleteJob reads the router's row again, deleted or not, before QueueRouterConfigure.
LoadRouter(h) ==
  /\ req[h].pc = "loadRouter"
  /\ req' = [req EXCEPT ![h] = IF router.handshake /\ router.tunnel
                               THEN FindConfigureJob ELSE IdleHandler]
  /\ UNCHANGED <<jobs, router, asked, heard, stale, faults, vps>>

\* existingConfigureJob: an active configure job is left as it is.
FindConfigure(h) ==
  /\ req[h].pc = "findConfigure"
  /\ req' = [req EXCEPT ![h] = IF ActiveRows("configure") = {}
                               THEN [@ EXCEPT !.pc = "queue"] ELSE IdleHandler]
  /\ UNCHANGED <<jobs, router, asked, heard, stale, faults, vps>>

\* Mutant: finished configure jobs are cancelled too.
OthersOf(h) == {j \in DOMAIN jobs \ {req[h].job} : jobs[j].op = "configure"}

Others(h) == ActiveRows("configure") \ {req[h].job}

\* A configured router needs no other configure job.
CancelOthers(h) ==
  /\ req[h].pc = "cancelOthers"
  /\ jobs' = [j \in DOMAIN jobs |->
                IF j \in Others(h)
                THEN [jobs[j] EXCEPT !.status = "cancelled", !.lockedBy = NoAgent,
                                     !.expired = FALSE]
                ELSE jobs[j]]
  /\ req' = [req EXCEPT ![h] = IdleHandler]
  /\ UNCHANGED <<router, asked, heard, stale, faults, vps>>

-----------------------------------------------------------------------------
(* applyJob: the commands of the agent, under the lock file of wg0.conf.    *)

Op(a) == jobs[agent[a].job].op

ConfigFree == \A a \in Agents : agent[a].pc \notin {"persist", "set", "unset"}

Advance(a, pc) == agent' = [agent EXCEPT ![a].pc = pc]

CarriedOut(a) ==
  /\ Advance(a, "complete")
  /\ ran' = ran \union {<<agent[a].job, agent[a].attempt, agent[a].key>>}

\* verifyPeer looks at the interface again, and that command may fail as well.
Verify(a) == \/ CarriedOut(a)
             \/ Advance(a, "fail") /\ UNCHANGED ran

\* wg set <key> remove
WithoutPeer(key) == IF kernel = key THEN NoKey ELSE kernel

\* upsertPeer: another key that owns the address in the file leaves the interface.
RemoveStalePeer(a) ==
  /\ agent[a].pc = "start" /\ Op(a) = "upsert" /\ ConfigFree
  /\ kernel' = IF conf # agent[a].key THEN WithoutPeer(conf) ELSE kernel
  /\ Advance(a, "persist")
  /\ UNCHANGED <<calls, conf, ran, server, faults>>

PersistPeer(a) ==
  /\ agent[a].pc = "persist"
  /\ conf' = agent[a].key
  /\ Advance(a, "set")
  /\ UNCHANGED <<calls, kernel, ran, server, faults>>

\* Mutant: the command's error is ignored.
PeerNotSet(a) == kernel

\* wg set <key> allowed-ips, which takes the address away from any other peer.
PeerSet(a) == agent[a].key

SetPeer(a) ==
  /\ agent[a].pc = "set"
  /\ kernel' = PeerSet(a)
  /\ Verify(a)
  /\ UNCHANGED <<calls, conf, server, faults>>

\* removePeer
UnpersistPeer(a) ==
  /\ agent[a].pc = "start" /\ Op(a) = "remove" /\ ConfigFree
  /\ agent[a].key # NoKey
  /\ conf' = IF conf = agent[a].key THEN NoKey ELSE conf
  /\ Advance(a, "unset")
  /\ UNCHANGED <<calls, kernel, ran, server, faults>>

UnsetPeer(a) ==
  /\ agent[a].pc = "unset"
  /\ kernel' = WithoutPeer(agent[a].key)
  /\ Verify(a)
  /\ UNCHANGED <<calls, conf, server, faults>>

\* configureRouter: the RouterOS script is run on the router.
ConfigureRouter(a) ==
  /\ agent[a].pc = "start" /\ Op(a) = "configure"
  /\ CarriedOut(a)
  /\ UNCHANGED <<calls, conf, kernel, server, faults>>

\* A command fails, or the job has no key to remove; what earlier commands did stays.
ApplyFails(a) ==
  /\ agent[a].pc \in {"start", "persist", "set", "unset"}
  /\ Advance(a, "fail")
  /\ UNCHANGED <<calls, conf, kernel, ran, server, faults>>

-----------------------------------------------------------------------------
\* The agent process dies and its loop starts again.
AgentCrash(a) ==
  /\ agent[a].pc # "idle"
  /\ Fault("agentCrash")
  /\ agent' = [agent EXCEPT ![a] = IdleAgent]
  /\ UNCHANGED <<calls, conf, kernel, ran, server>>

\* The server stops, or a statement fails, and the rest of the handler is not executed.
ServerCrash(h) ==
  /\ req[h].pc # "idle"
  /\ Fault("serverCrash")
  /\ req' = [req EXCEPT ![h] = IdleHandler]
  /\ UNCHANGED <<jobs, router, asked, heard, stale, vps>>

HandlerNext(h) ==
  \/ \E key \in Keys : QueuePeerUpsert(h, key)
  \/ QueueRouterConfigure(h)
  \/ \E key \in Keys \union {NoKey} : QueuePeerRemoval(h, key)
  \/ QueueJob(h) \/ InsertJob(h)
  \/ ApplyRouterJobStatus(h) \/ LoadRouter(h) \/ FindConfigure(h) \/ CancelOthers(h)
  \/ \E a \in Agents : CallServed(a, h)
  \/ \E c \in calls : LateCallServed(c, h)
  \/ ServerCrash(h)

AgentNext(a) ==
  \/ \E j \in DOMAIN jobs : ClaimJob(a, j) \/ ClaimLost(a, j)
  \/ GiveUp(a)
  \/ RemoveStalePeer(a) \/ PersistPeer(a) \/ SetPeer(a)
  \/ UnpersistPeer(a) \/ UnsetPeer(a)
  \/ ConfigureRouter(a) \/ ApplyFails(a)
  \/ AgentCrash(a)

Next == \/ \E h \in Handlers : HandlerNext(h)
        \/ \E a \in Agents : AgentNext(a)
        \/ \E j \in DOMAIN jobs : LeaseExpires(j)

Spec == Init /\ [][Next]_vars

\* What the liveness property assumes: handlers and agents run on, leases run out, and an idle
\* agent comes round to every job (ORDER BY available_at).
Fairness ==
  /\ \A h \in Handlers :
       /\ WF_vars(QueueJob(h)) /\ WF_vars(InsertJob(h))
       /\ WF_vars(ApplyRouterJobStatus(h)) /\ WF_vars(LoadRouter(h))
       /\ WF_vars(FindConfigure(h)) /\ WF_vars(CancelOthers(h))
  /\ \A a \in Agents :
       /\ WF_vars(\E h \in Handlers : CallServed(a, h))
       /\ WF_vars(RemoveStalePeer(a) \/ PersistPeer(a) \/ SetPeer(a) \/ UnpersistPeer(a)
                  \/ UnsetPeer(a) \/ ConfigureRouter(a) \/ ApplyFails(a))
  /\ \A j \in 1 .. MaxJobs :
       /\ WF_vars(j \in DOMAIN jobs /\ LeaseExpires(j))
       /\ SF_vars(\E a \in Agents : j \in DOMAIN jobs /\ ClaimJob(a, j))

FairSpec == Spec /\ Fairness

-----------------------------------------------------------------------------
(* Properties                                                              *)

JobRow == [op : Operations, status : Active \union Finished, key : Keys \union {NoKey},
           attempts : Nat, lockedBy : {AgentId[a] : a \in Agents} \union {NoAgent},
           expired : BOOLEAN]

AgentState ==
  [pc : {"idle", "applying", "start", "persist", "set", "unset", "complete", "fail"},
   job : Nat, key : Keys \union {NoKey}, attempt : Nat]

CallRecord ==
  [kind : {"applying", "complete", "fail"}, job : Nat, agent : Agents, attempt : Nat]

HandlerState ==
  [pc : {"idle", "queue", "insert", "succeeded", "failed", "loadRouter", "findConfigure",
         "cancelOthers"},
   op : Operations, key : Keys \union {NoKey}, job : Nat]

\* Every variable keeps to its columns and value sets.
TypeOK ==
  /\ jobs \in Seq(JobRow)
  /\ agent \in [Agents -> AgentState]
  /\ calls \subseteq CallRecord
  /\ conf \in Keys \union {NoKey}
  /\ kernel \in Keys \union {NoKey}
  /\ router \in [handshake : BOOLEAN, deleted : BOOLEAN, tunnel : BOOLEAN]
  /\ req \in [Handlers -> HandlerState]
  /\ asked \in Nat
  /\ faults \in Seq(Faults)
  /\ ran \subseteq Nat \X Nat \X (Keys \union {NoKey})
  /\ heard \subseteq Nat
  /\ stale \in BOOLEAN

\* What migrations/002 demands: one active job of each operation for a router.
SingleActive == \A op \in Operations : Cardinality(ActiveRows(op)) <= 1

\* A row says "succeeded" only if its last claim was carried out to the end, for the key the row
\* has, unless a call of an earlier claim was accepted: locked_by is not a fencing token.
SucceededMeansApplied ==
  ~stale =>
    \A j \in DOMAIN jobs :
      jobs[j].status = "succeeded" => <<j, jobs[j].attempts, jobs[j].key>> \in ran

\* A finished job stays as it is, unless a call of an earlier claim revives it.
FinishedStays ==
  [][\A j \in DOMAIN jobs : jobs[j].status \in Finished => stale' \/ jobs'[j] = jobs[j]]_vars

\* The router's row hears of every job that succeeded or failed for good, unless the server stopped
\* between the two transactions of a report.
RouterHears ==
  ~Happened("serverCrash") =>
    \A j \in DOMAIN jobs :
      jobs[j].status \in {"succeeded", "failed"} =>
        \/ j \in heard
        \/ \E h \in Handlers : req[h].pc = jobs[j].status /\ req[h].job = j

\* wg0.conf and the running interface of a VPS with one agent (one systemd service) differ only
\* while a job that changes them is open or has failed, also between two commands of the agent,
\* unless a call of an earlier claim was accepted: a half-done change leaves a trace in the queue.
DivergenceShows ==
  (\A a, b \in Agents : a = b) /\ conf # kernel =>
    \/ stale
    \/ \E j \in DOMAIN jobs : /\ jobs[j].op \in {"upsert", "remove"}
                              /\ jobs[j].status \in Active \union {"failed"}

\* Every job ends, whatever fails in between: agents crash, answers get lost, leases run out.
EveryJobEnds ==
  \A j \in 1 .. MaxJobs :
    (j \in DOMAIN jobs /\ jobs[j].status \in Active)
      ~> (j \in DOMAIN jobs /\ jobs[j].status \in Finished)
=============================================================================
