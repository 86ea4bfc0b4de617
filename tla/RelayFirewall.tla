---------------------------- MODULE RelayFirewall ----------------------------
(***************************************************************************)
(* The reconciliation of remote access on the VPS: every poll the agent    *)
(* asks the server for the targets, brings its TCP relays into agreement   *)
(* (remote_forwarder.go) and then the rules of UFW (remote_firewall.go).   *)
(* Relays live in the agent's memory, rules outlive it.  A step is one     *)
(* call, one listener or one ufw command; an administrator may change the  *)
(* rules in between.                                                       *)
(***************************************************************************)
EXTENDS Integers, SequencesExt

CONSTANTS PublicPorts,   \* ports of targets
          RelayTargets,  \* addresses and services behind them
          NoTarget,
          MaxWishes,     \* bound on changes of the targets
          MaxTrouble     \* bound on crashes, failed commands, other programs' ports and rules

Foreign == 0

ASSUME RelayAssumption == /\ NoTarget \notin RelayTargets
                          /\ PublicPorts \subseteq Nat \ {Foreign}
                          /\ MaxWishes \in Nat /\ MaxTrouble \in Nat

VARIABLES targets,   \* what RemoteAccessTargets would answer, port |-> target
          relays,    \* the registry of the agent
          rules,     \* the numbered rules: the port of a managed one, or Foreign
          dual,      \* whether ufw writes an IPv6 rule beside each rule
          pass,      \* the pass of the agent that is under way
          blocked,   \* ports another program listens on
          wishes, trouble,
          foreign,   \* history: rules of the administrator
          shifted    \* history: the administrator changed rules between the listing and a deletion

relayVars == <<targets, relays, rules, dual, pass, blocked, wishes, trouble, foreign, shifted>>

NoTargets == [p \in PublicPorts |-> NoTarget]

Waiting == [pc |-> "wait", want |-> NoTargets, todo |-> {}, numbers |-> {}, missing |-> {}]

Wanted(want) == {p \in PublicPorts : want[p] # NoTarget}

RelayInit == /\ targets = NoTargets
             /\ relays = NoTargets
             /\ rules = <<Foreign>>
             /\ dual \in BOOLEAN
             /\ pass = Waiting
             /\ blocked = {}
             /\ wishes = 0
             /\ trouble = 0
             /\ foreign = 1
             /\ shifted = FALSE

-----------------------------------------------------------------------------
(* The pass.                                                               *)

\* GET remote-access-targets.
Fetch ==
  /\ pass.pc \in {"wait", "done"}
  /\ pass' = [Waiting EXCEPT !.pc = "relays", !.want = targets, !.todo = Wanted(targets)]
  /\ UNCHANGED <<targets, relays, rules, dual, blocked, wishes, trouble, foreign, shifted>>

\* Mutant: a port that is relayed is left alone.
KeptRelay(p) == IF relays[p] # NoTarget THEN relays[p] ELSE pass.want[p]

\* Upsert closes a relay to another target before it listens anew.
UpsertedRelay(p) == IF relays[p] # pass.want[p] /\ p \in blocked THEN NoTarget ELSE pass.want[p]

\* One port of the map, in any order.  A port that cannot be listened on ends the pass.
Upsert(p) ==
  /\ pass.pc = "relays"
  /\ p \in pass.todo
  /\ relays' = [relays EXCEPT ![p] = UpsertedRelay(p)]
  /\ pass' = IF relays'[p] = NoTarget THEN Waiting ELSE [pass EXCEPT !.todo = @ \ {p}]
  /\ UNCHANGED <<targets, rules, dual, blocked, wishes, trouble, foreign, shifted>>

\* Reconcile removes stale relays once every port was upserted.
RemoveStale ==
  /\ pass.pc = "relays"
  /\ pass.todo = {}
  /\ relays' = [p \in PublicPorts |-> IF pass.want[p] = NoTarget THEN NoTarget ELSE relays[p]]
  /\ pass' = [pass EXCEPT !.pc = "list"]
  /\ UNCHANGED <<targets, rules, dual, blocked, wishes, trouble, foreign, shifted>>

\* A managed rule is stale if its port is not wanted or an earlier rule has it.
StaleRules(want) ==
  {n \in DOMAIN rules : /\ rules[n] # Foreign
                        /\ \/ want[rules[n]] = NoTarget
                           \/ \E m \in 1 .. n - 1 : rules[m] = rules[n]}

\* Mutant: from the first rule to the last.
FirstNumber(n) == n \in pass.numbers /\ \A m \in pass.numbers : n <= m

\* Numbers move when a rule is deleted, so the last one goes first.
NextNumber(n) == n \in pass.numbers /\ \A m \in pass.numbers : m <= n

\* ufw status numbered.
ListRules ==
  /\ pass.pc = "list"
  /\ pass' = [pass EXCEPT !.pc = "delete", !.numbers = StaleRules(pass.want),
                          !.missing = {p \in Wanted(pass.want) : \A n \in DOMAIN rules : rules[n] # p}]
  /\ UNCHANGED <<targets, relays, rules, dual, blocked, wishes, trouble, foreign, shifted>>

\* ufw --force delete <number>.
DeleteRule ==
  /\ pass.pc = "delete"
  /\ \E n \in pass.numbers :
       /\ NextNumber(n)
       /\ IF n \in DOMAIN rules
          THEN /\ rules' = RemoveAt(rules, n)
               /\ pass' = [pass EXCEPT !.numbers = @ \ {n}]
          ELSE /\ pass' = Waiting
               /\ UNCHANGED rules
  /\ UNCHANGED <<targets, relays, dual, blocked, wishes, trouble, foreign, shifted>>

\* ufw allow, the lowest port first: IPv4 rules precede IPv6 rules, which the listing shows with the
\* same port and comment.
AllowRule ==
  /\ pass.pc = "delete"
  /\ pass.numbers = {}
  /\ \E p \in pass.missing :
       /\ \A o \in pass.missing : p <= o
       /\ rules' = IF dual THEN <<p>> \o rules \o <<p>> ELSE Append(rules, p)
       /\ pass' = [pass EXCEPT !.missing = @ \ {p}]
  /\ UNCHANGED <<targets, relays, dual, blocked, wishes, trouble, foreign, shifted>>

EndPass ==
  /\ pass.pc = "delete"
  /\ pass.numbers = {}
  /\ pass.missing = {}
  /\ pass' = [pass EXCEPT !.pc = "done"]
  /\ UNCHANGED <<targets, relays, rules, dual, blocked, wishes, trouble, foreign, shifted>>

-----------------------------------------------------------------------------
(* What happens around it.                                                 *)

ChangeTargets ==
  /\ wishes < MaxWishes
  /\ wishes' = wishes + 1
  /\ \E p \in PublicPorts, t \in RelayTargets \union {NoTarget} :
       targets[p] # t /\ targets' = [targets EXCEPT ![p] = t]
  /\ UNCHANGED <<relays, rules, dual, pass, blocked, trouble, foreign, shifted>>

Trouble == trouble < MaxTrouble /\ trouble' = trouble + 1

\* The agent stops and starts again: its listeners are gone.
AgentRestarts ==
  /\ Trouble
  /\ relays' = NoTargets
  /\ pass' = Waiting
  /\ UNCHANGED <<targets, rules, dual, blocked, wishes, foreign, shifted>>

\* The server cannot be reached, or a command fails.
StepFails ==
  /\ Trouble
  /\ pass.pc # "wait"
  /\ pass' = Waiting
  /\ UNCHANGED <<targets, relays, rules, dual, blocked, wishes, foreign, shifted>>

\* Another program takes a port nobody relays, or gives it back.
PortTakenElsewhere(p) ==
  /\ Trouble
  /\ relays[p] = NoTarget /\ p \notin blocked
  /\ blocked' = blocked \union {p}
  /\ UNCHANGED <<targets, relays, rules, dual, pass, wishes, foreign, shifted>>

PortGivenBack(p) ==
  /\ p \in blocked
  /\ blocked' = blocked \ {p}
  /\ UNCHANGED <<targets, relays, rules, dual, pass, wishes, trouble, foreign, shifted>>

\* ufw insert.
AdminAddsRule ==
  /\ Trouble
  /\ \E n \in 1 .. Len(rules) + 1 : rules' = InsertAt(rules, n, Foreign)
  /\ foreign' = foreign + 1
  /\ shifted' = (shifted \/ pass.numbers # {})
  /\ UNCHANGED <<targets, relays, dual, pass, blocked, wishes>>

AgentStep ==
  \/ Fetch \/ RemoveStale \/ ListRules \/ DeleteRule \/ AllowRule \/ EndPass
  \/ \E p \in PublicPorts : Upsert(p)

RelayNext ==
  \/ AgentStep \/ ChangeTargets \/ AgentRestarts \/ StepFails \/ AdminAddsRule
  \/ \E p \in PublicPorts : PortTakenElsewhere(p) \/ PortGivenBack(p)

\* The ticker of runWireGuardWorker never stops.
RelayFairness == WF_relayVars(AgentStep)

RelaySpec == RelayInit /\ [][RelayNext]_relayVars /\ RelayFairness

-----------------------------------------------------------------------------
(* Properties.                                                             *)

\* After a pass every wanted port is relayed to its target and open in the firewall, no other port
\* is; the administrator's rules are never deleted, unless one was inserted between the listing of
\* the rules and a deletion by number.
ReconcileExact ==
  ~shifted =>
    /\ Cardinality({n \in DOMAIN rules : rules[n] = Foreign}) = foreign
    /\ pass.pc = "done" =>
         /\ Wanted(relays) \subseteq Wanted(pass.want)
         /\ \A p \in Wanted(pass.want) : relays[p] = pass.want[p]
         /\ {rules[n] : n \in DOMAIN rules} \ {Foreign} = Wanted(pass.want)

\* Once nobody holds a port the agent needs, access that was revoked is cut and access that was
\* granted is relayed, whatever crashed or failed before; a port that stays taken blocks this.
RelaysConverge == <>[](blocked = {}) => <>[](relays = targets)
=============================================================================
