--------------------------- MODULE MCWireGuardJobs ---------------------------
(* Values for the model checker. *)
EXTENDS WireGuardJobs, TLC

\* The default of NOBLIFI_AGENT_ID for every agent.
MCAgentId == [a \in Agents |-> "noblifi-agent-01"]

Symmetry == Permutations(Keys) \union Permutations(Handlers)
=============================================================================
