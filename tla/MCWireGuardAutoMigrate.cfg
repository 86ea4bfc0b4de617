CONSTANTS
  Agents = {a1}
  AgentId <- MCAgentId
  NoAgent = NoAgent
  Keys = {k1}
  NoKey = NoKey
  Handlers = {h1, h2}
  UniqueIndex = FALSE
  MaxAttempts = 2
  MaxJobs = 2
  MaxAsked = 2
  MaxFaults = 1
SPECIFICATION Spec
INVARIANTS
  SingleActive
CHECK_DEADLOCK FALSE
