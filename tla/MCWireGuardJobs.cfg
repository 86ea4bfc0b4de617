CONSTANTS
  Agents = {a1}
  AgentId <- MCAgentId
  NoAgent = NoAgent
  Keys = {k1, k2}
  NoKey = NoKey
  Handlers = {h1, h2}
  UniqueIndex = TRUE
  MaxAttempts = 2
  MaxJobs = 2
  MaxAsked = 3
  MaxFaults = 1
SPECIFICATION Spec
SYMMETRY Symmetry
INVARIANTS
  TypeOK
  SingleActive
  SucceededMeansApplied
  RouterHears
  DivergenceShows
PROPERTIES
  FinishedStays
CHECK_DEADLOCK FALSE
