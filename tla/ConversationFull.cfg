\* Every endpoint, two calls in progress, a crash, and a client that creates twice.
CONSTANTS
  HighRisk = {h1}
  LowRisk = {l1}
  MaxCalls = 3
  MaxApprovals = 2
  MaxInterrupts = 3
  MaxInFlight = 2
  MaxCrashes = 1
  ReuseTicketId = TRUE
  DecisionApi = TRUE
SPECIFICATION Spec
INVARIANTS
  TypeOK
  OnlyApprovedExecuted
  OneCallPerDecision
PROPERTIES
  ImplementsContract
\* The bounds stop every conversation in the end.
CHECK_DEADLOCK FALSE
