\* A restored checkpoint names an interrupt that is closed.
CONSTANTS
  HighRisk = {h1}
  LowRisk = {l1}
  MaxCalls = 5
  MaxApprovals = 2
  MaxInterrupts = 5
  MaxInFlight = 1
  MaxCrashes = 0
  ReuseTicketId = FALSE
  DecisionApi = FALSE
SPECIFICATION Spec
INVARIANTS
  PendingIsLive
\* The bounds stop every conversation in the end.
CHECK_DEADLOCK FALSE
