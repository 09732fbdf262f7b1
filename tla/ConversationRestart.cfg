\* One call at a time and a restart.
CONSTANTS
  HighRisk = {h1}
  LowRisk = {l1}
  MaxCalls = 3
  MaxApprovals = 2
  MaxInterrupts = 3
  MaxInFlight = 1
  MaxCrashes = 1
  ReuseTicketId = FALSE
  DecisionApi = FALSE
SPECIFICATION Spec
INVARIANTS
  AwaitingIsResumable
\* The bounds stop every conversation in the end.
CHECK_DEADLOCK FALSE
