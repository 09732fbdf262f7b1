\* Every endpoint, one call at a time.
CONSTANTS
  HighRisk = {h1, h2}
  LowRisk = {l1}
  MaxCalls = 4
  MaxApprovals = 2
  MaxInterrupts = 4
  MaxInFlight = 1
  MaxCrashes = 0
  ReuseTicketId = TRUE
  DecisionApi = TRUE
SPECIFICATION Spec
SYMMETRY Symmetry
INVARIANTS
  AwaitingIsResumable
\* The bounds stop every conversation in the end.
CHECK_DEADLOCK FALSE
