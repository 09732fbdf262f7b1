\* Approve, reject the feedback, approve again.
CONSTANTS
  HighRisk = {h1, h2}
  LowRisk = {l1}
  MaxCalls = 4
  MaxApprovals = 2
  MaxInterrupts = 4
  MaxInFlight = 1
  MaxCrashes = 0
  ReuseTicketId = FALSE
  DecisionApi = FALSE
SPECIFICATION Spec
INVARIANTS
  ApprovedActionExecuted
\* The bounds stop every conversation in the end.
CHECK_DEADLOCK FALSE
