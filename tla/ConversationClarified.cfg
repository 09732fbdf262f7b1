\* A clarification in a later round.
CONSTANTS
  HighRisk = {h1}
  LowRisk = {l1}
  MaxCalls = 4
  MaxApprovals = 2
  MaxInterrupts = 4
  MaxInFlight = 1
  MaxCrashes = 0
  ReuseTicketId = FALSE
  DecisionApi = FALSE
SPECIFICATION Spec
PROPERTIES
  ClarificationResumesItsRun
\* The bounds stop every conversation in the end.
CHECK_DEADLOCK FALSE
