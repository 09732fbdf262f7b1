\* The conversation endpoints, two calls in progress, with fairness.
CONSTANTS
  HighRisk = {h1}
  LowRisk = {l1}
  MaxCalls = 3
  MaxApprovals = 2
  MaxInterrupts = 3
  MaxInFlight = 2
  MaxCrashes = 0
  ReuseTicketId = FALSE
  DecisionApi = FALSE
SPECIFICATION FairSpec
INVARIANTS
  InterruptFollowsApproval
  AwaitingIsResumable
PROPERTIES
  NoMessageDuringExecution
  ActiveSettles
\* The bounds stop every conversation in the end.
CHECK_DEADLOCK FALSE
