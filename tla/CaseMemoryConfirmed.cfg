CONSTANTS
  Sessions = {1, 2}
  ServiceType <- OneServiceType
  FailureModes = {m1}
  NoMode = NoMode
  MinCases = 2
  MaxRuns = 2
  MaxReviews = 2
  MaxEdits = 1
  MaxSyncs = 1
  MaxDeaths = 1
SPECIFICATION CaseMemorySpec
INVARIANT IndexHoldsConfirmed
CHECK_DEADLOCK FALSE
