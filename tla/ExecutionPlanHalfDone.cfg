\* One execution and a crash.
CONSTANTS
  Plans = {p1}
  NoPlan = NoPlan
  MaxSkipped = 1
  Backends = {TRUE}
  MaxCrashes = 1
  MaxFaults = 0
SPECIFICATION Spec
INVARIANTS
  HalfDoneIsManual
\* A session may end with all its plans.
CHECK_DEADLOCK FALSE
