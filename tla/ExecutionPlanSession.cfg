\* Two executions of one session, a crash, and a write that raises.
CONSTANTS
  Plans = {p1, p2}
  NoPlan = NoPlan
  MaxSkipped = 1
  Backends = {TRUE, FALSE}
  MaxCrashes = 1
  MaxFaults = 1
SPECIFICATION FairSpec
INVARIANTS
  TypeInvariant
  SentIsOnRecord
  PrecheckFailureSentNothing
  EndedPlanMatchesSteps
  DependenciesFirst
  AdviceAfterClose
PROPERTIES
  EveryPlanEnds
  ImplementsPlanContract
\* A session may end with all its plans.
CHECK_DEADLOCK FALSE
