CONSTANTS
  Approvals = {a1, a2}
  Processes = {p1, p2}
  MaxEvents = 4

  Sessions = {1, 2}
  ServiceType <- OneServiceType
  FailureModes = {m1}
  NoMode = NoMode
  MinCases = 2
  MaxRuns = 2
  MaxReviews = 2
  MaxEdits = 1
  MaxSyncs = 1
  MaxDeaths = 1

  Candidates = {1, 2}
  CaseNames = {n1}
  Exporters = {x1}
  Mergers = {g1, g2}
  MaxScripts = 3
  MaxStatusCalls = 1
  MaxScriptDeaths = 1

  Handlers = {h1, h2}
  QueueLimit = 2
  MaxItems = 2
  CompactedItems = 1
  MaxTurns = 3
  MaxFailures = 1
  MaxMemoryDeaths = 1

  health = health
  pods = pods
  logs = logs
  upstream = upstream
  kb = kb
  hist = hist
  Tools = {health, pods, logs, upstream, kb, hist}
  NotATool = NotATool
  KnowledgeSearch = kb
  CaseSearch = hist
  Helpers = {health}
  Defaults <- DefaultTools
  ToolGroup <- Groups
  ExpansionPriority <- Priorities
  Adjacency <- Neighbours
  EmptyTexts <- TextsOfNothing
  Tickets <- SomeTickets
  MaxIterations = 2
  MaxToolCalls = 3
  MaxParallelBranches = 3
  MaxCandidates = 10
  MaxAsked = 2

  Clues <- SomeClues

  Services = {s1}
  GateInputs <- OneOrTwoProposals
  MaxGateDeaths = 1

  NumDocs = 2
  Paragraphs = {"a", "b", "c"}
  Contents <- BeforeAndAfter
  AskedFor = {"a"}
  Searchers = {q1}
  MaxKbEdits = 1
  MaxKbSyncs = 1
  MaxRagDeaths = 1

  NumIndexed = 5
  CaseRows <- SomeRows
  TopK = 2
  MaxReplacements = 1
SPECIFICATION ComponentsSpec
INVARIANTS
  ApprovalStoreTypeOK
  FirstResolutionWins
  VerifiedIffConfirmed
  AnsweredWasReviewed
  IndexHoldsVerified
  RecalledAsApproved
  DatasetsAreClean
  EventsLostOnlyToOverlap
  CorrectionsRemembered
  SupplementsYieldToBetter
  InterruptCopiesAgree
  BudgetOvershootBounded
  NoQuestionRunsAgain
  AnswersRestOnALook
  ConfirmedOutranksUnconfirmed
  NothingRiskyWithoutAHuman
  ApprovedDestructionRuns
  InterruptNamesRequest
  HitsAreWhatWasScored
  SyncedIsWhatWasRead
  BestMatchesShown
PROPERTIES
  ImplementsContract
  RunsKeepFeedback
CHECK_DEADLOCK FALSE
