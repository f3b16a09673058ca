SPECIFICATION Spec
CONSTANTS
  FcPlans <- MCPlans
  FcListings <- MCListings
  FcPeerIds = {"edge1", "edge3"}
  FcStartPeers <- MCPeers
  QuorumThreshold = 70
  MaxFcTasks = 2
  MaxPeerChanges = 1
  MaxFcEdges = 1
  Loops = {l1, l2}
  MaxIterations = 2
  GateAt = 2
  MaxToolCalls = 1
  Batch = 1
  MaxTasks = 1
  MaxPauses = 0
  EngineSessions = {s1}
  Skills = {n1}
  Codes = {c1, c2}
  OnboardingFiles = 4
  MaxTalkTurns = 2
  HandoffThreshold = 3
  Window = 2
  MaxExchanges = 4
  MaxRestarts = 1
  RespRequests = {r1, r2}
  Accts <- MCAccounts
  Providers = {"p", "q"}
  DefaultProvider = "p"
  BaseCooldown = 1
  MaxCooldown = 3
  MaxClock = 3
  GovMembers <- MCMembers
  Rules = {r1}
  MaxProposals = 1
  FailureLimit = 2
  MaxKeys = 3
  PlTasks = {t1}
  Requests <- MCRequests
  PlRoles = {r1, r2}
  MaxRuns = 2
  MaxPlans = 1
  TgTasks = {t1, t2}
  TgScopes <- MCScopes
  TgPaths <- MCPaths
  TgProtected <- MCProtected
  TgForbidden <- MCForbidden
  MaxTurns = 2
  MaxRepairs = 2
  MaxCalls = 3
  Dispatches = {d1, d2}
  SbFiles = {f1, f2}
  AtOnce = 2
  MaxFaults = 1
  Programs = {g1, g2}
  BoardTasks = {t1, t2}
  Callers = {c1, c2}
  MaxLines = 4
  Phases = {1, 2, 3}
  SweepThreshold = 0
  MaxSweeps = 3
INVARIANTS LimitsHold AnswersAreWhole GatesHold WorkspaceIsConsistent
PROPERTY StepsAreComplete
CHECK_DEADLOCK FALSE
