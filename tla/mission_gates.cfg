SPECIFICATION Spec
CONSTANTS
  Actors = {human, bot}
  Agents = {bot}
  PlanRevisions = {1}
  VGates = {}
  EvTypes = {"test"}
  Compatible <- AnyCompatible
  EvidenceIds = {}
  GateIds = {g1, g2}
  ScopeRequests = {s1}
  DraftReviews = {d1}
  ReviewSubject = {d1}
  DraftPRPermitted = TRUE
  MaxAudit = 6
  Handlers = {h1}
  MaxRevision = 9
  NoMission = NoMission
  Idle = Idle
SYMMETRY IdSymmetry
INVARIANTS GatedStepsStandApproved AgentMissionsNeverExecute
CHECK_DEADLOCK FALSE
