SPECIFICATION Spec
CONSTANTS
  Actors = {human}
  Agents = {}
  PlanRevisions = {1, 2}
  VGates = {}
  EvTypes = {"test"}
  Compatible <- AnyCompatible
  EvidenceIds = {}
  GateIds = {g1, g2}
  ScopeRequests = {}
  DraftReviews = {}
  ReviewSubject = {}
  DraftPRPermitted = FALSE
  MaxAudit = 6
  Handlers = {h1}
  MaxRevision = 8
  NoMission = NoMission
  Idle = Idle
PROPERTY RunningPlanApproved
CHECK_DEADLOCK FALSE
