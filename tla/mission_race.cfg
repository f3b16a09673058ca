SPECIFICATION Spec
CONSTANTS
  Actors = {human}
  Agents = {}
  PlanRevisions = {1}
  VGates = {tests}
  EvTypes = {"test"}
  Compatible <- AnyCompatible
  EvidenceIds = {ev1, ev2}
  GateIds = {g1}
  ScopeRequests = {}
  DraftReviews = {}
  ReviewSubject = {}
  DraftPRPermitted = FALSE
  MaxAudit = 2
  Handlers = {h1, h2}
  MaxRevision = 3
  NoMission = NoMission
  Idle = Idle
SYMMETRY IdSymmetry
INVARIANTS TypeOK PendingIsOneEdit ReceiptsMatchAudit DecisionsAndEvidenceSound
PROPERTY NoLostUpdate
CHECK_DEADLOCK FALSE
