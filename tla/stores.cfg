SPECIFICATION Spec
CONSTANTS
  MaxLeaves = 9
  Replicas = {a, b}
  DefaultTenant = default
  AuditTenants = {default, admin}
  MaxRecords = 3
  MaxEvents = 2
  MaxInFlight = 1
  LedgerTasks = {k1, k2}
  Recorders = {q1, q2}
  LedgerOf <- OneObject
  MaxRuntimeEvents = 4
  MaxSaves = 2
  Callers = {c1, c2}
  AccountIds = {a1, a2}
  UsageIds = {u1}
  TokenBudget = 1
  CostThreshold = 1
  StartCredits = 1
  MaxTokens = 1
  MaxChanges = 2
  MaxFaults = 1
  BillTenants = {"t1", "t2"}
  Customers = {"c1", "c2"}
  StripeEvents <- MCEvents
  NoTenant = "none"
  MaxRows = 3
  RequestLimit = 1
  Window = 3
  MaxWait = 2
  MaxTime = 5
  MaxPending = 2
  DsReplicas = {r1, r2}
  Mirrors = 2
  MaxStamp = 3
  MaxCrashes = 2
  Stores = {st1, st2}
  MemorySessions = {s1, s2}
  Texts = {x1}
  RecordKinds <- MCKinds
  MaxLtmChanges = 2
  MaxFound = 5
  ResultLimits = {1, 2, 3, 4}
  Oversample = 3
  Servers = {v1, v2}
  Mistakes = {m1, m2}
  m1 = m1
  m2 = m2
  Senders = {e1, e2}
  TrustedSenders = {e1}
  PushedIds <- MCIds
  Batches <- MCBatches
  MaxDays = 2
  MaxLessons = 3
  VmNodes = {w1, w2}
  VmIds = {i1}
  VmUnattested = {}
  MaxWrites = 2
  MaxRules = 1
INVARIANTS HashesVerify ReplicasConverge ReadsSeeWrites EffectsHappenOnce TenantsAreSeparate
PROPERTIES HistoriesOnlyGrow ImplementsEventLog
CHECK_DEADLOCK FALSE
