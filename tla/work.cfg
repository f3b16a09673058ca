SPECIFICATION Spec
CONSTANTS
  WfSteps = {1, 2, 3}
  WfDefs <- MCDefs
  MaxConcurrent = 2
  MaxExecutes = 2
  MaxCrashes = 1
  Main = main
  Subs = {s1, s2}
  Turns = 1
  Attempts = 2
  Slots = 1
  Workers = 1
  Budgets <- MCBudgets
  SwTasks = {t1}
  SwNodes = {n1, n2}
  Subtasks = 2
  MaxBeats = 3
  NoNode = none
  Loops = {l1}
  MaxIterations = 2
  GateAt = 2
  MaxToolCalls = 2
  Batch = 2
  MaxTasks = 1
  MaxPauses = 1
  PoolTasks = {p1, p2, p3}
  MaxHeavy = 1
  MaxTelemetry = 2
  Epoch = 100
INVARIANTS CheckpointsAreTrue SuccessIsWhole ResourcesAreReturned
PROPERTIES WorkEnds StartedAfterDependencies
CHECK_DEADLOCK FALSE
