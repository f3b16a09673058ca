----------------------------- MODULE WorkProofs -----------------------------
(***************************************************************************)
(* Theorems about the parts that carry work from its start to its end, for *)
(* any workflow definitions, debates, swarms, loops and pools: one         *)
(* inductive invariant per part, kept by every action of the part. That of *)
(* the agent loop is in AgentLoopProofs.                                   *)
(***************************************************************************)
EXTENDS MCWork, AgentLoopProofs

-----------------------------------------------------------------------------
(* The workflow engine.                                                    *)

\* A run in progress is not yet a success; a step that failed under the policy
\* "fail" is in the batch being gathered, so none is left when the loop decides
\* that all is done; and a step of the batch that has not begun still has its
\* dependencies, because a finished step is never touched again.
WfInv ==
    /\ WfTypeOK
    /\ wfPc # "idle" => run.status # "success"
    /\ wfPc # "idle" => \A s \in WfSteps : run.steps[s] = "failed" /\ wfDef.policy[s] = "fail" => s \in batch
    /\ \A s \in batch : run.steps[s] = "pending" => DepsOk(wfDef, run, s)
    /\ CompletedStepsAreSaved
    /\ SuccessHasNoFatalFailure

LEMMA SetStepIsARun ==
    ASSUME NEW r \in RunStates, NEW s \in WfSteps, NEW status \in StepStatus,
           NEW rs \in {"running", "failed", "success"}
    PROVE  [r EXCEPT !.steps[s] = status, !.status = rs]
             = [status |-> rs, steps |-> [r.steps EXCEPT ![s] = status]]
<1>1. PICK rst \in {"running", "failed", "success"}, rsteps \in [WfSteps -> StepStatus] :
          r = [status |-> rst, steps |-> rsteps]
    BY DEF RunStates
<1> DEFINE new == [rsteps EXCEPT ![s] = status]
<1>2. [r EXCEPT !.steps[s] = status] = [status |-> rst, steps |-> new]
    BY <1>1
<1>3. PICK mid : mid = [r EXCEPT !.steps[s] = status]
    OBVIOUS
<1>4. [r EXCEPT !.steps[s] = status, !.status = rs] = [mid EXCEPT !.status = rs]
    BY <1>3
<1>5. mid = [status |-> rst, steps |-> new]
    BY <1>2, <1>3
<1>6. r.steps = rsteps
    BY <1>1
<1> HIDE DEF new
<1>7. [mid EXCEPT !.status = rs] = [status |-> rs, steps |-> new]
    BY ONLY <1>5
<1> QED
    BY <1>4, <1>6, <1>7 DEF new

LEMMA WfInitHolds == WfInit => WfInv
<1> SUFFICES ASSUME WfInit PROVE WfInv
    OBVIOUS
<1>1. NewRun \in RunStates
    BY DEF NewRun, RunStates, StepStatus
<1>2. Cardinality({}) = 0
    BY FS_EmptySet
<1>3. WfTypeOK
    BY <1>1, <1>2, WorkflowAssumption DEF WfInit, WfTypeOK, HealingAttempts
<1> QED
    BY <1>3 DEF WfInit, WfInv, CompletedStepsAreSaved, SuccessHasNoFatalFailure

\* A run begins: nothing in it has failed and nothing is chosen yet.
LEMMA ExecuteKeepsWfInv ==
    ASSUME WfInv, ExecuteResume \/ ExecuteNew
    PROVE  WfInv'
<1>1. CASE ExecuteResume
  <2>1. PICK r \in RunStates : checkpoint = <<r>>
      BY <1>1 DEF ExecuteResume, WfInv, WfTypeOK
  <2>2. /\ checkpoint' = <<r>> /\ run' = ResetFailed(r) /\ wfPc' = "loop" /\ batch' = {}
        /\ r.status = "failed" /\ wfDef' = wfDef /\ attempts' = attempts
      BY <1>1, <2>1 DEF ExecuteResume, WfInv, WfTypeOK
  <2>3. run' \in RunStates /\ run'.status = "running"
      BY <2>1, <2>2 DEF ResetFailed, RunStates, StepStatus
  <2>4. \A s \in WfSteps : run'.steps[s] # "failed" /\ (run'.steps[s] \in {"success", "skipped"} => run'.steps[s] = r.steps[s])
      BY <2>1, <2>2 DEF ResetFailed, RunStates
  <2>5. WfTypeOK'
      BY <1>1, <2>1, <2>2, <2>3 DEF ExecuteResume, WfInv, WfTypeOK
  <2>6. CompletedStepsAreSaved'
      BY <2>2, <2>4 DEF CompletedStepsAreSaved
  <2>7. SuccessHasNoFatalFailure'
      BY <2>2 DEF SuccessHasNoFatalFailure
  <2> QED
      BY <2>2, <2>3, <2>4, <2>5, <2>6, <2>7 DEF WfInv
<1>2. CASE ExecuteNew
  <2>1. NewRun \in RunStates /\ NewRun.status = "running" /\ \A s \in WfSteps : NewRun.steps[s] = "pending"
      BY DEF NewRun, RunStates, StepStatus
  <2>2. WfTypeOK'
      BY <1>2, <2>1 DEF ExecuteNew, WfInv, WfTypeOK
  <2>3. CompletedStepsAreSaved' /\ SuccessHasNoFatalFailure'
      BY <1>2, <2>1 DEF ExecuteNew, CompletedStepsAreSaved, SuccessHasNoFatalFailure
  <2> QED
      BY <1>2, <2>1, <2>2, <2>3 DEF ExecuteNew, WfInv, WfTypeOK
<1> QED
    BY <1>1, <1>2

\* The ends of a run: what is saved as a success has no fatal failure, because
\* the loop decides so with an empty batch.
LEMMA EndKeepsWfInv ==
    ASSUME WfInv, NEW status \in {"failed", "success"}, End(status),
           status = "success" => wfPc = "loop"
    PROVE  WfInv'
<1>1. run' = [run EXCEPT !.status = status] /\ checkpoint' = <<run'>> /\ wfPc' = "idle" /\ batch' = {}
      /\ wfDef' = wfDef /\ attempts' = attempts
    BY DEF End, Save
<1>2. run \in RunStates /\ run' \in RunStates /\ run'.status = status /\ run'.steps = run.steps
    BY <1>1 DEF WfInv, WfTypeOK, RunStates
<1>3. Cardinality({}) = 0
    BY FS_EmptySet
<1>4. WfTypeOK'
    BY <1>1, <1>2, <1>3, WorkflowAssumption DEF WfInv, WfTypeOK
<1>5. status = "success" => ~Fatal(wfDef, run, WfSteps)
  <2> SUFFICES ASSUME status = "success" PROVE ~Fatal(wfDef, run, WfSteps)
      OBVIOUS
  <2>1. wfPc = "loop" /\ batch = {}
      BY DEF WfInv, WfTypeOK
  <2> QED
      BY <2>1 DEF WfInv, Fatal
<1>6. SuccessHasNoFatalFailure'
    BY <1>1, <1>2, <1>5 DEF SuccessHasNoFatalFailure, Fatal
<1> QED
    BY <1>1, <1>4, <1>6 DEF WfInv, CompletedStepsAreSaved

\* A step of the batch moves on: pending to running, running to finished.
LEMMA StepKeepsWfInv ==
    ASSUME WfInv, wfPc = "gather", NEW s \in batch, NEW status \in StepStatus \ {"pending"},
           NEW rs \in {"running", "failed"},
           run.steps[s] \in {"pending", "running"}, SetStep(s, status, rs),
           UNCHANGED <<wfDef, wfPc, batch, attempts>>
    PROVE  WfInv'
<1>1. run \in RunStates /\ s \in WfSteps
    BY DEF WfInv, WfTypeOK
<1>2. run' = [status |-> rs, steps |-> [run.steps EXCEPT ![s] = status]]
  <2>1. status \in StepStatus /\ rs \in {"running", "failed", "success"}
      OBVIOUS
  <2>2. [run EXCEPT !.steps[s] = status, !.status = rs] = [status |-> rs, steps |-> [run.steps EXCEPT ![s] = status]]
      BY <1>1, <2>1, SetStepIsARun
  <2> QED
      BY <2>2 DEF SetStep
<1>3. run' \in RunStates
    BY <1>1, <1>2 DEF RunStates
<1>4. run'.status = rs /\ checkpoint' = <<run'>>
      /\ \A t \in WfSteps : run'.steps[t] = IF t = s THEN status ELSE run.steps[t]
    BY <1>1, <1>2 DEF RunStates, SetStep, Save
<1>5. WfTypeOK'
    BY <1>3, <1>4 DEF WfInv, WfTypeOK
<1>6. ASSUME NEW t \in WfSteps, run'.steps[t] = "failed", wfDef.policy[t] = "fail"
      PROVE  t \in batch
    BY <1>4, <1>6 DEF WfInv
<1>7. ASSUME NEW t \in batch, run'.steps[t] = "pending"
      PROVE  DepsOk(wfDef, run', t)
  <2>1. t \in WfSteps /\ run.steps[t] = "pending" /\ DepsOk(wfDef, run, t)
      BY <1>4, <1>7 DEF WfInv, WfTypeOK
  <2>2. \A p \in StepDependencies(wfDef, t) : p # s
      BY <2>1 DEF DepsOk
  <2>3. StepDependencies(wfDef, t) \subseteq WfSteps
    <3>1. wfDef \in WfDefinitions
        BY WorkflowAssumption DEF WfInv, WfTypeOK
    <3> QED
        BY <2>1, <3>1 DEF StepDependencies, WfDefinitions
  <2> QED
      BY <1>4, <2>1, <2>2, <2>3 DEF DepsOk
<1>8. CompletedStepsAreSaved' /\ SuccessHasNoFatalFailure'
    BY <1>4 DEF CompletedStepsAreSaved, SuccessHasNoFatalFailure
<1> QED
    BY <1>4, <1>5, <1>6, <1>7, <1>8 DEF WfInv

LEMMA WfStepKeepsWfInv ==
    ASSUME WfInv, WfStep
    PROVE  WfInv'
<1>1. CASE CycleDetected
    BY <1>1, EndKeepsWfInv DEF CycleDetected
<1>2. CASE UnknownStep
  <2>1. Cardinality({}) = 0
      BY FS_EmptySet
  <2>2. WfTypeOK'
      BY <1>2, <2>1, WorkflowAssumption DEF UnknownStep, Raise, WfInv, WfTypeOK
  <2> QED
      BY <1>2, <2>2 DEF UnknownStep, Raise, WfInv, CompletedStepsAreSaved, SuccessHasNoFatalFailure
<1>3. CASE Complete
    BY <1>3, EndKeepsWfInv DEF Complete, Evaluating
<1>4. CASE DeadlockDetected
    BY <1>4, EndKeepsWfInv DEF DeadlockDetected
<1>5. CASE SleepAndRetry
    BY <1>5 DEF SleepAndRetry, wfVars, WfInv, WfTypeOK, CompletedStepsAreSaved, SuccessHasNoFatalFailure
<1>6. CASE StartBatch
  <2>1. PICK S \in SUBSET Ready(wfDef, run) : S # {} /\ Cardinality(S) <= MaxConcurrent /\ batch' = S
      BY <1>6 DEF StartBatch
  <2>2. Unknown \notin ActiveSteps(wfDef, run) /\ wfPc = "loop" /\ wfPc' = "gather"
        /\ UNCHANGED <<wfDef, run, checkpoint>> /\ attempts' = [s \in WfSteps |-> 0]
      BY <1>6 DEF StartBatch, Evaluating
  <2>3. \A s \in S : s \in ActiveSteps(wfDef, run) /\ DepsOk(wfDef, run, s)
      BY <2>1 DEF Ready
  <2>4. ActiveSteps(wfDef, run) \ {Unknown} \subseteq WfSteps
    <3>1. wfDef \in WfDefinitions /\ 1 \in WfSteps
      <4>1. Cardinality(WfSteps) \in Nat \ {0}
          BY WorkflowAssumption, FS_EmptySet, FS_CardinalityType
      <4> QED
          BY <4>1, WorkflowAssumption DEF WfInv, WfTypeOK
    <3>2. \A s \in WfSteps : Activates(wfDef, run, s) \subseteq WfSteps \cup {Unknown}
        BY <3>1 DEF Activates, WfDefinitions
    <3> QED
        BY <3>1, <3>2 DEF ActiveSteps
  <2>5. S \subseteq WfSteps
      BY <2>2, <2>3, <2>4
  <2>6. WfTypeOK'
      BY <2>1, <2>2, <2>5 DEF WfInv, WfTypeOK, HealingAttempts
  <2>7. batch = {}
      BY <2>2 DEF WfInv, WfTypeOK
  <2> QED
      BY <2>1, <2>2, <2>3, <2>6, <2>7 DEF WfInv, CompletedStepsAreSaved, SuccessHasNoFatalFailure
<1>7. ASSUME NEW s \in WfSteps, StepStart(s)
      PROVE  WfInv'
  <2>1. run.status \in {"running", "failed"}
      BY <1>7 DEF StepStart, WfInv, WfTypeOK, RunStates
  <2> QED
      BY <1>7, <2>1, StepKeepsWfInv DEF StepStart, StepStatus
<1>8. ASSUME NEW s \in WfSteps, AttemptFails(s)
      PROVE  WfInv'
  <2>1. WfTypeOK'
      BY <1>8 DEF AttemptFails, WfInv, WfTypeOK, HealingAttempts
  <2> QED
      BY <1>8, <2>1 DEF AttemptFails, WfInv, CompletedStepsAreSaved, SuccessHasNoFatalFailure
<1>9. ASSUME NEW s \in WfSteps, StepSucceeds(s)
      PROVE  WfInv'
  <2>1. run.status \in {"running", "failed"}
      BY <1>9 DEF StepSucceeds, WfInv, WfTypeOK, RunStates
  <2> QED
      BY <1>9, <2>1, StepKeepsWfInv DEF StepSucceeds, StepStatus
<1>10. ASSUME NEW s \in WfSteps, StepFails(s)
       PROVE  WfInv'
  <2>1. run.status \in {"running", "failed"}
      BY <1>10 DEF StepFails, WfInv, WfTypeOK, RunStates
  <2>2. \E status \in {"skipped", "failed"}, rs \in {"running", "failed"} : SetStep(s, status, rs)
      BY <1>10, <2>1 DEF StepFails
  <2> QED
      BY <1>10, <2>2, StepKeepsWfInv DEF StepFails, StepStatus
<1>11. CASE GatherContinues
  <2>1. Cardinality({}) = 0
      BY FS_EmptySet
  <2>2. WfTypeOK'
      BY <1>11, <2>1, WorkflowAssumption DEF GatherContinues, WfInv, WfTypeOK
  <2>3. \A s \in WfSteps : ~(run.steps[s] = "failed" /\ wfDef.policy[s] = "fail")
      BY <1>11 DEF GatherContinues, BatchDone, Fatal, WfInv
  <2> QED
      BY <1>11, <2>2, <2>3 DEF GatherContinues, BatchDone, WfInv, CompletedStepsAreSaved, SuccessHasNoFatalFailure
<1>12. CASE GatherFatal
    BY <1>12, EndKeepsWfInv DEF GatherFatal
<1> QED
    BY <1>1, <1>2, <1>3, <1>4, <1>5, <1>6, <1>7, <1>8, <1>9, <1>10, <1>11, <1>12 DEF WfStep

LEMMA WfNextKeepsWfInv ==
    ASSUME WfInv, [WfNext]_wfVars
    PROVE  WfInv'
<1>1. CASE Crash
  <2>1. NewRun \in RunStates
      BY DEF NewRun, RunStates, StepStatus
  <2>2. Cardinality({}) = 0
      BY FS_EmptySet
  <2>3. WfTypeOK'
      BY <1>1, <2>1, <2>2, WorkflowAssumption DEF Crash, WfInv, WfTypeOK, HealingAttempts
  <2> QED
      BY <1>1, <2>3 DEF Crash, WfInv, CompletedStepsAreSaved, SuccessHasNoFatalFailure
<1>2. CASE UNCHANGED wfVars
    BY <1>2 DEF wfVars, WfInv, WfTypeOK, CompletedStepsAreSaved, SuccessHasNoFatalFailure
<1> QED
    BY <1>1, <1>2, ExecuteKeepsWfInv, WfStepKeepsWfInv DEF WfNext

\* Only a step of the batch begins, and it still has its dependencies.
LEMMA WfStartsAfterDependencies ==
    ASSUME WfInv, [WfNext]_wfVars, NEW s \in WfSteps,
           wfPc = "gather", run.steps[s] = "pending", run'.steps[s] = "running"
    PROVE  \A p \in StepDependencies(wfDef, s) :
               \/ run.steps[p] \in {"success", "skipped"}
               \/ run.steps[p] = "failed" /\ wfDef.fallback[p] = s
<1>1. s \in batch \/ run' = run \/ wfPc # "gather" \/ run'.steps[s] # "running"
  <2>1. ASSUME NEW t \in WfSteps, StepStart(t) \/ AttemptFails(t) \/ StepSucceeds(t) \/ StepFails(t)
        PROVE  s \in batch \/ run'.steps[s] = run.steps[s]
    <3>1. run \in RunStates
        BY DEF WfInv, WfTypeOK
    <3>2. CASE StepStart(t)
        BY <3>1, <3>2 DEF StepStart, SetStep, RunStates
    <3>3. CASE AttemptFails(t)
        BY <3>3 DEF AttemptFails
    <3>4. CASE StepSucceeds(t)
        BY <3>1, <3>4 DEF StepSucceeds, SetStep, RunStates
    <3>5. CASE StepFails(t)
      <4>1. t \in batch /\ \E st \in StepStatus, rs \in {"running", "failed", "success"} : SetStep(t, st, rs)
          BY <3>1, <3>5 DEF StepFails, RunStates, StepStatus
      <4> QED
          BY <3>1, <4>1 DEF SetStep, RunStates
    <3> QED
        BY <2>1, <3>2, <3>3, <3>4, <3>5
  <2>2. CASE Crash
      BY <2>2 DEF Crash, NewRun
  <2>3. CASE ExecuteResume \/ ExecuteNew \/ UNCHANGED wfVars
      BY <2>3 DEF ExecuteResume, ExecuteNew, wfVars
  <2>4. CASE GatherFatal
    <3>1. run'.steps = run.steps
        BY <2>4 DEF GatherFatal, End, WfInv, WfTypeOK, RunStates
    <3> QED
        BY <3>1
  <2>5. CASE GatherContinues \/ CycleDetected \/ UnknownStep \/ Complete \/ DeadlockDetected \/ SleepAndRetry \/ StartBatch
      BY <2>5 DEF GatherContinues, CycleDetected, UnknownStep, Complete, DeadlockDetected, SleepAndRetry, StartBatch, Evaluating
  <2> QED
      BY <2>1, <2>2, <2>3, <2>4, <2>5 DEF WfNext, WfStep
<1>2. DepsOk(wfDef, run, s)
    BY <1>1 DEF WfInv
<1> QED
    BY <1>2 DEF DepsOk

-----------------------------------------------------------------------------
(* The pools.                                                              *)

\* Between counting a task and balancing the pools another thread may run, but
\* a pool is only out of step with the load while some thread stands there.
PoolInv ==
    /\ thTask \in [PoolTasks -> {"new", "counted", "submitted", "running", "uncounted", "ended"}]
    /\ thCategory \in [PoolTasks -> Categories]
    /\ thActive \in [Categories -> Nat]
    /\ PoolsFitLoad

LEMMA ThrottleInitHolds == ThrottleInit => PoolInv
<1> SUFFICES ASSUME ThrottleInit PROVE PoolInv
    OBVIOUS
<1>1. thActive.heavy = 0 /\ thActive.telemetry = 0 /\ thActive \in [Categories -> Nat]
    BY DEF ThrottleInit, Categories
<1>2. thSize = Sizes(thActive)
    BY <1>1, ThrottleAssumption DEF ThrottleInit, Sizes
<1> QED
    BY <1>1, <1>2 DEF ThrottleInit, PoolInv, PoolsFitLoad

LEMMA PoolStepKeepsPoolInv ==
    ASSUME PoolInv, NEW t \in PoolTasks,
           CountTask(t) \/ SubmitTask(t) \/ RunTask(t) \/ UncountTask(t) \/ LeavePool(t)
    PROVE  PoolInv'
<1> DEFINE Places == {"new", "counted", "submitted", "running", "uncounted", "ended"}
<1>0. thTask \in [PoolTasks -> Places] /\ thCategory[t] \in Categories
    BY DEF PoolInv
<1>1. CASE CountTask(t)
    BY <1>0, <1>1 DEF CountTask, PoolInv, PoolsFitLoad
<1>2. CASE SubmitTask(t)
    BY <1>0, <1>2 DEF SubmitTask, PoolInv, PoolsFitLoad
<1>3. CASE RunTask(t)
    BY <1>0, <1>3 DEF RunTask, PoolInv, PoolsFitLoad
<1>4. CASE UncountTask(t)
  <2>1. \A k \in Nat : Max({0, k - 1}) \in Nat
    <3> SUFFICES ASSUME NEW k \in Nat PROVE Max({0, k - 1}) \in Nat
        OBVIOUS
    <3>1. CASE k = 0
        BY <3>1 DEF Max
    <3>2. CASE k > 0
      <4>1. \E x \in {0, k - 1} : \A y \in {0, k - 1} : x >= y
          BY <3>2
      <4>2. Max({0, k - 1}) \in {0, k - 1}
          BY <4>1 DEF Max
      <4> QED
          BY <3>2, <4>2
    <3> QED
        BY <3>1, <3>2
  <2>2. thActive' \in [Categories -> Nat]
      BY <1>0, <1>4, <2>1 DEF UncountTask, PoolInv
  <2> QED
      BY <1>0, <1>4, <2>2 DEF UncountTask, PoolInv, PoolsFitLoad
<1>5. CASE LeavePool(t)
    BY <1>0, <1>5 DEF LeavePool, PoolInv, PoolsFitLoad
<1> QED
    BY <1>1, <1>2, <1>3, <1>4, <1>5

LEMMA PoolNextKeepsPoolInv ==
    ASSUME PoolInv, PoolNext \/ UNCHANGED poolVars
    PROVE  PoolInv'
<1>1. CASE UNCHANGED poolVars
    BY <1>1 DEF poolVars, PoolInv, PoolsFitLoad
<1> QED
    BY <1>1, PoolStepKeepsPoolInv DEF PoolNext, PoolStep

-----------------------------------------------------------------------------
(* Dispatches to the swarm.                                                *)

WaitingFor(n) == {t \in SwTasks : swPc[t] = "waiting" /\ swTarget[t] = n}

Places == {"new", "waiting", "again", "fallback"} \cup Finished

\* A node that is not registered has no load, a dispatch makes its second
\* attempt at most once, and loads follow the dispatches that wait: with these
\* a release that is clamped at zero hides no reservation that leaked.
SwInv ==
    /\ swNodes \in [SwNodes -> [up : BOOLEAN, load : Nat, stale : BOOLEAN]]
    /\ swPc \in [SwTasks -> Places]
    /\ swAttempt \in [SwTasks -> 0 .. 2] /\ swTarget \in [SwTasks -> SwNodes \cup {NoNode}]
    /\ swTracked \in [SwTasks -> BOOLEAN] /\ swJobs \subseteq Jobs
    /\ swCkpt \in 0 .. Subtasks /\ swDone \subseteq 1 .. Subtasks /\ swBeats \in 0 .. MaxBeats
    /\ \A n \in SwNodes : ~swNodes[n].up => swNodes[n].load = 0
    /\ \A t \in SwTasks : /\ swPc[t] = "new" => swAttempt[t] = 0
                          /\ swPc[t] = "again" => swAttempt[t] < 2
    /\ \A n \in SwNodes : swNodes[n].load <= 1 + Cardinality(WaitingFor(n))
    /\ CheckpointsAreWorkDone

LEMMA WaitingIsFinite ==
    ASSUME NEW n
    PROVE  IsFiniteSet(WaitingFor(n)) /\ Cardinality(WaitingFor(n)) \in Nat
             /\ Cardinality(WaitingFor(n)) <= Cardinality(SwTasks)
<1>1. WaitingFor(n) \subseteq SwTasks
    BY DEF WaitingFor
<1> QED
    BY <1>1, SwarmAssumption, FS_Subset, FS_CardinalityType

LEMMA SwInvGivesTypes ==
    ASSUME SwInv
    PROVE  SwarmTypeOK /\ NoReservationLeaks
<1>1. NoReservationLeaks
    BY DEF SwInv, NoReservationLeaks, WaitingFor
<1>2. \A n \in SwNodes : swNodes[n].load \in 0 .. Cardinality(SwTasks) + 1
    BY WaitingIsFinite, SwarmAssumption, FS_CardinalityType DEF SwInv
<1>3. swNodes \in [SwNodes -> [up : BOOLEAN, load : 0 .. Cardinality(SwTasks) + 1, stale : BOOLEAN]]
    BY <1>2 DEF SwInv
<1> QED
    BY <1>1, <1>3 DEF SwInv, SwarmTypeOK, Places

LEMMA SwarmInitHolds == SwarmInit => SwInv
<1> SUFFICES ASSUME SwarmInit PROVE SwInv
    OBVIOUS
<1>1. \A n \in SwNodes : swNodes[n].load <= 1 + Cardinality(WaitingFor(n))
    BY WaitingIsFinite DEF SwarmInit, Gone
<1>2. CheckpointsAreWorkDone
    BY DEF SwarmInit, CheckpointsAreWorkDone
<1>3. swNodes \in [SwNodes -> [up : BOOLEAN, load : Nat, stale : BOOLEAN]]
    BY DEF SwarmInit, Gone
<1>4. swPc \in [SwTasks -> Places] /\ swAttempt \in [SwTasks -> 0 .. 2]
    BY DEF SwarmInit, Places
<1>5. \A n \in SwNodes : ~swNodes[n].up => swNodes[n].load = 0
    BY DEF SwarmInit, Gone
<1> QED
    BY <1>1, <1>2, <1>3, <1>4, <1>5, SwarmAssumption DEF SwarmInit, SwInv

\* Heartbeats and lost nodes change no dispatch.
LEMMA RegistryKeepsSwInv ==
    ASSUME SwInv, NEW n \in SwNodes, Heartbeat(n) \/ Overdue(n) \/ MarkOffline(n)
    PROVE  SwInv'
<1>1. UNCHANGED <<swPc, swAttempt, swTarget, swTracked, swJobs, swCkpt, swDone>>
    BY DEF Heartbeat, Overdue, MarkOffline, swTask
<1>2. swBeats' \in 0 .. MaxBeats
    BY SwarmAssumption DEF SwInv, Heartbeat, Overdue, MarkOffline
<1>3. PICK r \in [up : BOOLEAN, load : Nat, stale : BOOLEAN] :
          /\ swNodes' = [swNodes EXCEPT ![n] = r]
          /\ ~r.up => r.load = 0
          /\ r.load <= 1 \/ r.load <= swNodes[n].load
  <2>1. CASE Heartbeat(n)
    <3>1. PICK k \in {0, 1} : swNodes' = [swNodes EXCEPT ![n] = [up |-> TRUE, stale |-> FALSE, load |-> k]]
        BY <2>1 DEF Heartbeat
    <3> DEFINE r == [up |-> TRUE, stale |-> FALSE, load |-> k]
    <3>2. r \in [up : BOOLEAN, load : Nat, stale : BOOLEAN] /\ r.up = TRUE /\ r.load <= 1
        OBVIOUS
    <3>3. swNodes' = [swNodes EXCEPT ![n] = r]
        BY <3>1
    <3> HIDE DEF r
    <3> QED
        BY <3>2, <3>3
  <2>2. CASE Overdue(n)
    <3>1. PICK old \in [up : BOOLEAN, load : Nat, stale : BOOLEAN] : old = swNodes[n] /\ old.up
        BY <2>2 DEF Overdue, SwInv
    <3>2. [old EXCEPT !.stale = TRUE] \in [up : BOOLEAN, load : Nat, stale : BOOLEAN]
          /\ [old EXCEPT !.stale = TRUE].up = TRUE /\ [old EXCEPT !.stale = TRUE].load = old.load
        BY <3>1
    <3>3. swNodes' = [swNodes EXCEPT ![n] = [old EXCEPT !.stale = TRUE]]
        BY <2>2, <3>1 DEF Overdue
    <3> DEFINE r == [old EXCEPT !.stale = TRUE]
    <3>4. r \in [up : BOOLEAN, load : Nat, stale : BOOLEAN] /\ r.up = TRUE /\ r.load = swNodes[n].load
          /\ swNodes' = [swNodes EXCEPT ![n] = r] /\ swNodes[n].load \in Nat
        BY <3>1, <3>2, <3>3
    <3>5. (~r.up => r.load = 0) /\ r.load <= swNodes[n].load
        BY <3>4
    <3> HIDE DEF r
    <3> QED
        BY <3>4, <3>5
  <2>3. CASE MarkOffline(n)
    <3>1. Gone \in [up : BOOLEAN, load : Nat, stale : BOOLEAN] /\ (~Gone.up => Gone.load = 0) /\ Gone.load <= 1
        BY DEF Gone
    <3>2. swNodes' = [swNodes EXCEPT ![n] = Gone]
        BY <2>3 DEF MarkOffline
    <3> QED
        BY <3>1, <3>2
  <2> QED
      BY <2>1, <2>2, <2>3
<1>4. swNodes' \in [SwNodes -> [up : BOOLEAN, load : Nat, stale : BOOLEAN]]
    BY <1>3 DEF SwInv
<1>5. \A m \in SwNodes : WaitingFor(m)' = WaitingFor(m)
    BY <1>1 DEF WaitingFor
<1>6. \A m \in SwNodes : swNodes'[m] = IF m = n THEN r ELSE swNodes[m]
    BY <1>3 DEF SwInv
<1>7. \A m \in SwNodes : swNodes'[m].load <= 1 + Cardinality(WaitingFor(m))'
    BY <1>3, <1>5, <1>6, WaitingIsFinite DEF SwInv
<1>8. \A m \in SwNodes : ~swNodes'[m].up => swNodes'[m].load = 0
    BY <1>3, <1>6 DEF SwInv
<1> QED
    BY <1>1, <1>2, <1>4, <1>7, <1>8 DEF SwInv, CheckpointsAreWorkDone

\* The registry without the overdue nodes is no fuller than before.
LEMMA FlushedNodes ==
    ASSUME SwInv
    PROVE  /\ Flushed \in [SwNodes -> [up : BOOLEAN, load : Nat, stale : BOOLEAN]]
           /\ \A n \in SwNodes : Flushed[n].load <= swNodes[n].load /\ (~Flushed[n].up => Flushed[n].load = 0)
<1>1. Gone \in [up : BOOLEAN, load : Nat, stale : BOOLEAN] /\ Gone.load = 0
    BY DEF Gone
<1>2. \A n \in SwNodes : Flushed[n] = IF swNodes[n].stale THEN Gone ELSE swNodes[n]
    BY DEF Flushed
<1>3. Flushed \in [SwNodes -> [up : BOOLEAN, load : Nat, stale : BOOLEAN]]
    BY <1>1 DEF SwInv, Flushed
<1> QED
    BY <1>1, <1>2, <1>3 DEF SwInv

\* A dispatch reserves the node it then waits for.
LEMMA DispatchToKeepsSwInv ==
    ASSUME SwInv, NEW t \in SwTasks, swPc[t] # "waiting", swAttempt[t] < 2,
           NEW n \in SwNodes \cup {NoNode}, DispatchTo(t, n), swTracked' \in [SwTasks -> BOOLEAN],
           n \in SwNodes => swNodes' = Reserved(n) /\ Flushed[n].up,
           n = NoNode => swNodes' = Flushed
    PROVE  SwInv'
<1>1. swPc' = [swPc EXCEPT ![t] = "waiting"] /\ swTarget' = [swTarget EXCEPT ![t] = n]
      /\ swAttempt' = [swAttempt EXCEPT ![t] = @ + 1] /\ UNCHANGED <<swBeats, swCkpt, swDone>>
    BY DEF DispatchTo
<1>2. swPc' \in [SwTasks -> Places] /\ swTarget' \in [SwTasks -> SwNodes \cup {NoNode}]
      /\ swAttempt' \in [SwTasks -> 0 .. 2] /\ swAttempt[t] + 1 \in 1 .. 2
    BY <1>1 DEF SwInv, Places
<1>3. PICK takers \in SUBSET SwNodes :
          swJobs' = swJobs \cup {[task |-> t, attempt |-> swAttempt[t] + 1, node |-> m, done |-> swCkpt] : m \in takers}
    BY DEF DispatchTo, Publish
<1>4. swJobs' \subseteq Jobs
    BY <1>2, <1>3 DEF SwInv, Jobs
<1>5. CheckpointsAreWorkDone'
    BY <1>1, <1>3 DEF SwInv, CheckpointsAreWorkDone
<1>6. \A m \in SwNodes : m # n => WaitingFor(m)' = WaitingFor(m)
    BY <1>1 DEF WaitingFor, SwInv
<1>7. n \in SwNodes => Cardinality(WaitingFor(n))' = Cardinality(WaitingFor(n)) + 1
  <2> SUFFICES ASSUME n \in SwNodes PROVE Cardinality(WaitingFor(n)') = Cardinality(WaitingFor(n)) + 1
      OBVIOUS
  <2>1. WaitingFor(n)' = WaitingFor(n) \cup {t} /\ t \notin WaitingFor(n)
      BY <1>1 DEF WaitingFor, SwInv
  <2> QED
      BY <2>1, WaitingIsFinite, FS_AddElement
<1>8. \A m \in SwNodes : Flushed[m].load \in Nat /\ Flushed[m].load <= 1 + Cardinality(WaitingFor(m))
    BY FlushedNodes, WaitingIsFinite DEF SwInv
<1>9. /\ swNodes' \in [SwNodes -> [up : BOOLEAN, load : Nat, stale : BOOLEAN]]
      /\ \A m \in SwNodes : swNodes'[m].load <= 1 + Cardinality(WaitingFor(m))'
      /\ \A m \in SwNodes : ~swNodes'[m].up => swNodes'[m].load = 0
  <2>1. CASE n = NoNode
      BY <2>1, <1>6, <1>8, FlushedNodes, SwarmAssumption
  <2>2. CASE n \in SwNodes
    <3>1. PICK old \in [up : BOOLEAN, load : Nat, stale : BOOLEAN] : old = Flushed[n] /\ old.up
        BY <2>2, FlushedNodes
    <3>2. PICK r : r = [old EXCEPT !.load = old.load + 1]
        OBVIOUS
    <3>3. r \in [up : BOOLEAN, load : Nat, stale : BOOLEAN] /\ r.up /\ r.load = Flushed[n].load + 1
        BY <3>1, <3>2
    <3>4. swNodes' = [Flushed EXCEPT ![n] = r]
        BY <2>2, <3>1, <3>2 DEF Reserved
    <3>5. \A m \in SwNodes : swNodes'[m] = IF m = n THEN r ELSE Flushed[m]
        BY <3>4, FlushedNodes
    <3>6. swNodes' \in [SwNodes -> [up : BOOLEAN, load : Nat, stale : BOOLEAN]]
        BY <3>3, <3>4, FlushedNodes
    <3>7. \A m \in SwNodes : swNodes'[m].load <= 1 + Cardinality(WaitingFor(m))'
      <4> SUFFICES ASSUME NEW m \in SwNodes PROVE swNodes'[m].load <= 1 + Cardinality(WaitingFor(m)')
          OBVIOUS
      <4>1. CASE m = n
          BY <4>1, <1>7, <1>8, <2>2, <3>3, <3>5, WaitingIsFinite
      <4>2. CASE m # n
          BY <4>2, <1>6, <1>8, <3>5
      <4> QED
          BY <4>1, <4>2
    <3> QED
        BY <3>3, <3>5, <3>6, <3>7, FlushedNodes
  <2> QED
      BY <2>1, <2>2
<1>10. \A u \in SwTasks : /\ swPc'[u] = "new" => swAttempt'[u] = 0
                          /\ swPc'[u] = "again" => swAttempt'[u] < 2
    BY <1>1 DEF SwInv
<1> QED
    BY <1>1, <1>2, <1>4, <1>5, <1>9, <1>10 DEF SwInv

LEMMA BestNodesAreUp ==
    ASSUME NEW n \in BestNodes
    PROVE  n \in SwNodes /\ Flushed[n].up
    BY DEF BestNodes

LEMMA DispatchKeepsSwInv ==
    ASSUME SwInv, NEW t \in SwTasks, Dispatch(t) \/ DispatchAgain(t)
    PROVE  SwInv'
<1>1. CASE Dispatch(t)
  <2>1. swPc[t] = "new" /\ swAttempt[t] < 2
      BY <1>1 DEF Dispatch, SwInv
  <2>2. ASSUME NEW n \in BestNodes, swNodes' = Reserved(n), DispatchTo(t, n), swTracked' = [swTracked EXCEPT ![t] = TRUE]
        PROVE  SwInv'
    <3>1. swTracked' \in [SwTasks -> BOOLEAN]
        BY <2>2 DEF SwInv
    <3> QED
        BY <2>1, <2>2, <3>1, BestNodesAreUp, DispatchToKeepsSwInv, SwarmAssumption
  <2>3. ASSUME swNodes' = Flushed, DispatchTo(t, NoNode), UNCHANGED swTracked
        PROVE  SwInv'
    <3>1. swTracked' \in [SwTasks -> BOOLEAN]
        BY <2>3 DEF SwInv
    <3> QED
        BY <2>1, <2>3, <3>1, DispatchToKeepsSwInv, SwarmAssumption
  <2> QED
      BY <1>1, <2>2, <2>3 DEF Dispatch
<1>2. CASE DispatchAgain(t)
  <2>1. swPc[t] = "again" /\ swAttempt[t] < 2 /\ swTracked' \in [SwTasks -> BOOLEAN]
      BY <1>2 DEF DispatchAgain, SwInv
  <2>2. ASSUME NEW n \in BestNodes, swNodes' = Reserved(n), DispatchTo(t, n)
        PROVE  SwInv'
      BY <2>1, <2>2, BestNodesAreUp, DispatchToKeepsSwInv, SwarmAssumption
  <2>3. ASSUME swNodes' = Flushed, swPc' = [swPc EXCEPT ![t] = "fallback"],
               UNCHANGED <<swBeats, swAttempt, swTarget, swJobs, swCkpt, swDone>>
        PROVE  SwInv'
    <3>1. \A n \in SwNodes : WaitingFor(n)' = WaitingFor(n)
        BY <2>1, <2>3 DEF WaitingFor, SwInv
    <3>2. \A n \in SwNodes : swNodes'[n].load <= 1 + Cardinality(WaitingFor(n))'
        BY <2>3, <3>1, FlushedNodes, WaitingIsFinite DEF SwInv
    <3>3. swPc' \in [SwTasks -> Places] /\ \A u \in SwTasks : /\ swPc'[u] = "new" => swAttempt'[u] = 0
                                                              /\ swPc'[u] = "again" => swAttempt'[u] < 2
        BY <2>3 DEF SwInv, Places
    <3> QED
        BY <2>1, <2>3, <3>2, <3>3, FlushedNodes DEF SwInv, CheckpointsAreWorkDone
  <2> QED
      BY <1>2, <2>2, <2>3 DEF DispatchAgain
<1> QED
    BY <1>1, <1>2

LEMMA TimeoutKeepsSwInv ==
    ASSUME SwInv, NEW t \in SwTasks, DispatchTimesOut(t)
    PROVE  SwInv'
<1> DEFINE n == swTarget[t]
<1>1. swPc[t] = "waiting" /\ n \in SwNodes \cup {NoNode}
    BY DEF DispatchTimesOut, SwInv
<1>2. UNCHANGED <<swBeats, swAttempt, swTarget, swTracked, swJobs, swCkpt, swDone>>
    BY DEF DispatchTimesOut
<1>3. \E pc \in {"again", "fallback"} : swPc' = [swPc EXCEPT ![t] = pc] /\ (pc = "again" => swAttempt[t] < 2)
    BY DEF DispatchTimesOut
<1>4. swPc' \in [SwTasks -> Places]
    BY <1>3 DEF SwInv, Places
<1>5. \A u \in SwTasks : /\ swPc'[u] = "new" => swAttempt'[u] = 0
                         /\ swPc'[u] = "again" => swAttempt'[u] < 2
    BY <1>2, <1>3 DEF SwInv
<1>6. \A m \in SwNodes : m # n => WaitingFor(m)' = WaitingFor(m)
    BY <1>2, <1>3 DEF WaitingFor, SwInv
<1>7. \A m \in SwNodes : swNodes'[m] = IF m = n THEN Gone ELSE swNodes[m]
    BY <1>1, SwarmAssumption DEF DispatchTimesOut, SwInv
<1>8. swNodes' \in [SwNodes -> [up : BOOLEAN, load : Nat, stale : BOOLEAN]]
    BY DEF DispatchTimesOut, SwInv, Gone
<1>9. \A m \in SwNodes : swNodes'[m].load <= 1 + Cardinality(WaitingFor(m))'
  <2> SUFFICES ASSUME NEW m \in SwNodes PROVE swNodes'[m].load <= 1 + Cardinality(WaitingFor(m)')
      OBVIOUS
  <2>1. CASE m = n
    <3>1. IsFiniteSet(WaitingFor(m)')
      <4>1. WaitingFor(m)' \subseteq SwTasks
          BY DEF WaitingFor
      <4> QED
          BY <4>1, SwarmAssumption, FS_Subset
    <3> QED
        BY <2>1, <3>1, <1>7, FS_CardinalityType DEF Gone
  <2>2. CASE m # n
      BY <2>2, <1>6, <1>7 DEF SwInv
  <2> QED
      BY <2>1, <2>2
<1>10. \A m \in SwNodes : ~swNodes'[m].up => swNodes'[m].load = 0
    BY <1>7 DEF SwInv, Gone
<1> QED
    BY <1>2, <1>4, <1>5, <1>8, <1>9, <1>10 DEF SwInv, CheckpointsAreWorkDone

\* An answer that a dispatch still waits for gives the reservation back.
LEMMA AnswerKeepsSwInv ==
    ASSUME SwInv, NEW j \in swJobs, NEW status \in Finished, Answer(j, status),
           UNCHANGED <<swBeats, swAttempt, swTarget, swTracked, swCkpt, swDone>>
    PROVE  SwInv'
<1> DEFINE t == j.task
           n == swTarget[t]
<1>1. t \in SwTasks /\ n \in SwNodes \cup {NoNode}
    BY DEF SwInv, Jobs
<1>2. swJobs' \subseteq Jobs /\ CheckpointsAreWorkDone'
    BY DEF Answer, SwInv, CheckpointsAreWorkDone
<1>3. CASE swPc[t] # "waiting"
  <2>1. swPc' = swPc /\ swNodes' = swNodes
      BY <1>3 DEF Answer
  <2>2. \A m \in SwNodes : WaitingFor(m)' = WaitingFor(m)
      BY <2>1 DEF WaitingFor
  <2> QED
      BY <1>2, <2>1, <2>2 DEF SwInv
<1>4. CASE swPc[t] = "waiting"
  <2>1. swPc' = [swPc EXCEPT ![t] = status] /\ ReleaseNode(n)
      BY <1>4 DEF Answer
  <2>2. swPc' \in [SwTasks -> Places]
      BY <2>1, <1>1 DEF SwInv, Places
  <2>3. \A u \in SwTasks : /\ swPc'[u] = "new" => swAttempt'[u] = 0
                           /\ swPc'[u] = "again" => swAttempt'[u] < 2
      BY <2>1 DEF SwInv, Finished
  <2>4. \A m \in SwNodes : m # n => WaitingFor(m)' = WaitingFor(m)
      BY <2>1, <1>1 DEF WaitingFor, SwInv, Finished
  <2>5. n \in SwNodes => Cardinality(WaitingFor(n)') = Cardinality(WaitingFor(n)) - 1
    <3> SUFFICES ASSUME n \in SwNodes PROVE Cardinality(WaitingFor(n)') = Cardinality(WaitingFor(n)) - 1
        OBVIOUS
    <3>1. WaitingFor(n)' = WaitingFor(n) \ {t} /\ t \in WaitingFor(n)
        BY <2>1, <1>1, <1>4 DEF WaitingFor, SwInv, Finished
    <3> QED
        BY <3>1, WaitingIsFinite, FS_RemoveElement
  <2>6. CASE n \in SwNodes /\ swNodes[n].up
    <3>1. PICK old \in [up : BOOLEAN, load : Nat, stale : BOOLEAN] : old = swNodes[n] /\ old.up
        BY <2>6 DEF SwInv
    <3>2. PICK k \in Nat : k = IF old.load > 0 THEN old.load - 1 ELSE 0
        BY <3>1
    <3>3. PICK r : r = [old EXCEPT !.load = k]
        OBVIOUS
    <3>4. r \in [up : BOOLEAN, load : Nat, stale : BOOLEAN] /\ r.up /\ r.load = k
        BY <3>1, <3>2, <3>3
    <3>5. swNodes' = [swNodes EXCEPT ![n] = r]
        BY <2>1, <2>6, <3>1, <3>2, <3>3, SwarmAssumption DEF ReleaseNode
    <3>6. swNodes' \in [SwNodes -> [up : BOOLEAN, load : Nat, stale : BOOLEAN]]
          /\ \A m \in SwNodes : swNodes'[m] = IF m = n THEN r ELSE swNodes[m]
        BY <3>4, <3>5 DEF SwInv
    <3>7. \A m \in SwNodes : swNodes'[m].load <= 1 + Cardinality(WaitingFor(m))'
      <4> SUFFICES ASSUME NEW m \in SwNodes PROVE swNodes'[m].load <= 1 + Cardinality(WaitingFor(m)')
          OBVIOUS
      <4>1. CASE m = n
        <5>1. old.load <= 1 + Cardinality(WaitingFor(n)) /\ old.load \in Nat
            BY <2>6, <3>1 DEF SwInv
        <5>2. Cardinality(WaitingFor(n)') = Cardinality(WaitingFor(n)) - 1 /\ Cardinality(WaitingFor(n)) \in Nat
            BY <2>5, <2>6, WaitingIsFinite
        <5>3. t \in WaitingFor(n)
            BY <1>1, <1>4 DEF WaitingFor
        <5>4. Cardinality(WaitingFor(n)) # 0
            BY <5>3, WaitingIsFinite, FS_EmptySet
        <5>5. k <= 1 + (Cardinality(WaitingFor(n)) - 1)
            BY <3>2, <5>1, <5>2, <5>4
        <5> QED
            BY <4>1, <3>4, <3>6, <5>2, <5>5
      <4>2. CASE m # n
          BY <4>2, <2>4, <3>6 DEF SwInv
      <4> QED
          BY <4>1, <4>2
    <3>8. \A m \in SwNodes : ~swNodes'[m].up => swNodes'[m].load = 0
        BY <3>4, <3>6 DEF SwInv
    <3> QED
        BY <1>2, <2>2, <2>3, <3>6, <3>7, <3>8 DEF SwInv
  <2>7. CASE ~(n \in SwNodes /\ swNodes[n].up)
    <3>1. swNodes' = swNodes
        BY <2>1, <2>7, <1>1, SwarmAssumption DEF ReleaseNode
    <3>2. \A m \in SwNodes : swNodes[m].load <= 1 + Cardinality(WaitingFor(m)')
      <4> SUFFICES ASSUME NEW m \in SwNodes PROVE swNodes[m].load <= 1 + Cardinality(WaitingFor(m)')
          OBVIOUS
      <4>1. CASE m = n
        <5>1. swNodes[m].load = 0
            BY <2>7, <4>1 DEF SwInv
        <5>2. Cardinality(WaitingFor(m)') \in Nat
          <6>1. WaitingFor(m)' \subseteq SwTasks
              BY DEF WaitingFor
          <6> QED
              BY <6>1, SwarmAssumption, FS_Subset, FS_CardinalityType
        <5> QED
            BY <5>1, <5>2
      <4>2. CASE m # n
          BY <4>2, <2>4 DEF SwInv
      <4> QED
          BY <4>1, <4>2
    <3> QED
        BY <1>2, <2>2, <2>3, <3>1, <3>2 DEF SwInv
  <2> QED
      BY <2>6, <2>7
<1> QED
    BY <1>3, <1>4

\* Workers only ever add to the work done before they claim it.
LEMMA WorkersKeepSwInv ==
    ASSUME SwInv, NEW j \in swJobs, WorkerStep(j) \/ JobLost(j)
    PROVE  SwInv'
<1>1. UNCHANGED <<swNodes, swBeats, swPc, swAttempt, swTarget, swTracked>>
    BY DEF WorkerStep, JobLost, swTask
<1>2. \A m \in SwNodes : WaitingFor(m)' = WaitingFor(m)
    BY <1>1 DEF WaitingFor
<1>3. swJobs' \subseteq Jobs /\ swCkpt' \in 0 .. Subtasks /\ swDone' \subseteq 1 .. Subtasks /\ CheckpointsAreWorkDone'
  <2>1. CASE WorkerStep(j)
    <3>1. j \in Jobs /\ j.done \in 0 .. Subtasks /\ j.done < Subtasks /\ 1 .. j.done \subseteq swDone
        BY <2>1 DEF WorkerStep, SwInv, Jobs, CheckpointsAreWorkDone
    <3>2. PICK k : k = [j EXCEPT !.done = @ + 1]
        OBVIOUS
    <3>3. k \in Jobs /\ k.done = j.done + 1
      <4>1. PICK tt \in SwTasks, a \in 1 .. 2, nn \in SwNodes, d \in 0 .. Subtasks :
                j = [task |-> tt, attempt |-> a, node |-> nn, done |-> d]
          BY <3>1 DEF Jobs
      <4>2. k = [task |-> tt, attempt |-> a, node |-> nn, done |-> d + 1] /\ d + 1 \in 0 .. Subtasks
          BY <3>1, <3>2, <4>1, SwarmAssumption
      <4> QED
          BY <4>1, <4>2 DEF Jobs
    <3>4. swJobs' = (swJobs \ {j}) \cup {k} /\ swCkpt' = j.done + 1 /\ swDone' = swDone \cup {j.done + 1}
        BY <2>1, <3>2 DEF WorkerStep
    <3>5. 1 .. (j.done + 1) = (1 .. j.done) \cup {j.done + 1} /\ j.done + 1 \in 1 .. Subtasks
        BY <3>1, SwarmAssumption
    <3>6. \A i \in swJobs' : 1 .. i.done \subseteq swDone'
      <4>1. \A i \in swJobs : 1 .. i.done \subseteq swDone
          BY DEF SwInv, CheckpointsAreWorkDone
      <4>2. 1 .. k.done \subseteq swDone'
          BY <3>1, <3>3, <3>4, <3>5
      <4> QED
          BY <3>4, <4>1, <4>2
    <3>7. swDone' \subseteq 1 .. Subtasks /\ swCkpt' \in 0 .. Subtasks
      <4>1. swDone \subseteq 1 .. Subtasks
          BY DEF SwInv
      <4>2. swDone' \subseteq 1 .. Subtasks
          BY <3>4, <3>5, <4>1
      <4> QED
          BY <3>4, <3>5, <4>2, SwarmAssumption
    <3>8. swJobs' \subseteq Jobs
        BY <3>3, <3>4 DEF SwInv
    <3>9. 1 .. swCkpt' \subseteq swDone'
        BY <3>1, <3>4, <3>5
    <3> QED
        BY <3>6, <3>7, <3>8, <3>9 DEF CheckpointsAreWorkDone
  <2>2. CASE JobLost(j)
      BY <2>2 DEF JobLost, SwInv, CheckpointsAreWorkDone
  <2> QED
      BY <2>1, <2>2
<1> QED
    BY <1>1, <1>2, <1>3 DEF SwInv

LEMMA SwarmNextKeepsSwInv ==
    ASSUME SwInv, SwarmNext \/ UNCHANGED swarmVars
    PROVE  SwInv'
<1>1. CASE UNCHANGED swarmVars
    BY <1>1 DEF swarmVars, SwInv, WaitingFor, CheckpointsAreWorkDone
<1>2. ASSUME NEW t \in SwTasks, Fallback(t)
      PROVE  SwInv'
  <2>1. \A m \in SwNodes : WaitingFor(m)' = WaitingFor(m)
      BY <1>2 DEF Fallback, WaitingFor, SwInv, Finished
  <2>2. swPc' \in [SwTasks -> Places]
      BY <1>2 DEF Fallback, SwInv, Places
  <2>3. \A u \in SwTasks : /\ swPc'[u] = "new" => swAttempt'[u] = 0
                           /\ swPc'[u] = "again" => swAttempt'[u] < 2
      BY <1>2 DEF Fallback, SwInv, Finished
  <2> QED
      BY <1>2, <2>1, <2>2, <2>3 DEF Fallback, SwInv, CheckpointsAreWorkDone
<1>3. ASSUME NEW j \in swJobs, WorkerCompletes(j) \/ WorkerFails(j)
      PROVE  SwInv'
    BY <1>3, AnswerKeepsSwInv DEF WorkerCompletes, WorkerFails, Finished
<1> QED
    BY <1>1, <1>2, <1>3, RegistryKeepsSwInv, DispatchKeepsSwInv, TimeoutKeepsSwInv, WorkersKeepSwInv
    DEF SwarmNext, DispatchStep

-----------------------------------------------------------------------------
(* Debates.                                                                *)

DebatePlaces == {"idle", "subs", "turn", "checkRetry", "retry", "verdict"} \cup Holding \cup Wanting \cup Ended

\* The delegations a run can have made: one for each turn it has been through.
Delegated(pc, turn) ==
    IF pc \in {"idle", "subs", "turn", "wantDelegate"} THEN turn - 1
    ELSE IF turn <= Turns THEN turn ELSE Turns

\* What holds of a run by itself: each turn asks the workers at most once, only
\* turns of participants are delegated, an attempt is left where one is going
\* to be made, and a run that comes to its verdict has a summary.
RunOK(pc, turn, attempt, asked, summary) ==
    /\ pc \in DebatePlaces /\ turn \in 1 .. Turns + 1 /\ attempt \in 0 .. Attempts - 1 /\ asked \in Nat
    /\ summary \in {"none", "text", "escalate", "error"}
    /\ asked <= Workers * Delegated(pc, turn)
    /\ pc \in {"wantDelegate", "delegating"} => turn <= Turns
    /\ pc \in {"wantHeal", "healing", "checkRetry", "retry"} => attempt < Attempts - 1
    /\ pc \in {"verdict", "done"} => summary # "none"

SlotHolders == {r \in Debates : Holds(dPc[r])}

CountersOK ==
    /\ dSetup \in [limits : Budgets, redis : BOOLEAN, refused : BOOLEAN]
    /\ dCalls \in 0 .. dSetup.limits.calls
    /\ dRetries \in 0 .. dSetup.limits.retries /\ dHeals \in 0 .. dSetup.limits.heals

\* The slots add up, the sub-swarms start with the main run, and it has left
\* them only when all of them are done.
DebateInv ==
    /\ CountersOK
    /\ DOMAIN dPc = Debates /\ dPc = [r \in Debates |-> dPc[r]]
    /\ dTurn = [r \in Debates |-> dTurn[r]] /\ dAttempt = [r \in Debates |-> dAttempt[r]]
    /\ dAsked = [r \in Debates |-> dAsked[r]] /\ dSummary = [r \in Debates |-> dSummary[r]]
    /\ \A r \in Debates : RunOK(dPc[r], dTurn[r], dAttempt[r], dAsked[r], dSummary[r])
    /\ dPc[Main] = "idle" => \A s \in Subs : dPc[s] = "idle"
    /\ dPc[Main] \notin {"idle", "subs", "raised"} => \A s \in Subs : dPc[s] = "done"
    /\ dFree \in Nat /\ dFree + Cardinality(SlotHolders) = Slots

LEMMA WorkersTimes ==
    /\ Workers \in Nat /\ Turns \in Nat
    /\ \A a \in Nat : Workers * a \in Nat /\ Workers * (a + 1) = Workers * a + Workers
    /\ \A a, b \in Nat : a <= b => Workers * a <= Workers * b
<1>1. Workers \in Nat /\ Turns \in Nat
    BY DebateAssumption
<1>2. \A a \in Nat : Workers * a \in Nat /\ Workers * (a + 1) = Workers * a + Workers
    BY <1>1
<1>3. ASSUME NEW a \in Nat, NEW b \in Nat, a <= b
      PROVE  Workers * a <= Workers * b
  <2>1. PICK c \in Nat : b = a + c
      BY <1>3
  <2>2. Workers * c \in Nat /\ Workers * b = Workers * a + Workers * c
      BY <1>1, <2>1
  <2> QED
      BY <1>1, <2>2
<1> QED
    BY <1>1, <1>2, <1>3

LEMMA HoldersAreFinite == IsFiniteSet(SlotHolders) /\ Cardinality(SlotHolders) \in Nat /\ IsFiniteSet(Debates)
<1>1. IsFiniteSet(Debates)
    BY DebateAssumption, FS_AddElement DEF Debates
<1>2. SlotHolders \subseteq Debates
    BY DEF SlotHolders
<1> QED
    BY <1>1, <1>2, FS_Subset, FS_CardinalityType

LEMMA DebateInvGivesTypes ==
    ASSUME DebateInv
    PROVE  DebateTypeOK /\ SlotsAreReturned
<1>1. SlotsAreReturned
    BY HoldersAreFinite, DebateAssumption DEF DebateInv, SlotsAreReturned, SlotHolders
<1>2. dFree \in 0 .. Slots
    BY HoldersAreFinite, DebateAssumption DEF DebateInv
<1>3. \A r \in Debates : dAsked[r] \in 0 .. Workers * Turns
  <2> SUFFICES ASSUME NEW r \in Debates PROVE dAsked[r] \in 0 .. Workers * Turns
      OBVIOUS
  <2>1. RunOK(dPc[r], dTurn[r], dAttempt[r], dAsked[r], dSummary[r])
      BY DEF DebateInv
  <2> DEFINE k == Delegated(dPc[r], dTurn[r])
  <2>2. k \in Nat /\ k <= Turns
    <3>1. dTurn[r] \in 1 .. Turns + 1 /\ Turns \in Nat
        BY <2>1, WorkersTimes DEF RunOK
    <3> QED
        BY <3>1 DEF Delegated
  <2>4. dAsked[r] \in Nat /\ dAsked[r] <= Workers * k
      BY <2>1 DEF RunOK
  <2> HIDE DEF k
  <2>3. Workers * k <= Workers * Turns /\ Workers * k \in Nat /\ Workers * Turns \in Nat
      BY <2>2, WorkersTimes
  <2> QED
      BY <2>3, <2>4
<1>4. dPc \in [Debates -> DebatePlaces]
    BY DEF DebateInv, RunOK
<1>5. dTurn \in [Debates -> 1 .. Turns + 1] /\ dAttempt \in [Debates -> 0 .. Attempts - 1]
    BY DEF DebateInv, RunOK
<1>6. dSummary \in [Debates -> {"none", "text", "escalate", "error"}] /\ dAsked \in [Debates -> 0 .. Workers * Turns]
    BY <1>3 DEF DebateInv, RunOK
<1> QED
    BY <1>1, <1>2, <1>4, <1>5, <1>6 DEF DebateInv, CountersOK, DebateTypeOK, DebatePlaces

LEMMA DebateInvGivesWhole ==
    ASSUME DebateInv
    PROVE  AcceptedDebatesAreWhole
<1> SUFFICES ASSUME NEW r \in Debates, At(r, "done"), Decision(r) = "accept"
             PROVE  /\ dSummary[r] = "text"
                    /\ r = Main => \A s \in Subs : At(s, "done") /\ dSummary[s] = "text"
    BY DEF AcceptedDebatesAreWhole
<1>1. "error" \notin Reports(r) /\ "escalate" \notin Reports(r)
    BY DEF Decision
<1>2. \A q \in Debates : dPc[q] = "done" => dSummary[q] \in {"text", "escalate", "error"}
    BY DEF DebateInv, RunOK
<1>3. dSummary[r] = "text"
    BY <1>1, <1>2 DEF Reports, At
<1>4. ASSUME r = Main, NEW s \in Subs
      PROVE  At(s, "done") /\ dSummary[s] = "text"
  <2>1. dPc[s] = "done"
      BY <1>4 DEF DebateInv, At
  <2>2. dSummary[s] \in Reports(r)
      BY <1>4 DEF Reports
  <2> QED
      BY <1>1, <1>2, <2>1, <2>2 DEF At, Debates
<1> QED
    BY <1>3, <1>4

\* One run moves: it takes or gives back a slot as its place says.
LEMMA RunMoves ==
    ASSUME DebateInv, CountersOK', NEW r \in Debates, NEW pc,
           dPc[r] \notin Ended \cup {"idle"}, r = Main => dPc[r] # "subs", pc # "idle",
           RunOK(pc, dTurn'[r], dAttempt'[r], dAsked'[r], dSummary'[r]),
           dPc' = [dPc EXCEPT ![r] = pc],
           dTurn' = [dTurn EXCEPT ![r] = dTurn'[r]], dAttempt' = [dAttempt EXCEPT ![r] = dAttempt'[r]],
           dAsked' = [dAsked EXCEPT ![r] = dAsked'[r]], dSummary' = [dSummary EXCEPT ![r] = dSummary'[r]],
           dFree' \in Nat,
           dFree' = dFree + (IF Holds(dPc[r]) THEN 1 ELSE 0) - (IF Holds(pc) THEN 1 ELSE 0)
    PROVE  DebateInv'
<1>1. \A q \in Debates : dPc'[q] = IF q = r THEN pc ELSE dPc[q]
    BY DEF DebateInv
<1>2. \A q \in Debates : RunOK(dPc'[q], dTurn'[q], dAttempt'[q], dAsked'[q], dSummary'[q])
  <2> SUFFICES ASSUME NEW q \in Debates
               PROVE  RunOK(dPc'[q], dTurn'[q], dAttempt'[q], dAsked'[q], dSummary'[q])
      OBVIOUS
  <2>1. CASE q = r
      BY <1>1, <2>1
  <2>2. CASE q # r
    <3>1. dPc'[q] = dPc[q] /\ dTurn'[q] = dTurn[q] /\ dAttempt'[q] = dAttempt[q]
          /\ dAsked'[q] = dAsked[q] /\ dSummary'[q] = dSummary[q]
        BY <2>2 DEF DebateInv
    <3> QED
        BY <3>1 DEF DebateInv
  <2> QED
      BY <2>1, <2>2
<1>3. dPc'[Main] \notin {"idle", "subs", "raised"} => \A s \in Subs : dPc'[s] = "done"
  <2>1. CASE r = Main
    <3>1. \A s \in Subs : dPc'[s] = dPc[s]
        BY <1>1, <2>1, DebateAssumption DEF Debates
    <3> QED
        BY <2>1, <3>1 DEF DebateInv, Ended
  <2>2. CASE r \in Subs
    <3>1. dPc[Main] \in {"idle", "subs", "raised"}
        BY <2>2 DEF DebateInv, Ended
    <3>2. dPc'[Main] = dPc[Main]
        BY <1>1, <2>2, DebateAssumption DEF Debates
    <3> QED
        BY <3>1, <3>2
  <2> QED
      BY <2>1, <2>2 DEF Debates
<1>6. dPc'[Main] # "idle"
  <2>1. CASE r = Main
      BY <1>1, <2>1 DEF Debates
  <2>2. CASE r \in Subs
    <3>1. dPc[Main] # "idle"
        BY <2>2 DEF DebateInv
    <3> QED
        BY <1>1, <2>2, <3>1, DebateAssumption DEF Debates
  <2> QED
      BY <2>1, <2>2 DEF Debates
<1>4. dFree' + Cardinality(SlotHolders') = Slots
  <2>1. Holds(pc) \in BOOLEAN /\ Holds(dPc[r]) \in BOOLEAN
      BY DEF Holds
  <2>2. CASE Holds(pc) /\ ~Holds(dPc[r])
    <3>1. SlotHolders' = SlotHolders \cup {r} /\ r \notin SlotHolders
        BY <1>1, <2>2 DEF SlotHolders
    <3>2. Cardinality(SlotHolders') = Cardinality(SlotHolders) + 1
        BY <3>1, HoldersAreFinite, FS_AddElement
    <3> QED
        BY <2>2, <3>2, HoldersAreFinite DEF DebateInv
  <2>3. CASE ~Holds(pc) /\ Holds(dPc[r])
    <3>1. SlotHolders' = SlotHolders \ {r} /\ r \in SlotHolders
        BY <1>1, <2>3 DEF SlotHolders
    <3>2. Cardinality(SlotHolders') = Cardinality(SlotHolders) - 1
        BY <3>1, HoldersAreFinite, FS_RemoveElement
    <3> QED
        BY <2>3, <3>2, HoldersAreFinite DEF DebateInv
  <2>4. CASE Holds(pc) <=> Holds(dPc[r])
    <3>1. SlotHolders' = SlotHolders
        BY <1>1, <2>4 DEF SlotHolders
    <3>2. dFree' = dFree
        BY <2>4 DEF DebateInv
    <3> QED
        BY <3>1, <3>2 DEF DebateInv
  <2> QED
      BY <2>1, <2>2, <2>3, <2>4
<1>5. /\ DOMAIN dPc' = Debates /\ dPc' = [q \in Debates |-> dPc'[q]]
      /\ dTurn' = [q \in Debates |-> dTurn'[q]] /\ dAttempt' = [q \in Debates |-> dAttempt'[q]]
      /\ dAsked' = [q \in Debates |-> dAsked'[q]] /\ dSummary' = [q \in Debates |-> dSummary'[q]]
    BY DEF DebateInv
<1> QED
    BY <1>2, <1>3, <1>4, <1>5, <1>6 DEF DebateInv

\* What stays as it is can be written as a change of the run alone.
LEMMA SameIsOwn ==
    ASSUME DebateInv, NEW r \in Debates
    PROVE  /\ dTurn = [dTurn EXCEPT ![r] = dTurn[r]] /\ dAttempt = [dAttempt EXCEPT ![r] = dAttempt[r]]
           /\ dAsked = [dAsked EXCEPT ![r] = dAsked[r]] /\ dSummary = [dSummary EXCEPT ![r] = dSummary[r]]
           /\ \A x : /\ [dPc EXCEPT ![r] = x][r] = x /\ [dTurn EXCEPT ![r] = x][r] = x
                     /\ [dAttempt EXCEPT ![r] = x][r] = x /\ [dAsked EXCEPT ![r] = x][r] = x
                     /\ [dSummary EXCEPT ![r] = x][r] = x
<1>1. dTurn = [q \in Debates |-> dTurn[q]] /\ dAttempt = [q \in Debates |-> dAttempt[q]]
    BY DEF DebateInv
<1>2. dAsked = [q \in Debates |-> dAsked[q]] /\ dSummary = [q \in Debates |-> dSummary[q]]
      /\ dPc = [q \in Debates |-> dPc[q]]
    BY DEF DebateInv
<1> QED
    BY <1>1, <1>2

LEMMA Contributes ==
    ASSUME DebateInv, NEW r \in Debates, NEW summary \in {"none", "text", "escalate", "error"},
           Contribute(r, summary), summary # "none" \/ dTurn[r] <= Turns,
           dPc[r] \notin {"idle", "subs", "turn", "wantDelegate"},
           NEW asked \in Nat, asked <= dAsked[r]
    PROVE  \E pc \in {"turn", "verdict"} :
             /\ dPc' = [dPc EXCEPT ![r] = pc]
             /\ dTurn' = [dTurn EXCEPT ![r] = dTurn'[r]] /\ dSummary' = [dSummary EXCEPT ![r] = dSummary'[r]]
             /\ RunOK(pc, dTurn'[r], dAttempt[r], asked, dSummary'[r])
<1>1. RunOK(dPc[r], dTurn[r], dAttempt[r], dAsked[r], dSummary[r])
    BY DEF DebateInv
<1>2. dTurn[r] \in 1 .. Turns + 1 /\ dAsked[r] \in Nat /\ dAsked[r] <= Workers * Delegated(dPc[r], dTurn[r])
      /\ dAttempt[r] \in 0 .. Attempts - 1 /\ dSummary[r] \in {"none", "text", "escalate", "error"}
    BY <1>1 DEF RunOK
<1>3. Delegated(dPc[r], dTurn[r]) \in Nat /\ Workers * Delegated(dPc[r], dTurn[r]) \in Nat
  <2>1. Delegated(dPc[r], dTurn[r]) \in Nat
    <3>1. dTurn[r] \in 1 .. Turns + 1 /\ Turns \in Nat
        BY <1>2, WorkersTimes
    <3> QED
        BY <3>1 DEF Delegated
  <2> QED
      BY <2>1, WorkersTimes
<1>4. asked <= Workers * Delegated(dPc[r], dTurn[r])
    BY <1>2, <1>3
<1>5. CASE dTurn[r] <= Turns
  <2>1. dTurn' = [dTurn EXCEPT ![r] = dTurn[r] + 1] /\ dPc' = [dPc EXCEPT ![r] = "turn"] /\ dSummary' = dSummary
      BY <1>5 DEF Contribute, Move
  <2>2. dTurn'[r] = dTurn[r] + 1 /\ dSummary'[r] = dSummary[r]
      BY <2>1, SameIsOwn
  <2>3. Delegated("turn", dTurn[r] + 1) = dTurn[r] /\ Delegated(dPc[r], dTurn[r]) = dTurn[r]
      BY <1>2, <1>5 DEF Delegated
  <2>4. RunOK("turn", dTurn'[r], dAttempt[r], asked, dSummary'[r])
      BY <1>2, <1>4, <1>5, <2>2, <2>3, WorkersTimes DEF RunOK, DebatePlaces
  <2> QED
      BY <2>1, <2>2, <2>4, SameIsOwn
<1>6. CASE ~(dTurn[r] <= Turns)
  <2>1. dSummary' = [dSummary EXCEPT ![r] = summary] /\ dPc' = [dPc EXCEPT ![r] = "verdict"] /\ dTurn' = dTurn
      BY <1>6 DEF Contribute, Move
  <2>2. dTurn'[r] = dTurn[r] /\ dSummary'[r] = summary
      BY <2>1, SameIsOwn
  <2>3. Delegated("verdict", dTurn[r]) = Turns /\ Delegated(dPc[r], dTurn[r]) = Turns
      BY <1>2, <1>6 DEF Delegated
  <2>4. RunOK("verdict", dTurn'[r], dAttempt[r], asked, dSummary'[r])
      BY <1>2, <1>4, <1>6, <2>2, <2>3, WorkersTimes DEF RunOK, DebatePlaces
  <2> QED
      BY <2>1, <2>2, <2>4, SameIsOwn
<1> QED
    BY <1>5, <1>6

\* Places that a run moves between within one turn, its counters as they are.
LEMMA RunOKStays ==
    ASSUME NEW pc, NEW new \in DebatePlaces, NEW turn, NEW attempt, NEW asked, NEW summary,
           RunOK(pc, turn, attempt, asked, summary),
           new \notin {"idle", "subs", "turn"},
           new \in {"wantDelegate", "delegating"} => turn <= Turns,
           new = "wantDelegate" => pc \in {"idle", "subs", "turn", "wantDelegate"},
           new \in {"wantHeal", "healing", "checkRetry", "retry"} => attempt < Attempts - 1,
           new \in {"verdict", "done"} => summary # "none"
    PROVE  RunOK(new, turn, attempt, asked, summary)
<1>1. turn \in 1 .. Turns + 1 /\ asked \in Nat /\ asked <= Workers * Delegated(pc, turn)
    BY DEF RunOK
<1>2. Delegated(pc, turn) \in Nat /\ Delegated(new, turn) \in Nat /\ Delegated(pc, turn) <= Delegated(new, turn)
    BY <1>1, WorkersTimes DEF Delegated
<1>3. Workers * Delegated(pc, turn) <= Workers * Delegated(new, turn)
      /\ Workers * Delegated(pc, turn) \in Nat /\ Workers * Delegated(new, turn) \in Nat
    BY <1>2, WorkersTimes
<1>4. asked <= Workers * Delegated(new, turn)
    BY <1>1, <1>3
<1> QED
    BY <1>4 DEF RunOK

\* A run that asks the workers: its place is "wantDelegate", so this turn has
\* not asked them before.
LEMMA RunOKDelegates ==
    ASSUME NEW turn, NEW attempt, NEW asked, NEW summary,
           RunOK("wantDelegate", turn, attempt, asked, summary)
    PROVE  RunOK("delegating", turn, attempt, asked + Workers, summary)
<1>1. turn \in 1 .. Turns /\ asked \in Nat /\ asked <= Workers * Delegated("wantDelegate", turn)
    BY WorkersTimes DEF RunOK
<1>2. Delegated("wantDelegate", turn) = turn - 1 /\ Delegated("delegating", turn) = turn /\ turn - 1 \in Nat
    BY <1>1, WorkersTimes DEF Delegated
<1>3. Workers * turn = Workers * (turn - 1) + Workers /\ Workers * (turn - 1) \in Nat /\ Workers \in Nat
    BY <1>1, <1>2, WorkersTimes
<1>4. asked + Workers <= Workers * Delegated("delegating", turn) /\ asked + Workers \in Nat
    BY <1>1, <1>2, <1>3
<1> QED
    BY <1>1, <1>4 DEF RunOK, DebatePlaces, Holding

\* The turn begins: the attempts are counted from 0.
LEMMA BeginTurnKeepsInv ==
    ASSUME DebateInv, NEW r \in Debates, BeginTurn(r)
    PROVE  DebateInv'
<1>1. dPc[r] = "turn" /\ UNCHANGED <<dSetup, dCalls, dRetries, dHeals, dFree, dTurn, dAsked, dSummary>>
      /\ dAttempt' = [dAttempt EXCEPT ![r] = 0]
    BY DEF BeginTurn, At
<1>2. PICK pc \in {"wantDelegate", "wantCall"} : dPc' = [dPc EXCEPT ![r] = pc] /\ (pc = "wantDelegate" => dTurn[r] <= Turns)
    BY DEF BeginTurn, Move
<1>3. RunOK("turn", dTurn[r], dAttempt[r], dAsked[r], dSummary[r])
    BY <1>1 DEF DebateInv
<1>4. RunOK("turn", dTurn[r], 0, dAsked[r], dSummary[r])
    BY <1>3, DebateAssumption DEF RunOK
<1>5. RunOK(pc, dTurn[r], 0, dAsked[r], dSummary[r])
    BY <1>2, <1>4, RunOKStays DEF DebatePlaces, Wanting
<1>6. dAttempt'[r] = 0
    BY <1>1, SameIsOwn
<1>7. RunOK(pc, dTurn'[r], dAttempt'[r], dAsked'[r], dSummary'[r])
    BY <1>1, <1>5, <1>6
<1>8. CountersOK'
    BY <1>1 DEF DebateInv, CountersOK
<1>9. ~Holds(pc) /\ ~Holds(dPc[r]) /\ dFree' = dFree /\ dFree \in Nat
    BY <1>1, <1>2 DEF Holds, Holding, DebateInv
<1>10. /\ dTurn' = [dTurn EXCEPT ![r] = dTurn'[r]] /\ dAttempt' = [dAttempt EXCEPT ![r] = dAttempt'[r]]
       /\ dAsked' = [dAsked EXCEPT ![r] = dAsked'[r]] /\ dSummary' = [dSummary EXCEPT ![r] = dSummary'[r]]
    BY <1>1, <1>6, SameIsOwn
<1>11. dPc[r] \notin Ended \cup {"idle"} /\ dPc[r] # "subs"
    BY <1>1 DEF Ended
<1>12. dFree' \in Nat /\ dFree' = dFree + (IF Holds(dPc[r]) THEN 1 ELSE 0) - (IF Holds(pc) THEN 1 ELSE 0)
    BY <1>9
<1> QED
    BY <1>2, <1>7, <1>8, <1>10, <1>11, <1>12, RunMoves

\* A slot is taken, or the run ends at the limit.
LEMMA AcquireKeepsInv ==
    ASSUME DebateInv, NEW r \in Debates, Acquire(r)
    PROVE  DebateInv'
<1>1. dPc[r] \in Wanting /\ dFree > 0 /\ UNCHANGED <<dSetup, dRetries, dHeals, dTurn, dAttempt, dSummary>>
    BY DEF Acquire
<1>2. RunOK(dPc[r], dTurn[r], dAttempt[r], dAsked[r], dSummary[r])
    BY DEF DebateInv
<1>3. CASE dCalls >= dSetup.limits.calls
  <2>1. dPc' = [dPc EXCEPT ![r] = "raised"] /\ UNCHANGED <<dCalls, dFree, dAsked>>
      BY <1>3 DEF Acquire, Move
  <2>2. RunOK("raised", dTurn[r], dAttempt[r], dAsked[r], dSummary[r])
      BY <1>1, <1>2, RunOKStays DEF DebatePlaces, Ended
  <2>3. RunOK("raised", dTurn'[r], dAttempt'[r], dAsked'[r], dSummary'[r])
      BY <1>1, <2>1, <2>2
  <2>4. CountersOK'
      BY <1>1, <2>1 DEF DebateInv, CountersOK
  <2>5. ~Holds("raised") /\ ~Holds(dPc[r]) /\ dFree' = dFree /\ dFree \in Nat
      BY <1>1, <2>1 DEF Holds, Holding, Wanting, DebateInv
  <2>6. dPc[r] \notin Ended \cup {"idle"} /\ dPc[r] # "subs"
      BY <1>1 DEF Wanting, Ended
  <2>7. /\ dTurn' = [dTurn EXCEPT ![r] = dTurn'[r]] /\ dAttempt' = [dAttempt EXCEPT ![r] = dAttempt'[r]]
        /\ dAsked' = [dAsked EXCEPT ![r] = dAsked'[r]] /\ dSummary' = [dSummary EXCEPT ![r] = dSummary'[r]]
      BY <1>1, <2>1, SameIsOwn
  <2>8. dFree' \in Nat /\ dFree' = dFree + (IF Holds(dPc[r]) THEN 1 ELSE 0) - (IF Holds("raised") THEN 1 ELSE 0)
      BY <2>5
  <2>9. dPc' = [dPc EXCEPT ![r] = "raised"]
      BY <2>1
  <2> QED
      BY <2>3, <2>4, <2>6, <2>7, <2>8, <2>9, RunMoves
<1>4. CASE ~(dCalls >= dSetup.limits.calls)
  <2>1. dPc' = [dPc EXCEPT ![r] = Granted(dPc[r])] /\ dCalls' = dCalls + 1 /\ dFree' = dFree - 1
        /\ dAsked' = [dAsked EXCEPT ![r] = IF At(r, "wantDelegate") THEN @ + Workers ELSE @]
      BY <1>4 DEF Acquire, Move
  <2>2. dAsked'[r] = (IF dPc[r] = "wantDelegate" THEN dAsked[r] + Workers ELSE dAsked[r])
      BY <2>1, SameIsOwn DEF At
  <2>3. dAsked' = [dAsked EXCEPT ![r] = dAsked'[r]]
      BY <2>1, <2>2 DEF At
  <2>4. RunOK(Granted(dPc[r]), dTurn[r], dAttempt[r], dAsked'[r], dSummary[r])
    <3>1. CASE dPc[r] = "wantDelegate"
      <4>1. Granted(dPc[r]) = "delegating" /\ dAsked'[r] = dAsked[r] + Workers
          BY <2>2, <3>1 DEF Granted
      <4> QED
          BY <1>2, <3>1, <4>1, RunOKDelegates
    <3>2. CASE dPc[r] = "wantCall"
      <4>1. Granted(dPc[r]) = "calling" /\ dAsked'[r] = dAsked[r]
          BY <2>2, <3>2 DEF Granted
      <4> QED
          BY <1>2, <4>1, RunOKStays DEF DebatePlaces, Holding
    <3>3. CASE dPc[r] = "wantHeal"
      <4>1. Granted(dPc[r]) = "healing" /\ dAsked'[r] = dAsked[r] /\ dAttempt[r] < Attempts - 1
          BY <1>2, <2>2, <3>3 DEF Granted, RunOK
      <4> QED
          BY <1>2, <4>1, RunOKStays DEF DebatePlaces, Holding
    <3> QED
        BY <1>1, <3>1, <3>2, <3>3 DEF Wanting
  <2>5. CountersOK'
    <3>1. dSetup.limits.calls \in Nat
        BY DebateAssumption DEF DebateInv, CountersOK
    <3> QED
        BY <1>1, <1>4, <2>1, <3>1 DEF DebateInv, CountersOK
  <2>6. Holds(Granted(dPc[r])) /\ ~Holds(dPc[r]) /\ Granted(dPc[r]) # "idle"
      BY <1>1 DEF Holds, Holding, Wanting, Granted
  <2>7. dFree' \in Nat /\ dFree' = dFree - 1 /\ dFree \in Nat
      BY <1>1, <2>1 DEF DebateInv
  <2>8. dPc[r] \notin Ended \cup {"idle"} /\ dPc[r] # "subs"
      BY <1>1 DEF Wanting, Ended
  <2>9. RunOK(Granted(dPc[r]), dTurn'[r], dAttempt'[r], dAsked'[r], dSummary'[r])
      BY <1>1, <2>4
  <2>10. /\ dTurn' = [dTurn EXCEPT ![r] = dTurn'[r]] /\ dAttempt' = [dAttempt EXCEPT ![r] = dAttempt'[r]]
         /\ dAsked' = [dAsked EXCEPT ![r] = dAsked'[r]] /\ dSummary' = [dSummary EXCEPT ![r] = dSummary'[r]]
      BY <1>1, <2>3, SameIsOwn
  <2>11. dFree' \in Nat /\ dFree' = dFree + (IF Holds(dPc[r]) THEN 1 ELSE 0) - (IF Holds(Granted(dPc[r])) THEN 1 ELSE 0)
      BY <2>6, <2>7
  <2>12. dPc' = [dPc EXCEPT ![r] = Granted(dPc[r])]
      BY <2>1
  <2> QED
      BY <2>5, <2>6, <2>8, <2>9, <2>10, <2>11, <2>12, RunMoves
<1> QED
    BY <1>3, <1>4

\* A run that goes on within its turn, or ends, with its counters as they are.
LEMMA MoveKeepsInv ==
    ASSUME DebateInv, CountersOK', NEW r \in Debates, NEW pc \in DebatePlaces,
           dPc[r] \notin Ended \cup {"idle"}, r = Main => dPc[r] # "subs",
           Move(r, pc), UNCHANGED <<dTurn, dAttempt, dAsked, dSummary>>,
           pc \notin {"idle", "subs", "turn", "wantDelegate", "delegating"},
           pc \in {"wantHeal", "healing", "checkRetry", "retry"} => dAttempt[r] < Attempts - 1,
           pc \in {"verdict", "done"} => dSummary[r] # "none",
           ~Holds(pc), dFree' = IF Holds(dPc[r]) THEN dFree + 1 ELSE dFree
    PROVE  DebateInv'
<1>1. RunOK(dPc[r], dTurn[r], dAttempt[r], dAsked[r], dSummary[r]) /\ dFree \in Nat
    BY DEF DebateInv
<1>2. RunOK(pc, dTurn[r], dAttempt[r], dAsked[r], dSummary[r])
    BY <1>1, RunOKStays
<1>3. RunOK(pc, dTurn'[r], dAttempt'[r], dAsked'[r], dSummary'[r])
    BY <1>2
<1>4. /\ dTurn' = [dTurn EXCEPT ![r] = dTurn'[r]] /\ dAttempt' = [dAttempt EXCEPT ![r] = dAttempt'[r]]
      /\ dAsked' = [dAsked EXCEPT ![r] = dAsked'[r]] /\ dSummary' = [dSummary EXCEPT ![r] = dSummary'[r]]
    BY SameIsOwn
<1>5. dPc' = [dPc EXCEPT ![r] = pc]
    BY DEF Move
<1>6. dFree' \in Nat /\ dFree' = dFree + (IF Holds(dPc[r]) THEN 1 ELSE 0) - (IF Holds(pc) THEN 1 ELSE 0)
    BY <1>1
<1> QED
    BY <1>3, <1>4, <1>5, <1>6, RunMoves

\* A run whose turn is answered, its slot given back when it holds one.
LEMMA ContributeKeepsInv ==
    ASSUME DebateInv, CountersOK', NEW r \in Debates,
           NEW summary \in {"none", "text", "escalate", "error"}, Contribute(r, summary),
           summary # "none" \/ dTurn[r] <= Turns,
           dPc[r] \notin {"idle", "subs", "turn", "wantDelegate"}, dPc[r] \notin Ended,
           UNCHANGED dAttempt, NEW asked \in Nat, asked <= dAsked[r],
           dAsked' = [dAsked EXCEPT ![r] = asked],
           dFree' = IF Holds(dPc[r]) THEN dFree + 1 ELSE dFree
    PROVE  DebateInv'
<1>1. PICK pc \in {"turn", "verdict"} :
         /\ dPc' = [dPc EXCEPT ![r] = pc]
         /\ dTurn' = [dTurn EXCEPT ![r] = dTurn'[r]] /\ dSummary' = [dSummary EXCEPT ![r] = dSummary'[r]]
         /\ RunOK(pc, dTurn'[r], dAttempt[r], asked, dSummary'[r])
    BY Contributes
<1>2. dAsked'[r] = asked /\ dAttempt'[r] = dAttempt[r]
    BY SameIsOwn
<1>3. RunOK(pc, dTurn'[r], dAttempt'[r], dAsked'[r], dSummary'[r])
    BY <1>1, <1>2
<1>4. /\ dTurn' = [dTurn EXCEPT ![r] = dTurn'[r]] /\ dAttempt' = [dAttempt EXCEPT ![r] = dAttempt'[r]]
      /\ dAsked' = [dAsked EXCEPT ![r] = dAsked'[r]] /\ dSummary' = [dSummary EXCEPT ![r] = dSummary'[r]]
    BY <1>1, <1>2, SameIsOwn
<1>5. dFree \in Nat /\ ~Holds(pc)
    BY <1>1 DEF DebateInv, Holds, Holding
<1>6. dFree' \in Nat /\ dFree' = dFree + (IF Holds(dPc[r]) THEN 1 ELSE 0) - (IF Holds(pc) THEN 1 ELSE 0)
    BY <1>5
<1>7. dPc' = [dPc EXCEPT ![r] = pc]
    BY <1>1
<1> QED
    BY <1>3, <1>4, <1>6, <1>7, RunMoves

\* The counters of the budget, when none of them moves.
LEMMA CountersStay ==
    ASSUME DebateInv, UNCHANGED <<dSetup, dCalls, dRetries, dHeals>>
    PROVE  CountersOK'
    BY DEF DebateInv, CountersOK

LEMMA WorkerAnswersKeepsInv ==
    ASSUME DebateInv, NEW r \in Debates, WorkerAnswers(r)
    PROVE  DebateInv'
<1>1. dAsked[r] > 0 /\ dAsked' = [dAsked EXCEPT ![r] = dAsked[r] - 1]
      /\ UNCHANGED <<dSetup, dCalls, dRetries, dHeals, dAttempt>>
    BY DEF WorkerAnswers
<1>2. RunOK(dPc[r], dTurn[r], dAttempt[r], dAsked[r], dSummary[r]) /\ dFree \in Nat
    BY DEF DebateInv
<1>3. CountersOK'
    BY <1>1, CountersStay
<1>4. dAsked[r] - 1 \in Nat /\ dAsked[r] - 1 <= dAsked[r] /\ dAsked'[r] = dAsked[r] - 1
  <2>1. dAsked[r] \in Nat
      BY <1>2 DEF RunOK
  <2>2. dAsked[r] - 1 \in Nat /\ dAsked[r] - 1 <= dAsked[r]
      BY <1>1, <2>1
  <2>3. dAsked'[r] = dAsked[r] - 1
      BY <1>1 DEF DebateInv
  <2> QED
      BY <2>2, <2>3
<1>5. dTurn[r] \in 1 .. Turns + 1
      /\ dAsked[r] <= Workers * Delegated(dPc[r], dTurn[r]) /\ Workers * Delegated(dPc[r], dTurn[r]) \in Nat
  <2>1. dTurn[r] \in 1 .. Turns + 1 /\ dAsked[r] <= Workers * Delegated(dPc[r], dTurn[r])
      BY <1>2 DEF RunOK
  <2>2. Delegated(dPc[r], dTurn[r]) \in Nat
      BY <2>1, WorkersTimes DEF Delegated
  <2> QED
      BY <2>1, <2>2, WorkersTimes
<1>6. ASSUME NEW pc, RunOK(pc, dTurn[r], dAttempt[r], dAsked[r], dSummary[r]),
             dAsked[r] <= Workers * Delegated(pc, dTurn[r]), Workers * Delegated(pc, dTurn[r]) \in Nat
      PROVE  RunOK(pc, dTurn[r], dAttempt[r], dAsked[r] - 1, dSummary[r])
  <2>1. dAsked[r] \in Nat
      BY <1>2 DEF RunOK
  <2>2. dAsked[r] - 1 <= Workers * Delegated(pc, dTurn[r])
      BY <1>4, <1>6, <2>1
  <2> QED
      BY <1>4, <1>6, <2>2 DEF RunOK
<1>7. CASE At(r, "delegating")
  <2>1. dPc[r] = "delegating" /\ Holds(dPc[r]) /\ dFree' = dFree + 1 /\ dTurn[r] <= Turns
      BY <1>2, <1>7 DEF At, Holds, Holding, WorkerAnswers, Release, RunOK
  <2>2. Contribute(r, "none") \/ (Move(r, "wantCall") /\ UNCHANGED <<dTurn, dSummary>>)
      BY <1>7 DEF WorkerAnswers
  <2>3. CASE Contribute(r, "none")
    <3>1. dPc[r] \notin {"idle", "subs", "turn", "wantDelegate"} /\ dPc[r] \notin Ended
        BY <2>1 DEF Ended
    <3>2. dFree' = IF Holds(dPc[r]) THEN dFree + 1 ELSE dFree
        BY <2>1
    <3> QED
        BY <1>1, <1>3, <1>4, <2>1, <2>3, <3>1, <3>2, ContributeKeepsInv
  <2>4. CASE Move(r, "wantCall") /\ UNCHANGED <<dTurn, dSummary>>
    <3>1. dPc[r] \notin Ended \cup {"idle"} /\ dPc[r] # "subs" /\ dPc' = [dPc EXCEPT ![r] = "wantCall"]
        BY <2>1, <2>4 DEF Ended, Move
    <3>2. RunOK("wantCall", dTurn[r], dAttempt[r], dAsked[r], dSummary[r])
        BY <1>2, <2>1, RunOKStays DEF DebatePlaces, Wanting
    <3>3. Delegated("wantCall", dTurn[r]) = Delegated(dPc[r], dTurn[r])
        BY <2>1 DEF Delegated
    <3>4. RunOK("wantCall", dTurn[r], dAttempt[r], dAsked[r] - 1, dSummary[r])
        BY <1>5, <1>6, <3>2, <3>3
    <3>5. RunOK("wantCall", dTurn'[r], dAttempt'[r], dAsked'[r], dSummary'[r])
        BY <1>1, <1>4, <2>4, <3>4
    <3>6. /\ dTurn' = [dTurn EXCEPT ![r] = dTurn'[r]] /\ dAttempt' = [dAttempt EXCEPT ![r] = dAttempt'[r]]
          /\ dAsked' = [dAsked EXCEPT ![r] = dAsked'[r]] /\ dSummary' = [dSummary EXCEPT ![r] = dSummary'[r]]
        BY <1>1, <1>4, <2>4, SameIsOwn
    <3>7. dFree' \in Nat
          /\ dFree' = dFree + (IF Holds(dPc[r]) THEN 1 ELSE 0) - (IF Holds("wantCall") THEN 1 ELSE 0)
        BY <1>2, <2>1 DEF Holds, Holding
    <3> QED
        BY <1>3, <3>1, <3>5, <3>6, <3>7, RunMoves
  <2> QED
      BY <2>2, <2>3, <2>4
<1>8. CASE ~At(r, "delegating")
  <2>1. UNCHANGED <<dFree, dPc, dTurn, dSummary>>
      BY <1>8 DEF WorkerAnswers
  <2>2. RunOK(dPc[r], dTurn[r], dAttempt[r], dAsked[r] - 1, dSummary[r])
      BY <1>2, <1>5, <1>6
  <2>3. \A q \in Debates : RunOK(dPc'[q], dTurn'[q], dAttempt'[q], dAsked'[q], dSummary'[q])
    <3> SUFFICES ASSUME NEW q \in Debates
                 PROVE  RunOK(dPc'[q], dTurn'[q], dAttempt'[q], dAsked'[q], dSummary'[q])
        OBVIOUS
    <3>1. CASE q = r
        BY <1>1, <1>4, <2>1, <2>2, <3>1
    <3>2. CASE q # r
      <4>1. dAsked'[q] = dAsked[q]
          BY <1>1, <3>2 DEF DebateInv
      <4> QED
          BY <1>1, <2>1, <4>1 DEF DebateInv
    <3> QED
        BY <3>1, <3>2
  <2>4. SlotHolders' = SlotHolders
      BY <2>1 DEF SlotHolders
  <2>5. dAsked' = [q \in Debates |-> dAsked'[q]]
      BY <1>1 DEF DebateInv
  <2> QED
      BY <1>1, <1>3, <2>1, <2>3, <2>4, <2>5 DEF DebateInv
<1> QED
    BY <1>7, <1>8

LEMMA FailsTransientlyKeepsInv ==
    ASSUME DebateInv, NEW r \in Debates, ProviderFailsTransiently(r)
    PROVE  DebateInv'
<1>1. /\ dPc[r] = "calling" /\ dAttempt[r] < Attempts - 1 /\ dFree' = dFree + 1
      /\ UNCHANGED <<dSetup, dCalls, dRetries, dTurn, dAttempt, dAsked, dSummary>>
    BY DEF ProviderFailsTransiently, At, Release
<1>2. PICK pc \in {"wantHeal", "checkRetry"} :
         Move(r, pc) /\ (IF pc = "wantHeal" THEN dHeals < dSetup.limits.heals /\ dHeals' = dHeals + 1
                         ELSE UNCHANGED dHeals)
    BY DEF ProviderFailsTransiently
<1>3. CountersOK'
  <2>1. dSetup.limits.heals \in Nat
      BY DebateAssumption DEF DebateInv, CountersOK
  <2> QED
      BY <1>1, <1>2, <2>1 DEF DebateInv, CountersOK
<1>4. pc \in DebatePlaces /\ ~Holds(pc) /\ Holds(dPc[r])
    BY <1>1, <1>2 DEF DebatePlaces, Holds, Holding, Wanting
<1>5. dPc[r] \notin Ended \cup {"idle"} /\ dPc[r] # "subs"
    BY <1>1 DEF Ended
<1> QED
    BY <1>1, <1>2, <1>3, <1>4, <1>5, MoveKeepsInv

\* The steps of a run that only move it on within its turn.
LEMMA PassingStepsKeepInv ==
    ASSUME DebateInv, NEW r \in Debates, DelegationTimesOut(r) \/ Healed(r) \/ Verdict(r)
    PROVE  DebateInv'
<1>1. /\ UNCHANGED <<dSetup, dCalls, dRetries, dHeals, dTurn, dAttempt, dAsked, dSummary>>
      /\ dPc[r] \in {"delegating", "healing", "verdict"}
      /\ dFree' = IF Holds(dPc[r]) THEN dFree + 1 ELSE dFree
    BY DEF DelegationTimesOut, Healed, Verdict, At, Release, Holds, Holding
<1>2. PICK pc \in {"wantCall", "checkRetry", "raised", "done"} :
         /\ Move(r, pc) /\ (pc = "wantCall" => dPc[r] = "delegating")
         /\ (pc = "checkRetry" => dPc[r] = "healing") /\ (pc = "done" => dPc[r] = "verdict")
    BY DEF DelegationTimesOut, Healed, Verdict, At
<1>3. RunOK(dPc[r], dTurn[r], dAttempt[r], dAsked[r], dSummary[r])
    BY DEF DebateInv
<1>4. /\ pc \in {"wantHeal", "healing", "checkRetry", "retry"} => dAttempt[r] < Attempts - 1
      /\ pc \in {"verdict", "done"} => dSummary[r] # "none"
    BY <1>2, <1>3 DEF RunOK
<1>5. CountersOK'
    BY <1>1, CountersStay
<1>6. pc \in DebatePlaces /\ ~Holds(pc)
    BY <1>2 DEF DebatePlaces, Holds, Holding, Wanting, Ended
<1>7. dPc[r] \notin Ended \cup {"idle"} /\ dPc[r] # "subs"
    BY <1>1 DEF Ended
<1> QED
    BY <1>1, <1>2, <1>4, <1>5, <1>6, <1>7, MoveKeepsInv

\* The steps that answer a turn: by the provider, or by an error.
LEMMA AnsweringStepsKeepInv ==
    ASSUME DebateInv, NEW r \in Debates,
           ProviderAnswers(r) \/ ResolveFails(r) \/ \E f \in Failures : ProviderFails(r, f)
    PROVE  DebateInv'
<1>1. /\ UNCHANGED <<dSetup, dCalls, dRetries, dHeals, dAttempt, dAsked>>
      /\ dPc[r] \in {"calling", "wantCall"}
      /\ dFree' = IF Holds(dPc[r]) THEN dFree + 1 ELSE dFree
    BY DEF ProviderAnswers, ResolveFails, ProviderFails, At, Release, Holds, Holding
<1>2. PICK summary \in {"text", "escalate", "error"} : Contribute(r, summary)
    BY DEF ProviderAnswers, ResolveFails, ProviderFails
<1>3. CountersOK'
    BY <1>1, CountersStay
<1>4. dAsked[r] \in Nat
    BY DEF DebateInv, RunOK
<1>5. dAsked[r] <= dAsked[r] /\ dAsked' = [dAsked EXCEPT ![r] = dAsked[r]]
    BY <1>1, <1>4, SameIsOwn
<1>6. dPc[r] \notin Ended /\ dPc[r] \notin {"idle", "subs", "turn", "wantDelegate"}
    BY <1>1 DEF Ended
<1> QED
    BY <1>1, <1>2, <1>3, <1>4, <1>5, <1>6, ContributeKeepsInv

LEMMA CheckRetryKeepsInv ==
    ASSUME DebateInv, NEW r \in Debates, CheckRetry(r)
    PROVE  DebateInv'
<1>1. dPc[r] = "checkRetry" /\ UNCHANGED <<dSetup, dCalls, dRetries, dHeals, dFree, dAttempt, dAsked>>
    BY DEF CheckRetry, At
<1>2. CountersOK'
    BY <1>1, CountersStay
<1>3. RunOK(dPc[r], dTurn[r], dAttempt[r], dAsked[r], dSummary[r])
    BY DEF DebateInv
<1>4. dFree' = IF Holds(dPc[r]) THEN dFree + 1 ELSE dFree
    BY <1>1 DEF Holds, Holding
<1>5. dPc[r] \notin Ended /\ dPc[r] \notin {"idle", "subs", "turn", "wantDelegate"}
    BY <1>1 DEF Ended
<1>6. CASE Contribute(r, "error")
  <2>1. dAsked[r] \in Nat
      BY <1>3 DEF RunOK
  <2>2. dAsked[r] <= dAsked[r] /\ dAsked' = [dAsked EXCEPT ![r] = dAsked[r]]
      BY <1>1, <2>1, SameIsOwn
  <2> QED
      BY <1>1, <1>2, <1>4, <1>5, <1>6, <2>1, <2>2, ContributeKeepsInv
<1>7. CASE Move(r, "retry") /\ UNCHANGED <<dTurn, dSummary>>
  <2>1. "retry" \in DebatePlaces /\ ~Holds("retry")
      BY DEF DebatePlaces, Holds, Holding
  <2>2. dAttempt[r] < Attempts - 1
      BY <1>1, <1>3 DEF RunOK
  <2> QED
      BY <1>1, <1>2, <1>4, <1>5, <1>7, <2>1, <2>2, MoveKeepsInv
<1> QED
    BY <1>6, <1>7 DEF CheckRetry

LEMMA RetryKeepsInv ==
    ASSUME DebateInv, NEW r \in Debates, Retry(r)
    PROVE  DebateInv'
<1>1. dPc[r] = "retry" /\ UNCHANGED <<dSetup, dCalls, dHeals, dFree, dTurn, dAsked, dSummary>>
    BY DEF Retry, At
<1>2. RunOK("retry", dTurn[r], dAttempt[r], dAsked[r], dSummary[r]) /\ dFree \in Nat
    BY <1>1 DEF DebateInv
<1>3. dPc[r] \notin Ended \cup {"idle"} /\ dPc[r] # "subs"
    BY <1>1 DEF Ended
<1>4. CASE dRetries >= dSetup.limits.retries
  <2>1. Move(r, "raised") /\ UNCHANGED <<dRetries, dAttempt>>
      BY <1>4 DEF Retry
  <2>2. "raised" \in DebatePlaces /\ ~Holds("raised")
      BY DEF DebatePlaces, Holds, Holding, Ended
  <2>3. dFree' = IF Holds(dPc[r]) THEN dFree + 1 ELSE dFree
      BY <1>1 DEF Holds, Holding
  <2>4. CountersOK'
      BY <1>1, <2>1, CountersStay
  <2> QED
      BY <1>1, <1>3, <2>1, <2>2, <2>3, <2>4, MoveKeepsInv
<1>5. CASE ~(dRetries >= dSetup.limits.retries)
  <2>1. /\ dRetries' = dRetries + 1 /\ dPc' = [dPc EXCEPT ![r] = "wantCall"]
        /\ dAttempt' = [dAttempt EXCEPT ![r] = dAttempt[r] + 1]
      BY <1>5 DEF Retry, Move
  <2>2. dAttempt'[r] = dAttempt[r] + 1
      BY <2>1 DEF DebateInv
  <2>3. RunOK("wantCall", dTurn[r], dAttempt[r], dAsked[r], dSummary[r])
      BY <1>2, RunOKStays DEF DebatePlaces, Wanting
  <2>4. dAttempt[r] + 1 \in 0 .. Attempts - 1
      BY <1>2, DebateAssumption DEF RunOK
  <2>5. RunOK("wantCall", dTurn[r], dAttempt[r] + 1, dAsked[r], dSummary[r])
      BY <2>3, <2>4 DEF RunOK
  <2>6. RunOK("wantCall", dTurn'[r], dAttempt'[r], dAsked'[r], dSummary'[r])
      BY <1>1, <2>2, <2>5
  <2>7. /\ dTurn' = [dTurn EXCEPT ![r] = dTurn'[r]] /\ dAttempt' = [dAttempt EXCEPT ![r] = dAttempt'[r]]
        /\ dAsked' = [dAsked EXCEPT ![r] = dAsked'[r]] /\ dSummary' = [dSummary EXCEPT ![r] = dSummary'[r]]
      BY <1>1, <2>1, <2>2, SameIsOwn
  <2>8. CountersOK'
    <3>1. dSetup.limits.retries \in Nat
        BY DebateAssumption DEF DebateInv, CountersOK
    <3> QED
        BY <1>1, <1>5, <2>1, <3>1 DEF DebateInv, CountersOK
  <2>9. dFree' \in Nat
        /\ dFree' = dFree + (IF Holds(dPc[r]) THEN 1 ELSE 0) - (IF Holds("wantCall") THEN 1 ELSE 0)
      BY <1>1, <1>2 DEF Holds, Holding
  <2> QED
      BY <1>3, <2>1, <2>6, <2>7, <2>8, <2>9, RunMoves
<1> QED
    BY <1>4, <1>5

LEMMA CancelSubKeepsInv ==
    ASSUME DebateInv, NEW s \in Subs, CancelSub(s)
    PROVE  DebateInv'
<1>1. /\ s \in Debates /\ s # Main /\ dPc[s] \notin Ended \cup {"idle"} /\ Move(s, "cancelled")
      /\ UNCHANGED <<dSetup, dCalls, dRetries, dHeals, dTurn, dAttempt, dAsked, dSummary>>
      /\ dFree' = IF Holds(dPc[s]) THEN dFree + 1 ELSE dFree
    BY DebateAssumption DEF CancelSub, Debates
<1>2. "cancelled" \in DebatePlaces /\ ~Holds("cancelled")
    BY DEF DebatePlaces, Holds, Holding, Ended
<1>3. CountersOK'
    BY <1>1, CountersStay
<1> QED
    BY <1>1, <1>2, <1>3, MoveKeepsInv

\* The runs start: none holds a slot, and no counter has moved.
LEMMA StartKeepsInv ==
    ASSUME DebateInv, StartDebate
    PROVE  DebateInv'
<1>1. /\ dPc[Main] = "idle" /\ \A r \in Debates : dPc[r] = "idle"
      /\ UNCHANGED <<dSetup, dCalls, dRetries, dHeals, dFree, dTurn, dAttempt, dAsked, dSummary>>
    BY DEF StartDebate, At, DebateInv, Debates
<1>2. DOMAIN dPc' = Debates /\ dPc' = [r \in Debates |-> dPc'[r]]
    BY DEF StartDebate, DebateInv
<1>3. \A r \in Debates : dPc'[r] \in {"idle", "subs", "turn", "raised"}
    BY <1>1 DEF StartDebate, DebateInv
<1>4. \A r \in Debates : RunOK(dPc'[r], dTurn'[r], dAttempt'[r], dAsked'[r], dSummary'[r])
  <2> SUFFICES ASSUME NEW r \in Debates
               PROVE  RunOK(dPc'[r], dTurn'[r], dAttempt'[r], dAsked'[r], dSummary'[r])
      OBVIOUS
  <2>1. RunOK("idle", dTurn[r], dAttempt[r], dAsked[r], dSummary[r])
      BY <1>1 DEF DebateInv
  <2>2. RunOK("raised", dTurn[r], dAttempt[r], dAsked[r], dSummary[r])
      BY <2>1, RunOKStays DEF DebatePlaces, Ended
  <2>3. ASSUME NEW pc \in {"idle", "subs", "turn"}
        PROVE  RunOK(pc, dTurn[r], dAttempt[r], dAsked[r], dSummary[r])
    <3>1. Delegated(pc, dTurn[r]) = Delegated("idle", dTurn[r])
        BY DEF Delegated
    <3> QED
        BY <2>1, <3>1 DEF RunOK, DebatePlaces
  <2> QED
      BY <1>1, <1>3, <2>2, <2>3
<1>5. SlotHolders' = {} /\ SlotHolders = {}
    BY <1>1, <1>3 DEF SlotHolders, Holds, Holding
<1>6. dPc'[Main] \in {"subs", "raised"} \/ (Subs = {} /\ dPc'[Main] = "turn")
    BY DEF StartDebate, DebateInv, Debates
<1>7. CountersOK'
    BY <1>1, CountersStay
<1>8. /\ dTurn' = [q \in Debates |-> dTurn'[q]] /\ dAttempt' = [q \in Debates |-> dAttempt'[q]]
      /\ dAsked' = [q \in Debates |-> dAsked'[q]] /\ dSummary' = [q \in Debates |-> dSummary'[q]]
    BY <1>1 DEF DebateInv
<1>9. dFree' \in Nat /\ dFree' + Cardinality(SlotHolders') = Slots
    BY <1>1, <1>5 DEF DebateInv
<1> QED
    BY <1>2, <1>4, <1>6, <1>7, <1>8, <1>9 DEF DebateInv

\* The group of sub-swarms has ended.
LEMMA JoinKeepsInv ==
    ASSUME DebateInv, JoinSubs
    PROVE  DebateInv'
<1>1. /\ dPc[Main] = "subs" /\ Main \in Debates
      /\ UNCHANGED <<dSetup, dCalls, dRetries, dHeals, dFree, dTurn, dAttempt, dAsked, dSummary>>
    BY DEF JoinSubs, At, Debates
<1>2. PICK pc \in {"turn", "raised"} : dPc' = [dPc EXCEPT ![Main] = pc] /\ (pc = "turn" => \A s \in Subs : dPc[s] = "done")
    BY DEF JoinSubs, Move, At
<1>3. \A r \in Debates : dPc'[r] = IF r = Main THEN pc ELSE dPc[r]
    BY <1>2 DEF DebateInv
<1>4. RunOK("subs", dTurn[Main], dAttempt[Main], dAsked[Main], dSummary[Main])
    BY <1>1 DEF DebateInv
<1>5. RunOK(pc, dTurn[Main], dAttempt[Main], dAsked[Main], dSummary[Main])
  <2>1. CASE pc = "raised"
      BY <1>4, <2>1, RunOKStays DEF DebatePlaces, Ended
  <2>2. CASE pc = "turn"
    <3>1. Delegated("turn", dTurn[Main]) = Delegated("subs", dTurn[Main])
        BY DEF Delegated
    <3> QED
        BY <1>4, <2>2, <3>1 DEF RunOK, DebatePlaces
  <2> QED
      BY <1>2, <2>1, <2>2
<1>6. \A r \in Debates : RunOK(dPc'[r], dTurn'[r], dAttempt'[r], dAsked'[r], dSummary'[r])
    BY <1>1, <1>3, <1>5 DEF DebateInv
<1>7. dPc'[Main] = pc /\ \A s \in Subs : dPc'[s] = dPc[s]
    BY <1>1, <1>3, DebateAssumption DEF Debates
<1>8. SlotHolders' = SlotHolders
    BY <1>1, <1>2, <1>3 DEF SlotHolders, Holds, Holding
<1>9. DOMAIN dPc' = Debates /\ dPc' = [r \in Debates |-> dPc'[r]]
    BY <1>2 DEF DebateInv
<1>10. CountersOK'
    BY <1>1, CountersStay
<1>11. /\ dTurn' = [q \in Debates |-> dTurn'[q]] /\ dAttempt' = [q \in Debates |-> dAttempt'[q]]
       /\ dAsked' = [q \in Debates |-> dAsked'[q]] /\ dSummary' = [q \in Debates |-> dSummary'[q]]
       /\ dFree' \in Nat /\ dFree' + Cardinality(SlotHolders') = Slots
    BY <1>1, <1>8 DEF DebateInv
<1>12. /\ dPc'[Main] # "idle"
       /\ dPc'[Main] \notin {"idle", "subs", "raised"} => \A s \in Subs : dPc'[s] = "done"
    BY <1>2, <1>7
<1> QED
    BY <1>6, <1>9, <1>10, <1>11, <1>12 DEF DebateInv

LEMMA DebateInitHolds == DebateInit => DebateInv
<1> SUFFICES ASSUME DebateInit PROVE DebateInv
    OBVIOUS
<1>1. dSetup.limits.calls \in Nat /\ dSetup.limits.retries \in Nat /\ dSetup.limits.heals \in Nat
    BY DebateAssumption DEF DebateInit
<1>2. CountersOK
    BY <1>1 DEF DebateInit, CountersOK
<1>3. RunOK("idle", 1, 0, 0, "none")
  <2>1. Delegated("idle", 1) = 0 /\ Workers * 0 \in Nat
      BY WorkersTimes DEF Delegated
  <2> QED
      BY <2>1, DebateAssumption DEF RunOK, DebatePlaces
<1>4. SlotHolders = {}
    BY DEF DebateInit, SlotHolders, Holds, Holding
<1>5. dFree \in Nat /\ dFree + Cardinality(SlotHolders) = Slots
    BY <1>4, DebateAssumption, FS_EmptySet DEF DebateInit
<1>6. /\ DOMAIN dPc = Debates /\ dPc = [r \in Debates |-> dPc[r]]
      /\ dTurn = [r \in Debates |-> dTurn[r]] /\ dAttempt = [r \in Debates |-> dAttempt[r]]
      /\ dAsked = [r \in Debates |-> dAsked[r]] /\ dSummary = [r \in Debates |-> dSummary[r]]
      /\ \A r \in Debates : dPc[r] = "idle" /\ dTurn[r] = 1 /\ dAttempt[r] = 0 /\ dAsked[r] = 0 /\ dSummary[r] = "none"
    BY DEF DebateInit
<1>7. Main \in Debates /\ Subs \subseteq Debates
    BY DEF Debates
<1> QED
    BY <1>2, <1>3, <1>5, <1>6, <1>7 DEF DebateInv

LEMMA DebateNextKeepsInv ==
    ASSUME DebateInv, DebateNext \/ UNCHANGED debateVars
    PROVE  DebateInv'
<1>1. CASE UNCHANGED debateVars
    BY <1>1 DEF debateVars, DebateInv, CountersOK, SlotHolders
<1>2. CASE StartDebate \/ JoinSubs
    BY <1>2, StartKeepsInv, JoinKeepsInv
<1>3. ASSUME NEW s \in Subs, CancelSub(s) PROVE DebateInv'
    BY <1>3, CancelSubKeepsInv
<1>4. ASSUME NEW r \in Debates, DebateStep(r) \/ WorkerAnswers(r) PROVE DebateInv'
    BY <1>4, BeginTurnKeepsInv, AcquireKeepsInv, WorkerAnswersKeepsInv, FailsTransientlyKeepsInv,
       PassingStepsKeepInv, AnsweringStepsKeepInv, CheckRetryKeepsInv, RetryKeepsInv DEF DebateStep
<1> QED
    BY <1>1, <1>2, <1>3, <1>4 DEF DebateNext

-----------------------------------------------------------------------------
(* All the parts.                                                          *)

WorkInv == WfInv /\ DebateInv /\ SwInv /\ PoolInv /\ LoopInv

LEMMA WorkInvHolds == Spec => []WorkInv
<1>1. Init => WorkInv
    BY WfInitHolds, DebateInitHolds, SwarmInitHolds, ThrottleInitHolds, LoopInitHolds DEF Init, WorkInv
<1>2. ASSUME WorkInv, [Next]_mcVars PROVE WorkInv'
  <2>1. \/ WfNext /\ UNCHANGED <<debateVars, swarmVars, lpVars, thVars>>
        \/ DebateNext /\ UNCHANGED <<wfVars, swarmVars, lpVars, thVars>>
        \/ SwarmNext /\ UNCHANGED <<wfVars, debateVars, lpVars, thVars>>
        \/ AgentLoopNext /\ UNCHANGED <<wfVars, debateVars, swarmVars, thVars>>
        \/ PoolNext /\ UNCHANGED <<wfVars, debateVars, swarmVars, lpVars>>
        \/ UNCHANGED <<wfVars, debateVars, swarmVars, lpVars, poolVars>>
      BY <1>2 DEF Next, mcVars, WorkflowStep, DebatesStep, SwarmStep, LoopsStep, PoolsStep, ProfilerStep,
         InWorkflow, InDebate, InSwarm, InLoop, InPools, ProfNext, thVars
  <2>2. [WfNext]_wfVars
      BY <2>1
  <2>3. DebateNext \/ UNCHANGED debateVars
      BY <2>1
  <2>4. SwarmNext \/ UNCHANGED swarmVars
      BY <2>1
  <2>5. AgentLoopNext \/ UNCHANGED lpVars
      BY <2>1
  <2>6. PoolNext \/ UNCHANGED poolVars
      BY <2>1 DEF thVars
  <2>7. WfInv /\ DebateInv /\ SwInv /\ PoolInv /\ LoopInv
      BY <1>2 DEF WorkInv
  <2>8. WfInv' /\ DebateInv'
      BY <2>2, <2>3, <2>7, WfNextKeepsWfInv, DebateNextKeepsInv
  <2>9. SwInv' /\ PoolInv' /\ LoopInv'
      BY <2>4, <2>5, <2>6, <2>7, SwarmNextKeepsSwInv, PoolNextKeepsPoolInv, LoopNextKeepsInv
  <2> QED
      BY <2>8, <2>9 DEF WorkInv
<1> QED
    BY <1>1, <1>2, PTL DEF Spec

\* A workflow's checkpoint holds every step that finished, whichever call or
\* crash comes between, and a swarm's names no subtask that nobody executed.
THEOREM WorkCheckpointsAreTrue == Spec => []CheckpointsAreTrue
<1>1. WorkInv => CheckpointsAreTrue
    BY DEF WorkInv, WfInv, SwInv, CheckpointsAreTrue
<1> QED
    BY <1>1, WorkInvHolds, PTL

\* A workflow that says success has no step that failed under the policy
\* "fail", and an accepted debate rests on its own synthesis and on that of
\* every sub-swarm.
THEOREM WorkSuccessIsWhole == Spec => []SuccessIsWhole
<1>1. WorkInv => SuccessIsWhole
    BY DebateInvGivesWhole DEF WorkInv, WfInv, SuccessIsWhole
<1> QED
    BY <1>1, WorkInvHolds, PTL

\* Debate slots and budget, reserved load, the gauges of the agent loop and the
\* threads of the pools add up in every state.
THEOREM WorkResourcesAreReturned == Spec => []ResourcesAreReturned
<1>1. WorkInv => ResourcesAreReturned
  <2> SUFFICES ASSUME WorkInv PROVE ResourcesAreReturned
      OBVIOUS
  <2>1. WfInv /\ DebateInv /\ SwInv /\ PoolInv /\ LoopInv
      BY DEF WorkInv
  <2>2. WfTypeOK /\ PoolsFitLoad
      BY <2>1 DEF WfInv, PoolInv
  <2> QED
      BY <2>1, <2>2, DebateInvGivesTypes, SwInvGivesTypes, LoopInvGivesBalance DEF ResourcesAreReturned
<1> QED
    BY <1>1, WorkInvHolds, PTL

\* A step that begins still has its dependencies, although the batch it is in
\* was chosen before the other steps of the batch ran.
THEOREM WorkStepsStartAfterDependencies == Spec => StartedAfterDependencies
<1> DEFINE Starts(s) == wfPc = "gather" /\ run.steps[s] = "pending" /\ run'.steps[s] = "running"
           Allowed(s) == \A p \in StepDependencies(wfDef, s) :
                            \/ run.steps[p] \in {"success", "skipped"}
                            \/ run.steps[p] = "failed" /\ wfDef.fallback[p] = s
           A == \A s \in WfSteps : Starts(s) => Allowed(s)
<1>1. WorkInv /\ [Next]_mcVars => [A]_wfVars
  <2> SUFFICES ASSUME WorkInv, [Next]_mcVars, NEW s \in WfSteps, Starts(s) PROVE Allowed(s)
      OBVIOUS
  <2>1. [WfNext]_wfVars
      BY DEF Next, mcVars, WorkflowStep, DebatesStep, SwarmStep, LoopsStep, PoolsStep, ProfilerStep,
         InWorkflow, InDebate, InSwarm, InLoop, InPools
  <2>2. WfInv
      BY DEF WorkInv
  <2> QED
      BY <2>1, <2>2, WfStartsAfterDependencies
<1>2. Spec => [][A]_wfVars
    BY <1>1, WorkInvHolds, PTL DEF Spec
<1> QED
    BY <1>2 DEF StartedAfterDependencies

=============================================================================
