--------------------------- MODULE WorkflowEngine ---------------------------
(***************************************************************************)
(* The workflow engine (core/workflow_engine.py): a run evaluates a graph  *)
(* of steps, executes the ready ones together, retries each with healed    *)
(* parameters, follows next_step, dependencies and fallback edges, and     *)
(* saves a checkpoint after every change so that a failed run can be       *)
(* resumed.  The process may crash between any two steps.                  *)
(***************************************************************************)
EXTENDS Integers, FiniteSets

CONSTANTS
    WfSteps,        \* step ids, in the order of the definition: 1..n
    WfDefs,         \* the workflow definitions considered
    MaxConcurrent,  \* max_concurrent_tasks
    MaxExecutes,    \* bound: calls of execute
    MaxCrashes      \* bound: crashes of the process

NoStep == 0                              \* no next_step, no fallback_step
Unknown == -1                            \* a template that renders to no step id
Policies == {"fail", "skip", "fallback"}
StepStatus == {"pending", "running", "success", "failed", "skipped"}
HealingAttempts == 2

\* A definition: explicit dependencies or none, next_step, policy, fallback.
WfDefinitions ==
    [explicit : SUBSET WfSteps, deps : [WfSteps -> SUBSET WfSteps],
     next : [WfSteps -> WfSteps \cup {NoStep, Unknown}],
     policy : [WfSteps -> Policies], fallback : [WfSteps -> WfSteps \cup {NoStep}]]

\* Without explicit dependencies a step waits for the one before it.
StepDependencies(d, s) ==
    IF s \in d.explicit THEN d.deps[s] ELSE {p \in WfSteps : p = s - 1}

\* _validate_step_graph: no dependency cycle.  A next_step that points back is
\* a template, which the check cannot see through.
ValidateStepGraph(d) ==
    \E rank \in [WfSteps -> WfSteps] :
        \A s \in WfSteps : \A p \in StepDependencies(d, s) : rank[p] < rank[s]

ASSUME WorkflowAssumption ==
    /\ IsFiniteSet(WfSteps) /\ WfSteps = 1..Cardinality(WfSteps) /\ WfSteps # {}
    /\ WfDefs \subseteq WfDefinitions
    /\ \A d \in WfDefs : ValidateStepGraph(d)
    /\ MaxConcurrent \in Nat \ {0} /\ MaxExecutes \in Nat /\ MaxCrashes \in Nat

VARIABLES
    wfDef,        \* the definition file of the workflow
    run,          \* the run state in memory: status and steps
    checkpoint,   \* the run file: <<>> or one run state
    wfPc,         \* idle | loop | gather
    batch,        \* the steps of the current gather
    attempts,     \* failed attempts of each step of the batch
    executes, crashes

wfVars == <<wfDef, run, checkpoint, wfPc, batch, attempts, executes, crashes>>

RunStates == [status : {"running", "failed", "success"}, steps : [WfSteps -> StepStatus]]

NewRun == [status |-> "running", steps |-> [s \in WfSteps |-> "pending"]]

Done == {"success", "failed", "skipped"}

\* The steps that s activates; only success, skip and fallback go on.
Activates(d, r, s) ==
    IF r.steps[s] \in {"success", "skipped"}
      THEN ({d.next[s]} \ {NoStep}) \cup {c \in d.explicit : s \in d.deps[c]}
      ELSE IF r.steps[s] # "failed" THEN {}
      ELSE IF d.policy[s] = "skip" THEN {d.next[s]} \ {NoStep}
      ELSE IF d.policy[s] = "fallback" THEN {d.fallback[s]} \ {NoStep} ELSE {}

\* The first step, the steps without dependencies and every finished step are
\* active, and so is what active steps activate.  The propagation loop reaches
\* nothing further, since a step that activates is finished and so active.
ActiveSteps(d, r) ==
    LET seeds == {1} \cup {s \in WfSteps : StepDependencies(d, s) = {}}
                     \cup {s \in WfSteps : r.steps[s] \in Done}
    IN  seeds \cup UNION {Activates(d, r, s) : s \in seeds}

\* Mutant: a failed dependency is as good as a finished one.
DepsOkAfterFailure(d, r, s) ==
    \A p \in StepDependencies(d, s) : r.steps[p] \in {"success", "skipped", "failed"}

DepsOk(d, r, s) ==
    \A p \in StepDependencies(d, s) :
        \/ r.steps[p] \in {"success", "skipped"}
        \/ r.steps[p] = "failed" /\ d.policy[p] = "fallback" /\ d.fallback[p] = s

Ready(d, r) == {s \in ActiveSteps(d, r) : r.steps[s] = "pending" /\ DepsOk(d, r, s)}

Fatal(d, r, S) == \E s \in S : r.steps[s] = "failed" /\ d.policy[s] = "fail"

\* A finished step whose next_step renders to its own id.
SelfCycle(d, r) == \E s \in WfSteps : r.steps[s] \in {"success", "skipped"} /\ d.next[s] = s
-----------------------------------------------------------------------------
WfInit ==
    /\ wfDef \in WfDefs
    /\ run = NewRun /\ checkpoint = <<>> /\ wfPc = "idle" /\ batch = {}
    /\ attempts = [s \in WfSteps |-> 0] /\ executes = 0 /\ crashes = 0

Save(r) == checkpoint' = <<r>>

\* Only failed steps are reset when a run is resumed.
ResetFailed(r) ==
    [status |-> "running",
     steps |-> [s \in WfSteps |-> IF r.steps[s] = "failed" THEN "pending" ELSE r.steps[s]]]

\* execute with resume: continue, if the checkpoint says failed.
ExecuteResume ==
    /\ wfPc = "idle" /\ executes < MaxExecutes
    /\ checkpoint # <<>> /\ checkpoint[1].status = "failed"
    /\ run' = ResetFailed(checkpoint[1])
    /\ wfPc' = "loop" /\ executes' = executes + 1
    /\ UNCHANGED <<wfDef, checkpoint, batch, attempts, crashes>>

\* execute otherwise: the run file is deleted and a new run begins, also when
\* a resume was asked for and the checkpoint says running or success.
ExecuteNew ==
    /\ wfPc = "idle" /\ executes < MaxExecutes
    /\ run' = NewRun /\ checkpoint' = <<>>
    /\ wfPc' = "loop" /\ executes' = executes + 1
    /\ UNCHANGED <<wfDef, batch, attempts, crashes>>

\* The run ends, with its last state saved or by an exception that is not.
End(status) ==
    /\ run' = [run EXCEPT !.status = status]
    /\ Save(run')
    /\ wfPc' = "idle" /\ batch' = {}
    /\ UNCHANGED <<wfDef, attempts, executes, crashes>>

Raise ==
    /\ wfPc' = "idle" /\ batch' = {}
    /\ UNCHANGED <<wfDef, run, checkpoint, attempts, executes, crashes>>

CycleDetected ==
    /\ wfPc = "loop" /\ SelfCycle(wfDef, run)
    /\ End("failed")

\* An unknown id among the active steps is a KeyError: nothing is saved.
UnknownStep ==
    /\ wfPc = "loop" /\ ~SelfCycle(wfDef, run)
    /\ Unknown \in ActiveSteps(wfDef, run)
    /\ Raise

Evaluating ==
    wfPc = "loop" /\ ~SelfCycle(wfDef, run) /\ Unknown \notin ActiveSteps(wfDef, run)

AllDone == \A s \in ActiveSteps(wfDef, run) : run.steps[s] \in Done

Complete == Evaluating /\ AllDone /\ End("success")

Running == {s \in ActiveSteps(wfDef, run) : run.steps[s] = "running"}

\* Mutant: blocked steps are not told from steps still running.
NoDeadlockDetection == FALSE

DeadlockDetected ==
    /\ Evaluating /\ ~AllDone
    /\ Ready(wfDef, run) = {} /\ Running = {}
    /\ End("failed")

\* Nothing is ready and some step is marked running: sleep and look again.
SleepAndRetry ==
    /\ Evaluating /\ ~AllDone
    /\ Ready(wfDef, run) = {} /\ Running # {}
    /\ UNCHANGED wfVars

StartBatch ==
    /\ Evaluating /\ ~AllDone
    /\ \E S \in SUBSET Ready(wfDef, run) :
          /\ S # {} /\ Cardinality(S) <= MaxConcurrent
          /\ Cardinality(S) = MaxConcurrent \/ S = Ready(wfDef, run)
          /\ batch' = S
    /\ wfPc' = "gather" /\ attempts' = [s \in WfSteps |-> 0]
    /\ UNCHANGED <<wfDef, run, checkpoint, executes, crashes>>

SetStep(s, status, runStatus) ==
    /\ run' = [run EXCEPT !.steps[s] = status, !.status = runStatus]
    /\ Save(run')

\* _execute_step_async: every task of the gather first marks its step.
StepStart(s) ==
    /\ wfPc = "gather" /\ s \in batch /\ run.steps[s] = "pending"
    /\ SetStep(s, "running", run.status)
    /\ UNCHANGED <<wfDef, wfPc, batch, attempts, executes, crashes>>

Started == \A s \in batch : run.steps[s] # "pending"

\* Mutant: one healing attempt too many.
AttemptFailsOnceMore(s) ==
    /\ wfPc = "gather" /\ Started /\ s \in batch /\ run.steps[s] = "running"
    /\ attempts[s] <= HealingAttempts
    /\ attempts' = [attempts EXCEPT ![s] = @ + 1]
    /\ UNCHANGED <<wfDef, run, checkpoint, wfPc, batch, executes, crashes>>

\* The tool reports an error; the parameters are healed for another attempt.
AttemptFails(s) ==
    /\ wfPc = "gather" /\ Started /\ s \in batch /\ run.steps[s] = "running"
    /\ attempts[s] < HealingAttempts
    /\ attempts' = [attempts EXCEPT ![s] = @ + 1]
    /\ UNCHANGED <<wfDef, run, checkpoint, wfPc, batch, executes, crashes>>

\* Mutant: the success is kept in memory only.
StepSucceedsUnsaved(s) ==
    /\ wfPc = "gather" /\ Started /\ s \in batch /\ run.steps[s] = "running"
    /\ run' = [run EXCEPT !.steps[s] = "success"]
    /\ UNCHANGED <<wfDef, checkpoint, wfPc, batch, attempts, executes, crashes>>

StepSucceeds(s) ==
    /\ wfPc = "gather" /\ Started /\ s \in batch /\ run.steps[s] = "running"
    /\ SetStep(s, "success", run.status)
    /\ UNCHANGED <<wfDef, wfPc, batch, attempts, executes, crashes>>

\* The last attempt failed: the policy decides what becomes of step and run.
StepFails(s) ==
    /\ wfPc = "gather" /\ Started /\ s \in batch /\ run.steps[s] = "running"
    /\ attempts[s] = HealingAttempts
    /\ CASE wfDef.policy[s] = "skip" -> SetStep(s, "skipped", run.status)
         [] wfDef.policy[s] = "fallback" /\ wfDef.fallback[s] # NoStep ->
              SetStep(s, "failed", run.status)
         [] OTHER -> SetStep(s, "failed", "failed")
    /\ UNCHANGED <<wfDef, wfPc, batch, attempts, executes, crashes>>

BatchDone == wfPc = "gather" /\ \A s \in batch : run.steps[s] \in Done

\* Mutant: the run goes on after a fatal failure in the batch.
GatherContinuesAlways ==
    /\ BatchDone
    /\ wfPc' = "loop" /\ batch' = {}
    /\ UNCHANGED <<wfDef, run, checkpoint, attempts, executes, crashes>>

GatherContinues ==
    /\ BatchDone /\ ~Fatal(wfDef, run, batch)
    /\ wfPc' = "loop" /\ batch' = {}
    /\ UNCHANGED <<wfDef, run, checkpoint, attempts, executes, crashes>>

\* The loop repeats this check at its top, where no such failure is left.
GatherFatal == BatchDone /\ Fatal(wfDef, run, batch) /\ End("failed")

\* The process stops; what was saved is all that is left.
Crash ==
    /\ wfPc # "idle" /\ crashes < MaxCrashes
    /\ crashes' = crashes + 1
    /\ run' = NewRun /\ wfPc' = "idle" /\ batch' = {}
    /\ attempts' = [s \in WfSteps |-> 0]
    /\ UNCHANGED <<wfDef, checkpoint, executes>>

WfStep ==
    \/ CycleDetected \/ UnknownStep \/ Complete \/ DeadlockDetected
    \/ SleepAndRetry \/ StartBatch
    \/ \E s \in WfSteps : StepStart(s) \/ AttemptFails(s) \/ StepSucceeds(s) \/ StepFails(s)
    \/ GatherContinues \/ GatherFatal

WfNext == ExecuteResume \/ ExecuteNew \/ WfStep \/ Crash

WfSpec == WfInit /\ [][WfNext]_wfVars

\* The event loop goes on with a run; nobody has to call execute or crash.
WfFairSpec == WfSpec /\ WF_wfVars(WfStep)
-----------------------------------------------------------------------------
\* The run state, the checkpoint and the batch are well formed, and only the
\* steps of the current batch have counted attempts below the limit.
WfTypeOK ==
    /\ wfDef \in WfDefs /\ run \in RunStates
    /\ checkpoint = <<>> \/ checkpoint \in {<<r>> : r \in RunStates}
    /\ wfPc \in {"idle", "loop", "gather"}
    /\ batch \subseteq WfSteps /\ (batch # {} <=> wfPc = "gather")
    /\ Cardinality(batch) <= MaxConcurrent
    /\ attempts \in [WfSteps -> 0..HealingAttempts]

\* A crash loses no finished work: what a run in progress has finished is in
\* its checkpoint, also across a resume and between two steps of one batch.
CompletedStepsAreSaved ==
    \A s \in WfSteps :
        (wfPc # "idle" /\ run.steps[s] \in {"success", "skipped"}) =>
            checkpoint # <<>> /\ checkpoint[1].steps[s] = run.steps[s]

\* A run reported as success has no step that failed under the policy fail.
SuccessHasNoFatalFailure ==
    (checkpoint # <<>> /\ checkpoint[1].status = "success") =>
        ~Fatal(wfDef, checkpoint[1], WfSteps)

\* A step starts only after its dependencies finished (or failed over to it),
\* although it was chosen before the other steps of its batch began.
StartedAfterDependencies ==
    [][\A s \in WfSteps :
         (wfPc = "gather" /\ run.steps[s] = "pending" /\ run'.steps[s] = "running") =>
            \A p \in StepDependencies(wfDef, s) :
               \/ run.steps[p] \in {"success", "skipped"}
               \/ run.steps[p] = "failed" /\ wfDef.fallback[p] = s]_wfVars

\* Whatever the graph and whatever fails, a call of execute ends: it never
\* waits for steps that cannot become ready (no crash so far).
RunsEnd == (wfPc # "idle" /\ crashes = 0) ~> (wfPc = "idle" \/ crashes > 0)

\* The same after a crash: a resumed run ends.
ResumedRunsEnd == wfPc # "idle" ~> wfPc = "idle"
=============================================================================
