------------------------------ MODULE Throttle ------------------------------
(***************************************************************************)
(* observability.py: ConcurrencyBalancer, which resizes the pools for heavy *)
(* and telemetry work as tasks come and go, and EventLoopBottleneckProfiler,*)
(* which shrinks or grows its executor and the workflow engines' limit.     *)
(*                                                                          *)
(* A task's count and the balancing after it are two critical sections, so  *)
(* other threads may run between them.  The profiler compares perf_counter  *)
(* with the wall clock of its records: Epoch is the difference of the two   *)
(* clocks (seconds since 1970 against seconds since boot).                  *)
(***************************************************************************)
EXTENDS Integers, FiniteSets, FiniteSetsExt

CONSTANTS PoolTasks, MaxHeavy, MaxTelemetry, Epoch

ASSUME ThrottleAssumption ==
  MaxHeavy \in Nat \ {0} /\ MaxTelemetry \in Nat \ {0} /\ Epoch \in Nat

VARIABLES
  thTask,      \* task -> where it stands
  thCategory,  \* task -> "heavy" or "telemetry"
  thActive,    \* active_tasks
  thSize,      \* _max_workers of the two pools
  thOn,        \* the profiler's is_running
  thWorkers,   \* _max_workers of the profiler's executor
  thLimit,     \* max_concurrent_tasks of the registered engine
  thAge        \* seconds since the newest record, Forgotten or more if none

poolVars == <<thTask, thCategory, thActive, thSize>>
profVars == <<thOn, thWorkers, thLimit, thAge>>
thVars == <<poolVars, profVars>>

Categories == {"heavy", "telemetry"}
Recency == 5
Forgotten == Recency + 1

ThrottleInit ==
  /\ thTask = [t \in PoolTasks |-> "new"]
  /\ thCategory \in [PoolTasks -> Categories]
  /\ thActive = [c \in Categories |-> 0]
  /\ thSize = [heavy |-> MaxHeavy, telemetry |-> MaxTelemetry]
  /\ thOn = FALSE /\ thWorkers = 4 /\ thLimit = 10 /\ thAge = Forgotten

-----------------------------------------------------------------------------
(* ConcurrencyBalancer *)

\* What balance_loads gives the two pools for a load.
Sizes(load) ==
  CASE load.heavy > MaxHeavy /\ load.telemetry = 0 ->
         [heavy |-> Min({16, MaxHeavy + 4}), telemetry |-> Max({2, MaxTelemetry - 2})]
    [] load.telemetry > MaxTelemetry /\ load.heavy = 0 ->
         [heavy |-> Max({4, MaxHeavy - 2}), telemetry |-> Min({8, MaxTelemetry + 2})]
    [] OTHER -> [heavy |-> MaxHeavy, telemetry |-> MaxTelemetry]

\* offload: the task is counted under the lock ...
CountTask(t) ==
  /\ thTask[t] = "new"
  /\ thTask' = [thTask EXCEPT ![t] = "counted"]
  /\ thActive' = [thActive EXCEPT ![thCategory[t]] = @ + 1]
  /\ UNCHANGED <<thCategory, thSize>>

\* ... then balance_loads takes the lock again, and the task is submitted.
SubmitTask(t) ==
  /\ thTask[t] = "counted"
  /\ thTask' = [thTask EXCEPT ![t] = "submitted"]
  /\ thSize' = Sizes(thActive)
  /\ UNCHANGED <<thCategory, thActive>>

\* The pool runs the task on a thread when it has one free.
RunsOf(c) == Cardinality({t \in PoolTasks : thCategory[t] = c /\ thTask[t] \in {"running", "uncounted"}})

RunTask(t) ==
  /\ thTask[t] = "submitted" /\ RunsOf(thCategory[t]) < thSize[thCategory[t]]
  /\ thTask' = [thTask EXCEPT ![t] = "running"]
  /\ UNCHANGED <<thCategory, thActive, thSize>>

\* The task returns or raises: the finally of wrapped.
UncountTask(t) ==
  /\ thTask[t] = "running"
  /\ thTask' = [thTask EXCEPT ![t] = "uncounted"]
  /\ thActive' = [thActive EXCEPT ![thCategory[t]] = Max({0, @ - 1})]
  /\ UNCHANGED <<thCategory, thSize>>

\* Mutant: the pools are not balanced when a task leaves.
LeavePoolUnbalanced(t) ==
  /\ thTask[t] = "uncounted"
  /\ thTask' = [thTask EXCEPT ![t] = "ended"]
  /\ UNCHANGED <<thCategory, thActive, thSize>>

LeavePool(t) ==
  /\ thTask[t] = "uncounted"
  /\ thTask' = [thTask EXCEPT ![t] = "ended"]
  /\ thSize' = Sizes(thActive)
  /\ UNCHANGED <<thCategory, thActive>>

PoolStep ==
  \E t \in PoolTasks :
    CountTask(t) \/ SubmitTask(t) \/ RunTask(t) \/ UncountTask(t) \/ LeavePool(t)

PoolNext == PoolStep /\ UNCHANGED profVars

-----------------------------------------------------------------------------
(* EventLoopBottleneckProfiler *)

StartProfiler ==
  /\ ~thOn /\ thOn' = TRUE /\ thWorkers' = 4
  /\ UNCHANGED <<thLimit, thAge>>

StopProfiler ==
  /\ thOn /\ thOn' = FALSE
  /\ UNCHANGED <<thWorkers, thLimit, thAge>>

\* tune_concurrency on the age of the newest record: the monotonic clock
\* minus the record's wall clock.
Recent(age) == age - Epoch < Recency
Tuned(n, floor, ceiling, age) ==
  IF Recent(age) THEN Max({floor, n - 1}) ELSE Min({ceiling, n + 1})

Tune(age) ==
  /\ thWorkers' = Tuned(thWorkers, 2, 16, age)
  /\ thLimit' = Tuned(thLimit, 1, 12, age)

\* _monitor_loop found a stutter, or the executor timed a blocking call: the
\* record is appended and the capacity tuned.
RecordTrouble ==
  /\ thOn /\ thAge' = 0 /\ Tune(0)
  /\ UNCHANGED thOn

\* _monitor_loop found nothing: it only sleeps again.
SmoothTick ==
  /\ thOn /\ thAge' = Min({Forgotten, thAge + 1})
  /\ UNCHANGED <<thOn, thWorkers, thLimit>>

ProfNext == (StartProfiler \/ StopProfiler \/ RecordTrouble \/ SmoothTick) /\ UNCHANGED poolVars

-----------------------------------------------------------------------------
(* Properties *)

\* Whenever no thread is between counting and balancing, both pools have the
\* size the present load asks for, in whatever order the critical sections of
\* offload and wrapped interleaved.
PoolsFitLoad ==
  (\A t \in PoolTasks : thTask[t] \notin {"counted", "uncounted"}) => thSize = Sizes(thActive)
=============================================================================
