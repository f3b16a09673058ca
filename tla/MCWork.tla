------------------------------- MODULE MCWork -------------------------------
(* The parts that carry work from its start to its end, for TLC: workflows,  *)
(* debates, dispatches to the swarm, the agent loop of a request, and the    *)
(* thread pools.  An instance explores one of them (focus), under the        *)
(* fairness that part states, and keeps the others as they start.            *)
EXTENDS WorkflowEngine, Debate, Swarm, AgentLoop, Throttle

VARIABLE focus

\* Steps that follow each other by next, explicit dependencies, a mix of both,
\* a cycle, an unknown next step.
Graph(explicit, d2, d3, n1, n2) ==
    [explicit |-> explicit, deps |-> <<{}, d2, d3>>, next |-> <<n1, n2, NoStep>>]

MCGraphs ==
    {Graph({}, {}, {}, 2, 3), Graph({}, {}, {}, NoStep, NoStep),
     Graph({2, 3}, {1}, {1, 2}, NoStep, NoStep), Graph({2, 3}, {1}, {1}, NoStep, NoStep),
     Graph({3}, {}, {}, 2, NoStep), Graph({2, 3}, {}, {2}, 1, NoStep),
     Graph({3}, {}, {2}, Unknown, NoStep)}

MCDefs ==
    {[explicit |-> g.explicit, deps |-> g.deps, next |-> g.next, policy |-> p, fallback |-> <<f, f, NoStep>>]
       : g \in MCGraphs, p \in {"fail", "fallback"} \X Policies \X {"fail", "fallback"}, f \in {NoStep, 3}}

\* A budget that runs out, one that suffices, one without retries.
MCBudgets ==
    {[calls |-> 3, retries |-> 1, heals |-> 1, depth |-> 1],
     [calls |-> 7, retries |-> 1, heals |-> 0, depth |-> 1],
     [calls |-> 2, retries |-> 0, heals |-> 0, depth |-> 0]}

Init ==
    /\ focus \in {"workflow", "debate", "swarm", "loop", "pool", "profiler"}
    /\ wfDef \in IF focus = "workflow" THEN WfDefs ELSE {CHOOSE d \in WfDefs : TRUE}
    /\ dSetup \in [limits : IF focus = "debate" THEN Budgets ELSE {CHOOSE b \in Budgets : TRUE},
                    redis : IF focus = "debate" THEN BOOLEAN ELSE {FALSE},
                    refused : IF focus = "debate" THEN BOOLEAN ELSE {FALSE}]
    /\ thCategory \in IF focus = "pool" THEN [PoolTasks -> Categories] ELSE {[t \in PoolTasks |-> "heavy"]}
    /\ WfInit /\ DebateInit /\ SwarmInit /\ AgentLoopInit /\ ThrottleInit

mcVars == <<focus, wfVars, debateVars, swarmVars, lpVars, thVars>>

InWorkflow == focus = "workflow" /\ UNCHANGED <<focus, debateVars, swarmVars, lpVars, thVars>>
InDebate == focus = "debate" /\ UNCHANGED <<focus, wfVars, swarmVars, lpVars, thVars>>
InSwarm == focus = "swarm" /\ UNCHANGED <<focus, wfVars, debateVars, lpVars, thVars>>
InLoop == focus = "loop" /\ UNCHANGED <<focus, wfVars, debateVars, swarmVars, thVars>>
InPools == UNCHANGED <<focus, wfVars, debateVars, swarmVars, lpVars>>

WorkflowStep == InWorkflow /\ WfNext
DebatesStep == InDebate /\ DebateNext
SwarmStep == InSwarm /\ SwarmNext
LoopsStep == InLoop /\ AgentLoopNext
PoolsStep == focus = "pool" /\ PoolNext /\ InPools
ProfilerStep == focus = "profiler" /\ ProfNext /\ InPools

Next == WorkflowStep \/ DebatesStep \/ SwarmStep \/ LoopsStep \/ PoolsStep \/ ProfilerStep

\* The fairness of each part, for the instances that explore it.
Fairness ==
    /\ WF_mcVars(InWorkflow /\ WfStep)
    /\ WF_mcVars(InDebate /\ JoinSubs)
    /\ \A r \in Debates : WF_mcVars(InDebate /\ DebateStep(r))
    /\ \A t \in SwTasks : WF_mcVars(InSwarm /\ DispatchStep(t))
    /\ \A l \in Loops : WF_mcVars(InLoop /\ LoopStep(l))
    /\ WF_mcVars(InLoop /\ ResumeSession)

Spec == Init /\ [][Next]_mcVars /\ Fairness
-----------------------------------------------------------------------------
(* Properties that several parts share. *)

\* Work that was started ends, whatever fails on the way: a call of the
\* workflow engine, a debate with its sub-swarms and budget, a dispatch to
\* workers that may be silent, and a request in the agent loop, unless it waits
\* for an answer that nobody owes it.
WorkEnds == RunsEnd /\ DebateEnds /\ DispatchesEnd /\ LoopsEnd

\* A checkpoint is neither behind nor ahead of the work: a workflow has saved
\* every finished step, and a swarm task claims no subtask that nobody ran.
CheckpointsAreTrue == CompletedStepsAreSaved /\ CheckpointsAreWorkDone

\* What is reported as a success is one: no step failed under the policy
\* "fail", and an accepted debate has its own synthesis and that of every
\* sub-swarm.
SuccessIsWhole == SuccessHasNoFatalFailure /\ AcceptedDebatesAreWhole

\* Whichever way work ends, it gives back what it took, and no counter leaves
\* its range: debate slots and budget, load reserved on nodes, the gauges of
\* the route, the threads of the pools.
ResourcesAreReturned ==
    /\ SlotsAreReturned /\ NoReservationLeaks /\ LoadsBalance /\ PoolsFitLoad
    /\ WfTypeOK /\ DebateTypeOK /\ SwarmTypeOK /\ LpTypeOK
=============================================================================
