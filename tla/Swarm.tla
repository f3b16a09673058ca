-------------------------------- MODULE Swarm --------------------------------
(***************************************************************************)
(* Dispatch of crew tasks to worker nodes of one role: the registry of     *)
(* nodes (core/swarm_coordinator.py), the dispatcher with its two attempts *)
(* and its fallbacks (core/agent_crew.py), the worker daemon (service.py), *)
(* the failover routes (routes/swarm.py) and the lossy broker between them *)
(* (core/broker.py).                                                       *)
(***************************************************************************)
EXTENDS Integers, FiniteSets

CONSTANTS
    SwTasks,          \* dispatches, all of one session
    SwNodes,          \* worker nodes of the role
    Subtasks,       \* subtasks of a task (4 in the code)
    MaxBeats,       \* bound: heartbeats that change the registry
    NoNode

ASSUME SwarmAssumption ==
    /\ IsFiniteSet(SwTasks) /\ NoNode \notin SwNodes
    /\ Subtasks \in Nat \ {0} /\ MaxBeats \in Nat

VARIABLES
    swNodes,        \* _nodes: registered, load, whether the heartbeat is overdue
    swBeats,
    swPc, swAttempt, swTarget, swTracked,   \* a dispatch
    swJobs,         \* jobs at the workers
    swCkpt,         \* subtasks completed in the session's checkpoint
    swDone          \* history: subtasks executed in the session

swarmVars == <<swNodes, swBeats, swPc, swAttempt, swTarget, swTracked, swJobs, swCkpt, swDone>>
swTask == <<swPc, swAttempt, swTarget, swTracked>>

Registered == {n \in SwNodes : swNodes[n].up}
Gone == [up |-> FALSE, load |-> 0, stale |-> FALSE]
Jobs == [task : SwTasks, attempt : 1 .. 2, node : SwNodes, done : 0 .. Subtasks]
Finished == {"completed", "error"}

SwarmTypeOK ==
    /\ swNodes \in [SwNodes -> [up : BOOLEAN, load : 0 .. Cardinality(SwTasks) + 1, stale : BOOLEAN]]
    /\ swPc \in [SwTasks -> {"new", "waiting", "again", "fallback"} \cup Finished]
    /\ swAttempt \in [SwTasks -> 0 .. 2] /\ swTarget \in [SwTasks -> SwNodes \cup {NoNode}]
    /\ swTracked \in [SwTasks -> BOOLEAN] /\ swJobs \subseteq Jobs
    /\ swCkpt \in 0 .. Subtasks /\ swDone \subseteq 1 .. Subtasks /\ swBeats \in 0 .. MaxBeats

SwarmInit ==
    /\ swNodes = [n \in SwNodes |-> Gone] /\ swBeats = 0
    /\ swPc = [t \in SwTasks |-> "new"] /\ swAttempt = [t \in SwTasks |-> 0]
    /\ swTarget = [t \in SwTasks |-> NoNode] /\ swTracked = [t \in SwTasks |-> FALSE]
    /\ swJobs = {} /\ swCkpt = 0 /\ swDone = {}
-----------------------------------------------------------------------------
\* register_or_update_node: a join or heartbeat overwrites the load with what
\* the worker says of itself, whatever the coordinator has reserved.
Heartbeat(n) ==
    /\ swBeats < MaxBeats /\ swBeats' = swBeats + 1
    /\ swNodes' = [swNodes EXCEPT ![n] =
           [up |-> TRUE, stale |-> FALSE, load |-> IF \E j \in swJobs : j.node = n THEN 1 ELSE 0]]
    /\ UNCHANGED <<swTask, swJobs, swCkpt, swDone>>

\* Fifteen seconds without a heartbeat.
Overdue(n) ==
    /\ swNodes[n].up /\ swNodes' = [swNodes EXCEPT ![n].stale = TRUE]
    /\ UNCHANGED <<swBeats, swTask, swJobs, swCkpt, swDone>>

\* A leave, a scale-down, a forced failover, or the heartbeat loop that drops
\* a node it saw overdue before the node's heartbeat came in.
MarkOffline(n) ==
    /\ swNodes[n].up /\ swNodes' = [swNodes EXCEPT ![n] = Gone]
    /\ UNCHANGED <<swBeats, swTask, swJobs, swCkpt, swDone>>

\* check_heartbeats: the registry without the overdue nodes.
Flushed == [n \in SwNodes |-> IF swNodes[n].stale THEN Gone ELSE swNodes[n]]

\* get_best_node: the overdue nodes are dropped, a least loaded one reserved.
BestNodes ==
    LET up == {n \in SwNodes : Flushed[n].up}
    IN  {n \in up : \A m \in up : Flushed[n].load <= Flushed[m].load}

Reserved(n) == [Flushed EXCEPT ![n].load = @ + 1]

\* The request is published to the role's channel with the session's
\* checkpoint. The targeted worker takes it, or all of them when no node is
\* known; a worker that does not listen misses it.
Publish(t, n, attempt) ==
    \E takers \in SUBSET (IF n = NoNode THEN SwNodes ELSE {n}) :
        swJobs' = swJobs \cup {[task |-> t, attempt |-> attempt, node |-> m, done |-> swCkpt] : m \in takers}

DispatchTo(t, n) ==
    /\ swPc' = [swPc EXCEPT ![t] = "waiting"]
    /\ swAttempt' = [swAttempt EXCEPT ![t] = @ + 1]
    /\ swTarget' = [swTarget EXCEPT ![t] = n]
    /\ Publish(t, n, swAttempt[t] + 1)
    /\ UNCHANGED <<swBeats, swCkpt, swDone>>

Dispatch(t) ==
    /\ swPc[t] = "new"
    /\ \/ \E n \in BestNodes : /\ swNodes' = Reserved(n) /\ DispatchTo(t, n)
                               /\ swTracked' = [swTracked EXCEPT ![t] = TRUE]
       \/ BestNodes = {} /\ swNodes' = Flushed /\ DispatchTo(t, NoNode) /\ UNCHANGED swTracked

\* The second attempt, on whichever node is the best now.
DispatchAgain(t) ==
    /\ swPc[t] = "again"
    /\ \/ \E n \in BestNodes : swNodes' = Reserved(n) /\ DispatchTo(t, n)
       \/ /\ BestNodes = {} /\ swNodes' = Flushed
          /\ swPc' = [swPc EXCEPT ![t] = "fallback"]
          /\ UNCHANGED <<swBeats, swAttempt, swTarget, swJobs, swCkpt, swDone>>
    /\ UNCHANGED swTracked

\* Mutant: the load may go below zero.
ReleaseNodeUnclamped(n) ==
    swNodes' = IF n # NoNode /\ swNodes[n].up THEN [swNodes EXCEPT ![n].load = @ - 1] ELSE swNodes

\* release_node_load
ReleaseNode(n) ==
    swNodes' = IF n # NoNode /\ swNodes[n].up
               THEN [swNodes EXCEPT ![n].load = IF @ > 0 THEN @ - 1 ELSE 0] ELSE swNodes

\* Mutant: an attempt that times out waits for the node once more.
DispatchTimesOutWaits(t) ==
    /\ swPc[t] = "waiting" /\ swTarget[t] # NoNode
    /\ swNodes' = [swNodes EXCEPT ![swTarget[t]] = Gone]
    /\ UNCHANGED <<swBeats, swTask, swJobs, swCkpt, swDone>>

\* No answer in five seconds: the node is marked offline and, if it was
\* known, the other attempt is made.
DispatchTimesOut(t) ==
    LET n == swTarget[t]
    IN  /\ swPc[t] = "waiting"
        /\ swNodes' = IF n = NoNode THEN swNodes ELSE [swNodes EXCEPT ![n] = Gone]
        /\ swPc' = [swPc EXCEPT ![t] = IF swTracked[t] /\ swAttempt[t] < 2 THEN "again" ELSE "fallback"]
        /\ UNCHANGED <<swBeats, swAttempt, swTarget, swTracked, swJobs, swCkpt, swDone>>

\* Mutant: an answer to the first attempt only frees the node when it is a success.
AnswerKeepsLoad(j, status) ==
    /\ swJobs' = swJobs \ {j}
    /\ IF swPc[j.task] = "waiting"
       THEN swPc' = [swPc EXCEPT ![j.task] = status] /\ IF status = "error" THEN UNCHANGED swNodes ELSE ReleaseNode(swTarget[j.task])
       ELSE UNCHANGED <<swPc, swNodes>>

\* The worker's answer goes to the task's channel, whichever attempt listens.
Answer(j, status) ==
    /\ swJobs' = swJobs \ {j}
    /\ IF swPc[j.task] = "waiting"
       THEN swPc' = [swPc EXCEPT ![j.task] = status] /\ ReleaseNode(swTarget[j.task])
       ELSE UNCHANGED <<swPc, swNodes>>

\* Mutant: a worker that resumes skips one subtask too many.
WorkerStepSkips(j) ==
    /\ j.done < Subtasks
    /\ swJobs' = (swJobs \ {j}) \cup {[j EXCEPT !.done = IF @ + 2 < Subtasks THEN @ + 2 ELSE Subtasks]}
    /\ swCkpt' = j.done + 1 /\ swDone' = swDone \cup {j.done + 1}
    /\ UNCHANGED <<swNodes, swBeats, swTask>>

\* The worker does the next subtask and saves the checkpoint of the session.
WorkerStep(j) ==
    /\ j.done < Subtasks
    /\ swJobs' = (swJobs \ {j}) \cup {[j EXCEPT !.done = @ + 1]}
    /\ swCkpt' = j.done + 1 /\ swDone' = swDone \cup {j.done + 1}
    /\ UNCHANGED <<swNodes, swBeats, swTask>>

WorkerCompletes(j) ==
    /\ j.done = Subtasks /\ Answer(j, "completed")
    /\ UNCHANGED <<swBeats, swAttempt, swTarget, swTracked, swCkpt, swDone>>

\* No credit, blocked by policy, a checkpoint whose signature does not verify
\* or cannot be saved, a failed assertion: the answer is an error.
WorkerFails(j) ==
    /\ Answer(j, "error")
    /\ UNCHANGED <<swBeats, swAttempt, swTarget, swTracked, swCkpt, swDone>>

\* Pub/sub keeps nothing: an answer nobody hears is gone, as is a worker's job
\* when it crashes.
JobLost(j) ==
    /\ swJobs' = swJobs \ {j}
    /\ UNCHANGED <<swNodes, swBeats, swTask, swCkpt, swDone>>

\* A connected peer, else local execution: completed or error.
Fallback(t) ==
    /\ swPc[t] = "fallback"
    /\ \E s \in Finished : swPc' = [swPc EXCEPT ![t] = s]
    /\ UNCHANGED <<swNodes, swBeats, swAttempt, swTarget, swTracked, swJobs, swCkpt, swDone>>

DispatchStep(t) == Dispatch(t) \/ DispatchAgain(t) \/ DispatchTimesOut(t) \/ Fallback(t)

SwarmNext ==
    \/ \E n \in SwNodes : Heartbeat(n) \/ Overdue(n) \/ MarkOffline(n)
    \/ \E t \in SwTasks : DispatchStep(t)
    \/ \E j \in swJobs : WorkerStep(j) \/ WorkerCompletes(j) \/ WorkerFails(j) \/ JobLost(j)

\* The dispatcher is a thread with a timeout; workers need not run at all.
SwarmFairness == \A t \in SwTasks : WF_swarmVars(DispatchStep(t))

SwarmSpec == SwarmInit /\ [][SwarmNext]_swarmVars
-----------------------------------------------------------------------------
\* A node's load never exceeds the dispatches that wait for it by more than
\* the one a busy heartbeat claims: every way a dispatch ends gives its
\* reservation back.
NoReservationLeaks ==
    \A n \in SwNodes :
        swNodes[n].load <= 1 + Cardinality({t \in SwTasks : swPc[t] = "waiting" /\ swTarget[t] = n})

\* The checkpoint never claims a subtask that no worker of the session has
\* executed, however attempts, resumed jobs and late workers overwrite it,
\* and a job about to complete has its work behind it.
CheckpointsAreWorkDone ==
    /\ 1 .. swCkpt \subseteq swDone
    /\ \A j \in swJobs : 1 .. j.done \subseteq swDone

\* A dispatch ends, also when no worker ever answers.
DispatchesEnd == \A t \in SwTasks : swPc[t] # "new" ~> swPc[t] \in Finished
=============================================================================
