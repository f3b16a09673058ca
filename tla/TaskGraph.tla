----------------------------- MODULE TaskGraph -----------------------------
(***************************************************************************)
(* The graph of a mission's tasks (core/task_environment.py) with the       *)
(* scopes its tasks may write, the governed execution of a task by tool     *)
(* calls (core/agent_executor.py) and the repair of malformed calls         *)
(* (core/protocol_repair.py).                                               *)
(***************************************************************************)
EXTENDS Integers, FiniteSets, Sequences, SequencesExt

CONSTANTS
    TgTasks,        \* task ids
    TgScopes,       \* mutable scopes: sets of paths
    TgPaths,        \* paths an agent may try to write: sequences of components
    TgProtected,    \* protected directories and files
    TgForbidden,    \* forbidden prefixes of the tasks' role
    MaxTurns,       \* stop_condition.max_turns (3)
    MaxRepairs,     \* LLM rounds of a repair (2)
    MaxCalls        \* bound: tool calls

\* The components that paths are made of.
TgNames == UNION {ToSet(p) : p \in TgPaths \cup UNION TgScopes}

ASSUME TaskGraphAssumption ==
    /\ MaxTurns \in Nat /\ MaxRepairs \in Nat /\ MaxCalls \in Nat
    /\ TgPaths \cup UNION TgScopes \subseteq Seq(TgNames)

VARIABLES
    tgNodes,        \* task_id -> absent, or its dependencies, scope and status
    tgTask,         \* the task under execution
    tgTurns,        \* attempt.turn_count
    tgCalls,        \* execute_tool calls made
    tgEvidence,     \* attempt.evidence_trail, as a number
    tgWritten       \* history: <<task, path>> written

tgVars == <<tgNodes, tgTask, tgTurns, tgCalls, tgEvidence, tgWritten>>
tgAttempt == <<tgTask, tgTurns, tgCalls, tgEvidence, tgWritten>>

Unadded == [deps |-> {}, scope |-> {}, status |-> "absent"]
Added == {t \in TgTasks : tgNodes[t].status # "absent"}
NoTask == "none"

TgTypeOK ==
    /\ \A t \in TgTasks : /\ tgNodes[t].status \in {"absent", "PENDING", "READY", "COMPLETED", "FAILED", "BLOCKED"}
                          /\ tgNodes[t].deps \subseteq TgTasks /\ tgNodes[t].scope \in TgScopes \cup {{}}
    /\ tgTurns \in 0 .. MaxTurns /\ tgCalls \in 0 .. MaxCalls /\ tgEvidence \in 0 .. MaxCalls

TaskGraphInit ==
    /\ tgNodes = [t \in TgTasks |-> Unadded]
    /\ tgTask = NoTask /\ tgTurns = 0 /\ tgCalls = 0 /\ tgEvidence = 0 /\ tgWritten = {}
-----------------------------------------------------------------------------
\* is_path_mutable: a protected path never; else a path the scope names, or
\* one below a directory of it. An empty scope allows every path.
Within(path, dir) == IsPrefix(dir, path)

PathMutable(path, scope) ==
    /\ \A p \in TgProtected : ~Within(path, p)
    /\ scope = {} \/ \E s \in scope : Within(path, s)

\* Mutant: only equal paths collide.
OverlappingEqual(a, b) == a \cap b # {}

\* validate_no_overlapping_scopes
Overlapping(a, b) == \E p \in a, q \in b : Within(p, q) \/ Within(q, p)

\* The synthesizer refuses a scope below a prefix the role is forbidden.
ScopeAllowed(scope) == \A s \in scope : \A f \in TgForbidden : ~Within(s, f)

\* A task whose dependencies, followed as far as they are known, lead back to it.
OnCycle(nodes, t) ==
    LET known(S) == {d \in UNION {nodes[u].deps : u \in S} : nodes[d].status # "absent"}
        reach[i \in 0 .. Cardinality(TgTasks)] == IF i = 0 THEN known({t}) ELSE reach[i - 1] \cup known(reach[i - 1])
    IN  t \in reach[Cardinality(TgTasks)]

\* add_task: the node is in the graph before detect_cycles raises, and stays.
AddTask(t, deps, scope) ==
    /\ t \notin Added
    /\ tgNodes' = [tgNodes EXCEPT ![t] = [deps |-> deps, scope |-> scope, status |-> "PENDING"]]
    /\ UNCHANGED tgAttempt

DepsDone(t) == \A d \in tgNodes[t].deps : tgNodes[d].status = "COMPLETED"
ReadyTasks == {t \in Added : tgNodes[t].status \in {"PENDING", "READY"} /\ DepsDone(t)}

GetReadyTasks ==
    /\ tgNodes' = [t \in TgTasks |-> IF t \in ReadyTasks THEN [tgNodes[t] EXCEPT !.status = "READY"] ELSE tgNodes[t]]
    /\ tgNodes' # tgNodes
    /\ UNCHANGED tgAttempt

MarkCompleted(t) ==
    /\ t \in Added
    /\ tgNodes' = [tgNodes EXCEPT ![t].status = "COMPLETED"]
    /\ UNCHANGED tgAttempt

\* Mutant: only a dependent that was never reported ready is blocked.
MarkFailedPendingOnly(t) ==
    /\ t \in Added
    /\ tgNodes' = [u \in TgTasks |->
           IF u = t THEN [tgNodes[u] EXCEPT !.status = "FAILED"]
           ELSE IF t \in tgNodes[u].deps /\ tgNodes[u].status = "PENDING"
           THEN [tgNodes[u] EXCEPT !.status = "BLOCKED"] ELSE tgNodes[u]]
    /\ UNCHANGED tgAttempt

\* mark_failed, from any status: the direct dependents that wait are blocked.
MarkFailed(t) ==
    /\ t \in Added
    /\ tgNodes' = [u \in TgTasks |->
           IF u = t THEN [tgNodes[u] EXCEPT !.status = "FAILED"]
           ELSE IF t \in tgNodes[u].deps /\ tgNodes[u].status \in {"PENDING", "READY"}
           THEN [tgNodes[u] EXCEPT !.status = "BLOCKED"] ELSE tgNodes[u]]
    /\ UNCHANGED tgAttempt
-----------------------------------------------------------------------------
\* synthesize and execute_plan: an environment and a fresh attempt for a task.
BeginAttempt(t) ==
    /\ t \in Added /\ tgCalls < MaxCalls /\ tgTask # t /\ ScopeAllowed(tgNodes[t].scope)
    /\ tgTask' = t /\ tgTurns' = 0 /\ tgEvidence' = 0
    /\ UNCHANGED <<tgNodes, tgCalls, tgWritten>>

\* Mutant: the turn limit is not looked at.
CallUnlimited == tgTask # NoTask /\ tgCalls < MaxCalls /\ tgCalls' = tgCalls + 1

Call == tgTask # NoTask /\ tgTurns < MaxTurns /\ tgCalls < MaxCalls /\ tgCalls' = tgCalls + 1

\* validate_and_repair: parsing, aliases and coercions, then at most MaxRepairs
\* rounds of an LLM; a round's error ends it. How many rounds, and is it valid.
Repairs == {<<0, TRUE>>} \cup ((0 .. MaxRepairs) \X {FALSE}) \cup ((1 .. MaxRepairs) \X {TRUE})

\* A call that cannot be repaired leaves evidence and takes no turn.
RepairFails ==
    /\ Call /\ \E r \in Repairs : ~r[2]
    /\ tgEvidence' = tgEvidence + 1
    /\ UNCHANGED <<tgNodes, tgTask, tgTurns, tgWritten>>

\* validate_tool_call for a write: the scope of the task and the role.
WriteAllowed(path) ==
    /\ PathMutable(path, tgNodes[tgTask].scope)
    /\ \A f \in TgForbidden : ~Within(path, f)

\* The guard raises before the call is dispatched: a turn, and no evidence.
GuardRaises ==
    /\ Call /\ tgTurns' = tgTurns + 1
    /\ UNCHANGED <<tgNodes, tgTask, tgEvidence, tgWritten>>

\* filesystem.write; an error of the file system is evidence as well, and may
\* come after the file was opened.
ToolWrites(path) ==
    /\ Call /\ WriteAllowed(path) /\ tgTurns' = tgTurns + 1
    /\ tgEvidence' = tgEvidence + 1
    /\ tgWritten' = tgWritten \cup {<<tgTask, path>>}
    /\ UNCHANGED <<tgNodes, tgTask>>

\* shell.exec that is not destructive, within its timeout or killed by it.
ShellExec ==
    /\ Call /\ tgTurns' = tgTurns + 1
    /\ tgEvidence' = tgEvidence + 1
    /\ UNCHANGED <<tgNodes, tgTask, tgWritten>>

\* filesystem.read and git.diff: nobody looks at what the guard returns.
ToolReads ==
    /\ Call /\ tgTurns' = tgTurns + 1 /\ tgEvidence' = tgEvidence + 1
    /\ UNCHANGED <<tgNodes, tgTask, tgWritten>>

TaskGraphNext ==
    \/ \E t \in TgTasks :
          \/ \E deps \in SUBSET TgTasks, scope \in TgScopes \cup {{}} : AddTask(t, deps, scope)
          \/ MarkCompleted(t) \/ MarkFailed(t) \/ BeginAttempt(t)
    \/ GetReadyTasks
    \/ (\E p \in TgPaths : ToolWrites(p)) \/ RepairFails \/ GuardRaises \/ ShellExec \/ ToolReads
-----------------------------------------------------------------------------
\* A task reported ready has all its dependencies completed, also when one of
\* them is failed after it was completed.
ReadyMeansDepsDone == \A t \in TgTasks : tgNodes[t].status = "READY" => DepsDone(t)

\* Two tasks whose scopes are declared and do not overlap never write one path.
DisjointTasksWriteDisjointly ==
    \A w, v \in tgWritten :
        w[2] = v[2] => w[1] = v[1] \/ tgNodes[w[1]].scope = {} \/ tgNodes[v[1]].scope = {}
                       \/ Overlapping(tgNodes[w[1]].scope, tgNodes[v[1]].scope)

\* mark_failed says that it blocks the dependents transitively: no waiting task
\* depends on one that failed or is blocked.
FailureBlocksTransitively ==
    \A t \in Added : tgNodes[t].status \in {"PENDING", "READY"} =>
        \A d \in tgNodes[t].deps : tgNodes[d].status \notin {"FAILED", "BLOCKED"}

\* add_task says that it validates for acyclicity: no task is on a cycle.
GraphIsAcyclic == \A t \in Added : ~OnCycle(tgNodes, t)
=============================================================================
