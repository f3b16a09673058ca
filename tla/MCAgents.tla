------------------------------ MODULE MCAgents ------------------------------
(* The parts in which agents answer, change code and are held to rules, for  *)
(* TLC.  An instance explores one of them (focus) and keeps the others as    *)
(* they start.                                                               *)
EXTENDS AgentLoop, Engine, Responses, Governance, Pipeline, TaskGraph, Sandbox, TaskBoard, Factory

VARIABLE focus

\* Two accounts of the default provider, one of another.
MCAccounts ==
    <<[provider |-> "p", isActive |-> FALSE], [provider |-> "p", isActive |-> TRUE],
      [provider |-> "q", isActive |-> FALSE]>>

MCMembers == <<"ceo", "cto", "dev">>

\* A request that heals once, and one about security with a committee.
PlRequest(s, c, e, h) ==
    [security |-> s, flagged |-> s, wide |-> FALSE, committee |-> c, evidence |-> e, heal |-> h]
MCRequests == {PlRequest(FALSE, FALSE, TRUE, 1), PlRequest(TRUE, TRUE, FALSE, 0)}

\* Scopes and paths, as their components: a directory, one below it, others.
MCScopes == {{<<"core">>}, {<<"core", "a">>}, {<<"docs">>}}
MCPaths == {<<"core", "a">>, <<"docs">>, <<"git">>, <<"ui">>}
MCProtected == {<<"git">>}
MCForbidden == {<<"ui">>}

\* Plans of three tasks: dependencies with a cycle and with a task that is not
\* there, scopes that overlap, priorities and efforts, and kinds of work.
MCDependencies ==
    {<<{}, {}, {}>>, <<{}, {1}, {2}>>, <<{3}, {}, {1}>>, <<{2}, {}, {}>>, <<{}, {3}, {}>>, <<{0}, {}, {}>>}
MCTaskScopes ==
    {<<{"a"}, {"a"}, {"a"}>>, <<{"a"}, {"b"}, {"a", "b"}>>, <<{"a", "b"}, {"a"}, {"b"}>>}
MCRanks ==
    {<< <<1, 1>>, <<1, 1>>, <<1, 1>> >>, << <<1, 1>>, <<2, 1>>, <<3, 1>> >>, << <<3, 1>>, <<1, 2>>, <<1, 1>> >>}
MCWorkKinds ==
    {<<"ASYNC_MIGRATION", "ASYNC_MIGRATION", "TYPE_HARDENING">>, <<"MODULARIZE", "ASYNC_MIGRATION", "DECOUPLING">>,
     <<"TEST_EXPANSION", "CROSS_ORG_FEDERATION", "SYNTAX_CLEANUP">>}
MCPlans ==
    {[k \in 1 .. 3 |-> [scope |-> s[k], deps |-> d[k], prio |-> r[k][1], effort |-> r[k][2], kind |-> w[k]]]
       : s \in MCTaskScopes, d \in MCDependencies, r \in MCRanks, w \in MCWorkKinds}
MCListings == {<< >>, <<"x">>, <<"x", "y", "x">>}
MCPeers == << <<"cloud", {"REASONING_ENGINE"}>>, <<"edge1", {"SANDBOX_MUTATION"}>>, <<"edge2", {"SANDBOX_MUTATION", "TEST_RUNNER"}>> >>

\* The workspace of the transactions: one file is there, the others are not.
OneFile == {[f \in SbFiles |-> IF f = g THEN "base" ELSE Missing] : g \in {CHOOSE g \in SbFiles : TRUE}}

Init ==
    /\ focus \in {"loop", "talk", "skills", "responses", "governance", "pipeline",
                  "graph", "calls", "files", "containers", "links", "logs", "queue", "factory"}
    /\ sbDisk \in IF focus = "files" THEN OneFile ELSE {[f \in SbFiles |-> "base"]}
    /\ overBudget \in IF focus = "responses" THEN SUBSET Ids ELSE {{}}
    /\ plTips \in IF focus = "pipeline" THEN PlStarts ELSE {[b \in {} |-> {}]}
    /\ AgentLoopInit /\ EngineInit /\ RespInit /\ GovInit /\ PipelineInit /\ TaskGraphInit
    /\ SandboxInit /\ TaskBoardInit /\ FactoryInit

mcVars == <<focus, lpVars, egVars, respVars, govVars, plVars, tgVars, sbVars, tbVars, fcVars>>

LoopsStep == focus = "loop" /\ AgentLoopNext /\ UNCHANGED <<focus, egVars, respVars, govVars, plVars, tgVars, sbVars, tbVars, fcVars>>
TalkStep == focus = "talk" /\ TalkNext /\ UNCHANGED <<focus, lpVars, respVars, govVars, plVars, tgVars, sbVars, tbVars, fcVars>>
SkillStep ==
    /\ focus = "skills" /\ (SkillNext \/ ToolNext \/ RestartEngine)
    /\ UNCHANGED <<focus, lpVars, respVars, govVars, plVars, tgVars, sbVars, tbVars, fcVars>>
ResponseStep == focus = "responses" /\ RespNext /\ UNCHANGED <<focus, lpVars, egVars, govVars, plVars, tgVars, sbVars, tbVars, fcVars>>
GovernanceStep == focus = "governance" /\ GovNext /\ UNCHANGED <<focus, lpVars, egVars, respVars, plVars, tgVars, sbVars, tbVars, fcVars>>
PipelineStep == focus = "pipeline" /\ PipelineNext /\ UNCHANGED <<focus, lpVars, egVars, respVars, govVars, tgVars, sbVars, tbVars, fcVars>>
\* The graph without an execution, and executions of tasks that just stand in it.
GraphStep ==
    /\ focus = "graph" /\ TaskGraphNext /\ tgTask' = NoTask
    /\ UNCHANGED <<focus, lpVars, egVars, respVars, govVars, plVars, sbVars, tbVars, fcVars>>
CallStep ==
    /\ focus = "calls" /\ TaskGraphNext
    /\ \A t \in TgTasks : tgNodes'[t].deps = {} /\ tgNodes'[t].status \in {"absent", "PENDING"}
    /\ UNCHANGED <<focus, lpVars, egVars, respVars, govVars, plVars, sbVars, tbVars, fcVars>>
FileStep == focus = "files" /\ FileNext /\ UNCHANGED <<focus, lpVars, egVars, respVars, govVars, plVars, tgVars, tbVars, fcVars>>
ContainerStep == focus = "containers" /\ BoxNext /\ UNCHANGED <<focus, lpVars, egVars, respVars, govVars, plVars, tgVars, tbVars, fcVars>>
\* Links among the tasks by tools at the same time, without log lines, and the
\* log of one task by one tool after the other: LinesAreKept says nothing of a
\* board that was loaded while another call had one.
LinkStep ==
    /\ focus = "links" /\ BoardNext /\ wbLines' = 0
    /\ \A c \in Busy' : \A t \in BoardTasks : wbCall'[c].board[t].status # "Done"
    /\ UNCHANGED <<focus, lpVars, egVars, respVars, govVars, plVars, tgVars, sbVars, fcVars>>
LogStep ==
    /\ focus = "logs" /\ BoardNext /\ Cardinality(OnBoard(wbFile')) <= 1 /\ Cardinality(Busy') <= 1
    /\ UNCHANGED <<focus, lpVars, egVars, respVars, govVars, plVars, tgVars, sbVars, fcVars>>
FactoryStep == focus = "factory" /\ FactoryNext /\ UNCHANGED <<focus, lpVars, egVars, respVars, govVars, plVars, tgVars, sbVars, tbVars>>
QueueStep == focus = "queue" /\ QueueNext /\ UNCHANGED <<focus, lpVars, egVars, respVars, govVars, plVars, tgVars, sbVars, fcVars>>

Next ==
    \/ LoopsStep \/ TalkStep \/ SkillStep \/ ResponseStep \/ GovernanceStep \/ PipelineStep
    \/ GraphStep \/ CallStep \/ FileStep \/ ContainerStep \/ LinkStep \/ LogStep \/ QueueStep \/ FactoryStep

Spec == Init /\ [][Next]_mcVars
-----------------------------------------------------------------------------
(* Properties that several parts share. *)

\* Agents stay within their limits: tools per request, no tool after a handoff
\* is due, the gauges and counters balanced whichever way a call ends, turns
\* per task.
LimitsHold ==
    /\ ToolsAreLimited /\ LoadsBalance /\ LpTypeOK
    /\ HandoffStopsTools /\ ExecutionsAreCountedOnce /\ TgTypeOK

\* What a caller gets is one answer: never the text of two providers, and a
\* stream of the Responses API opens once, closes once and never goes on after
\* its end, whatever fails over when.
AnswersAreWhole == OneVoicePerAnswer /\ StreamsAreWellFormed

\* Nothing passes a gate it was stopped at: a rule is active with a
\* certificate of the majority, a skill runs when its code was vetted, a
\* branch is published when the ladder passed on what it holds, and a run that
\* says pass was published; and what the factory distils passed its committee.
GatesHold ==
    /\ ActiveRulesAreCertified /\ SkillsAreVetted
    /\ PublishedWasVerified /\ PassMeansPublished /\ PlTypeOK
    /\ PatternsAreProven

\* The graphs and files that agents work on stay consistent: a ready task has
\* its dependencies done, tasks with disjoint scopes write disjointly, links
\* have both ends unless two saves mixed, lines of calls that did not overlap,
\* talk and containers are neither lost nor left, and a
\* dispatch plan has every task once, after what it waits for, in a wave of
\* disjoint scopes and with a peer that can do it.
WorkspaceIsConsistent ==
    /\ ReadyMeansDepsDone /\ DisjointTasksWriteDisjointly
    /\ LinksAreMutual /\ LinesAreKept /\ RolledTalkIsKept /\ ContainersAreRemoved
    /\ PlansAreExecutable /\ AssignmentsFit

\* What one step undoes or revokes is undone in full: a rollback restores the
\* files of its snapshot that no other dispatch touched, a quarantine revokes the member's keys, a sweep of
\* the task queue lists what it takes out, a handoff is imported as it was
\* exported; and a worktree never moves a branch back.
StepsAreComplete ==
    /\ RollbackRestores /\ QuarantineRevokes /\ SweptPhasesAreListed
    /\ ImportsAreExports /\ BranchesOnlyGrow
=============================================================================
