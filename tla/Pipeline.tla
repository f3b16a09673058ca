------------------------------ MODULE Pipeline ------------------------------
(***************************************************************************)
(* The coding pipeline: the task routes with their registry and database   *)
(* (routes/pipeline.py), the manager's stages and its committee            *)
(* (core/pipeline/), the healing loop, the git worktrees and the draft     *)
(* pull requests. The handlers never await, so one runs at a time; only a  *)
(* crash comes between the steps of an execution. All tasks name the same  *)
(* target branch.                                                          *)
(***************************************************************************)
EXTENDS Integers, FiniteSets

CONSTANTS
    PlTasks,        \* task ids
    Requests,       \* [security, flagged, wide, committee, evidence : BOOLEAN, heal : Nat]
    PlRoles,        \* roles of a concurrent mutation
    MaxRuns,        \* bound: executions
    MaxPlans        \* bound: plans submitted or synthesized

ASSUME PipelineAssumption ==
    /\ MaxRuns \in Nat /\ MaxPlans \in Nat /\ IsFiniteSet(PlRoles)
    /\ Requests \subseteq [security : BOOLEAN, flagged : BOOLEAN, wide : BOOLEAN,
                           committee : BOOLEAN, evidence : BOOLEAN, heal : Nat]

VARIABLES
    plReg, plDb,    \* _task_registry and its table: task -> NoRec or [req, plan, status]
    plSess,         \* _active_sessions: task -> is the manager's result absent, open or terminal
    plExec,         \* the execution that occupies the event loop
    plTips,         \* branch -> commits on it since the base commit
    plOut,          \* branches checked out in a worktree
    plRuns, plPlans,
    plMerge,        \* a mutation by several roles; is the repository itself on the target branch
    plApproved,     \* history: plans a human approved
    plVerified,     \* history: <<run, content>> for which a whole ladder passed
    plPrs           \* history: draft pull requests

plVars == <<plReg, plDb, plSess, plExec, plTips, plOut, plRuns, plPlans, plMerge, plApproved, plVerified, plPrs>>
plGit == <<plTips, plOut>>
plHistory == <<plApproved, plVerified, plPrs>>

NoRec == << >>
NoPlan == << >>
Idle == << >>
Target == 0                          \* request.target_branch
Branches == {Target} \cup (1 .. MaxRuns)   \* and the branches suffixed with a session
Tokens == {"unapproved", "human", "agent"}   \* who approved; an agent or the role itself is refused

\* Nothing occupies the event loop.
Free == plExec = Idle /\ plMerge.outcome # "merging"

PlTypeOK ==
    /\ plRuns \in 0 .. MaxRuns /\ plPlans \in 0 .. MaxPlans
    /\ plSess \in [PlTasks -> {"absent", "open", "failed", "completed"}]
    /\ DOMAIN plTips \subseteq Branches /\ plOut \subseteq DOMAIN plTips
    /\ \A t \in PlTasks : /\ plDb[t] # NoRec => plDb[t].status \in {"NOT_RUN", "BLOCKED", "FAIL", "PASS"}
                          /\ plReg[t] # NoRec => plReg[t].status \in {"NOT_RUN", "BLOCKED", "FAIL", "PASS"}
    /\ plExec # Idle => plExec.healed \in 0 .. plExec.req.heal

\* The repository has no branch for the task, an empty or an earlier one.
PlStarts == {[b \in {} |-> {}], [b \in {Target} |-> {}], [b \in {Target} |-> {<<"earlier">>}]}

PipelineInit ==
    /\ plReg = [t \in PlTasks |-> NoRec] /\ plDb = plReg
    /\ plSess = [t \in PlTasks |-> "absent"] /\ plExec = Idle
    /\ plTips \in PlStarts
    /\ plOut = {} /\ plRuns = 0 /\ plPlans = 0
    /\ plMerge = [outcome |-> "new", merged |-> {}, here |-> FALSE]
    /\ plApproved = {} /\ plVerified = {} /\ plPrs = {}
-----------------------------------------------------------------------------
\* evaluate_committee: who reviews a request.
Members(req) ==
    {"qaengineer"} \cup (IF req.security THEN {"securityauditor"} ELSE {})
                   \cup (IF req.wide THEN {"architect"} ELSE {})

\* _generate_member_turn: what a turn takes off a score, in hundredths.
Impact(role, req) ==
    IF role = "securityauditor" /\ req.flagged THEN 45
    ELSE IF role = "architect" /\ req.wide THEN 25 ELSE 0

\* A role that does not sit scores its default.
Score(role, default, req) == IF role \in Members(req) THEN 100 - Impact(role, req) ELSE default

SecurityAssurance(req) == Score("securityauditor", 95, req)

CommitteeRejects(req) == req.committee /\ SecurityAssurance(req) < 70

\* _synthesize_mutation_plan, with the approval of the draft copied onto it:
\* a plan of its own, for the first of the allowed roles. The origin is the plan
\* the approval was given to.
Synthesized(plan, new) ==
    [id |-> new, origin |-> IF plan = NoPlan \/ plan.token = "unapproved" THEN new ELSE plan.origin,
     token |-> IF plan = NoPlan THEN "unapproved" ELSE plan.token]
-----------------------------------------------------------------------------
\* _persist_task_record: an upsert that keeps the request of the row; errors
\* are logged and ignored.
PersistTask(t, rec) ==
    plDb' \in {plDb, [plDb EXCEPT ![t] = [rec EXCEPT !.req = IF plDb[t] = NoRec THEN @ ELSE plDb[t].req]]}

\* _get_or_load_task_record
Record(t) == IF plReg[t] # NoRec THEN plReg[t] ELSE plDb[t]

Store(t, rec) == plReg' = [plReg EXCEPT ![t] = rec] /\ PersistTask(t, rec)

\* start_pipeline: a new session; the preflight looks for the inspected files as
\* they are now, and checks the scope of the allowed roles.
StartPipeline(t, passed) == plSess' = [plSess EXCEPT ![t] = IF passed THEN "open" ELSE "failed"]

CreateTask(t, req, passed) ==
    /\ Free /\ StartPipeline(t, passed)
    /\ Store(t, [req |-> req, plan |-> NoPlan, status |-> IF passed THEN "NOT_RUN" ELSE "BLOCKED"])
    /\ UNCHANGED <<plExec, plGit, plRuns, plPlans, plHistory, plMerge>>

\* GET a task, its events, its forensics or its preservation.
LoadTask(t) ==
    /\ Free /\ plReg[t] = NoRec /\ plDb[t] # NoRec
    /\ plReg' = [plReg EXCEPT ![t] = plDb[t]]
    /\ UNCHANGED <<plDb, plSess, plExec, plGit, plRuns, plPlans, plHistory, plMerge>>

\* POST plan: the body may carry an approval. A plan outside its role's scope
\* is refused.
SubmitMutationPlan(t, token) ==
    /\ Free /\ Record(t) # NoRec /\ plPlans < MaxPlans
    /\ plPlans' = plPlans + 1
    /\ plApproved' = IF token = "human" THEN plApproved \cup {plPlans + 1} ELSE plApproved
    /\ Store(t, [Record(t) EXCEPT !.plan =
           [id |-> plPlans + 1, origin |-> plPlans + 1, token |-> token]])
    /\ UNCHANGED <<plSess, plExec, plGit, plRuns, plVerified, plPrs, plMerge>>

\* POST debate: for a task of this process whose session is not terminal; the
\* enriched plan is not persisted.
TriggerDebate(t) ==
    /\ Free /\ plReg[t] # NoRec /\ plSess[t] \in {"absent", "open"} /\ plPlans < MaxPlans
    /\ plSess' = [plSess EXCEPT ![t] = "open"] /\ plPlans' = plPlans + 1
    /\ plReg' = [plReg EXCEPT ![t].plan = Synthesized(plReg[t].plan, plPlans + 1)]
    /\ UNCHANGED <<plDb, plExec, plGit, plRuns, plHistory, plMerge>>

ApproveMutationPlan(t) ==
    /\ Free /\ Record(t) # NoRec /\ Record(t).plan # NoPlan
    /\ plApproved' = plApproved \cup {Record(t).plan.id}
    /\ Store(t, [Record(t) EXCEPT !.plan.token = "human", !.plan.origin = Record(t).plan.id])
    /\ UNCHANGED <<plSess, plExec, plGit, plRuns, plPlans, plVerified, plPrs, plMerge>>
-----------------------------------------------------------------------------
\* The Stop-and-Wait gate refuses an approval by an agent.
GatePasses(plan) == plan.token = "human"

\* execute_pipeline, up to the worktree: preflight, committee and the gate.
Begin(t, req, plan, plans) ==
    LET enriched == IF req.committee THEN Synthesized(plan, plans + 1) ELSE plan
        go == [task |-> t, req |-> req, plan |-> enriched, pc |-> "worktree", run |-> plRuns + 1,
               branch |-> Target, content |-> 0, receipts |-> "none", healed |-> 0, status |-> "NOT_RUN"]
        stop == [go EXCEPT !.pc = "done", !.status = "BLOCKED"]
    IN  /\ Free /\ plRuns < MaxRuns
        /\ plRuns' = plRuns + 1
        /\ plPlans' = IF req.committee THEN plans + 1 ELSE plans
        /\ plPlans' <= MaxPlans
        /\ \/ plExec' = stop /\ StartPipeline(t, FALSE)   \* also: the plan is outside its role's scope
           \/ ~CommitteeRejects(req) /\ ~GatePasses(enriched) /\ plExec' = stop /\ StartPipeline(t, TRUE)
           \/ ~CommitteeRejects(req) /\ GatePasses(enriched) /\ plExec' = go /\ StartPipeline(t, TRUE)
        /\ UNCHANGED <<plDb, plGit, plVerified, plPrs, plMerge>>

\* POST execute, of the registered task.
ExecutePipelineTask(t) ==
    /\ Record(t) # NoRec /\ Record(t).plan # NoPlan /\ Record(t).plan.token # "unapproved"
    /\ plReg' = [plReg EXCEPT ![t] = Record(t)]
    /\ Begin(t, Record(t).req, Record(t).plan, plPlans)
    /\ UNCHANGED plApproved

At(pc) == plExec # Idle /\ plExec.pc = pc
Goto(pc) == plExec' = [plExec EXCEPT !.pc = pc]

\* Every exception and every refusal of the later stages.
Fails ==
    /\ plExec' = [plExec EXCEPT !.pc = "done", !.status = "FAIL"]
    /\ plSess' = [plSess EXCEPT ![plExec.task] = "failed"]

\* Mutant: an existing branch is attached wherever it points.
WorktreeBranchAttached ==
    IF Target \in DOMAIN plTips /\ Target \in plOut THEN plExec.run ELSE Target

\* create_worktree: the target branch if it is new, or at the base commit and
\* in no worktree; else a branch of this session.
WorktreeBranch ==
    IF Target \in DOMAIN plTips /\ (plTips[Target] # {} \/ Target \in plOut) THEN plExec.run ELSE Target

CreateWorktree ==
    /\ At("worktree")
    /\ plTips' = IF WorktreeBranch \in DOMAIN plTips THEN plTips
                 ELSE [b \in DOMAIN plTips \cup {WorktreeBranch} |-> IF b \in DOMAIN plTips THEN plTips[b] ELSE {}]
    /\ plOut' = plOut \cup {WorktreeBranch}
    /\ plExec' = [plExec EXCEPT !.pc = "mutate", !.branch = WorktreeBranch]
    /\ UNCHANGED <<plReg, plDb, plSess, plRuns, plPlans, plHistory, plMerge>>

\* execute_plan: the mutations are applied (none may be), or ScopeGuard or the
\* file system raises; a request may insist on a diff.
ExecutePlan ==
    /\ At("mutate")
    /\ \/ \E changed \in BOOLEAN :
              /\ plExec.req.evidence => changed
              /\ plExec' = [plExec EXCEPT !.pc = "ladder", !.content = IF changed THEN 1 ELSE 0]
              /\ UNCHANGED plSess
       \/ Fails
    /\ UNCHANGED <<plReg, plDb, plGit, plRuns, plPlans, plHistory, plMerge>>

\* run_verification_ladder, fail-fast: no receipts, only passes, or a failure
\* last. What passed is remembered of this content.
Ladder(outcome) ==
    plVerified' = IF outcome = "pass" THEN plVerified \cup {<<plExec.run, plExec.content>>} ELSE plVerified

RunLadder ==
    /\ At("ladder")
    /\ \E outcome \in {"empty", "pass", "fail"} :
           /\ Ladder(outcome)
           /\ \/ /\ outcome = "pass"
                 /\ plExec' = [plExec EXCEPT !.pc = "commit", !.receipts = "pass"] /\ UNCHANGED plSess
              \/ outcome = "fail" /\ plExec.req.heal > 0 /\ Goto("heal") /\ UNCHANGED plSess
              \/ (outcome = "empty" \/ (outcome = "fail" /\ plExec.req.heal = 0)) /\ Fails
    /\ UNCHANGED <<plReg, plDb, plGit, plRuns, plPlans, plApproved, plPrs, plMerge>>

\* Mutant: the ladder of a healing attempt runs before the correction.
HealBeforeLadder ==
    /\ At("heal") /\ plExec.healed < plExec.req.heal
    /\ \E outcome \in {"pass", "fail"} :
           /\ Ladder(outcome)
           /\ plExec' = [plExec EXCEPT !.healed = @ + 1, !.content = @ + 1,
                                       !.pc = IF outcome = "pass" THEN "recollect" ELSE "heal"]
    /\ UNCHANGED <<plReg, plDb, plSess, plGit, plRuns, plPlans, plApproved, plPrs, plMerge>>

\* attempt_self_healing: a corrective mutation, whose errors are swallowed,
\* and the ladder again.
Heal ==
    /\ At("heal") /\ plExec.healed < plExec.req.heal
    /\ \E outcome \in {"pass", "fail"}, changed \in BOOLEAN :
           LET content == IF changed THEN plExec.content + 1 ELSE plExec.content
           IN  /\ plVerified' = IF outcome = "pass" THEN plVerified \cup {<<plExec.run, content>>} ELSE plVerified
               /\ plExec' = [plExec EXCEPT !.healed = @ + 1, !.content = content,
                                           !.pc = IF outcome = "pass" THEN "recollect" ELSE "heal"]
    /\ UNCHANGED <<plReg, plDb, plSess, plGit, plRuns, plPlans, plApproved, plPrs, plMerge>>

\* The ladder once more, for its receipts only: nobody looks at them.
Recollect ==
    /\ At("recollect")
    /\ \E outcome \in {"pass", "fail"} :
           Ladder(outcome) /\ plExec' = [plExec EXCEPT !.pc = "commit", !.receipts = outcome]
    /\ UNCHANGED <<plReg, plDb, plSess, plGit, plRuns, plPlans, plApproved, plPrs, plMerge>>

\* execute_auto_rollback: git reset --hard to the base commit; the worktree stays.
AutoRollback ==
    /\ At("heal") /\ plExec.healed = plExec.req.heal
    /\ plTips' = [plTips EXCEPT ![plExec.branch] = {}]
    /\ Fails
    /\ UNCHANGED <<plReg, plDb, plOut, plRuns, plPlans, plHistory, plMerge>>

\* The review gate compares the head with itself; then the changes, if any,
\* are committed. git may fail.
CommitChanges ==
    /\ At("commit")
    /\ \/ /\ plTips' = IF plExec.content = 0 THEN plTips
                       ELSE [plTips EXCEPT ![plExec.branch] = @ \cup {<<plExec.run, plExec.content>>}]
          /\ Goto("publish") /\ UNCHANGED plSess
       \/ Fails /\ UNCHANGED plTips
    /\ UNCHANGED <<plReg, plDb, plOut, plRuns, plPlans, plHistory, plMerge>>

\* publish_draft_pr: gh or a local patch bundle, always for the target branch.
PublishDraftPr ==
    /\ At("publish")
    /\ \/ /\ plPrs' = plPrs \cup {[task |-> plExec.task, plan |-> plExec.plan, run |-> plExec.run,
                                   content |-> plExec.content, branch |-> plExec.branch, receipts |-> plExec.receipts]}
          /\ plExec' = [plExec EXCEPT !.pc = "done", !.status = "PASS"]
          /\ plSess' = [plSess EXCEPT ![plExec.task] = "completed"]
       \/ Fails /\ UNCHANGED plPrs
    /\ UNCHANGED <<plReg, plDb, plGit, plRuns, plPlans, plApproved, plVerified, plMerge>>

\* Mutant: an error of git or of the publisher leaves the status PASS.
PassDespiteError ==
    /\ At("done")
    /\ Store(plExec.task, [plReg[plExec.task] EXCEPT !.status =
           IF plExec.receipts # "none" THEN "PASS" ELSE plExec.status])
    /\ plExec' = Idle
    /\ UNCHANGED <<plSess, plGit, plRuns, plPlans, plHistory, plMerge>>

\* The result is registered and persisted.
FinishExecution ==
    /\ At("done")
    /\ Store(plExec.task, [plReg[plExec.task] EXCEPT !.status = plExec.status])
    /\ plExec' = Idle
    /\ UNCHANGED <<plSess, plGit, plRuns, plPlans, plHistory, plMerge>>

ExecutionStep ==
    \/ CreateWorktree \/ ExecutePlan \/ RunLadder \/ Heal \/ Recollect \/ AutoRollback
    \/ CommitChanges \/ PublishDraftPr \/ FinishExecution

\* POST run: a request and an approved plan in one call, registered when the
\* execution ends.
RunFullPipeline(t, req, token) ==
    LET plan == [id |-> plPlans + 1, origin |-> plPlans + 1, token |-> token]
    IN  /\ token # "unapproved"
        /\ plReg' = [plReg EXCEPT ![t] = [req |-> req, plan |-> plan, status |-> "NOT_RUN"]]
        /\ plApproved' = IF token = "human" THEN plApproved \cup {plan.id} ELSE plApproved
        /\ Begin(t, req, plan, plPlans + 1)
-----------------------------------------------------------------------------
\* execute_concurrent_role_pipeline: the roles have disjoint files and commit in
\* worktrees of their own, which are removed in the end; then they are merged
\* one by one into the target branch, checked out in the canonical repository.
StartRoles ==
    /\ Free /\ plRuns < MaxRuns /\ plRuns' = plRuns + 1
    /\ plMerge' = [plMerge EXCEPT !.outcome = "merging", !.merged = {}]
    /\ UNCHANGED <<plReg, plDb, plSess, plExec, plGit, plPlans, plHistory>>

\* squash_merge_worktree_branch: a target branch that another worktree holds
\* cannot be checked out.
SquashMerge(r) ==
    /\ plMerge.outcome = "merging" /\ r \notin plMerge.merged
    /\ plMerge.here \/ (Target \in DOMAIN plTips /\ Target \notin plOut)
    /\ plTips' = [plTips EXCEPT ![Target] = @ \cup {<<"role", r>>}]
    /\ plOut' = plOut \cup {Target}
    /\ plMerge' = [outcome |-> IF plMerge.merged \cup {r} = PlRoles THEN "merged" ELSE "merging",
                    merged |-> plMerge.merged \cup {r}, here |-> TRUE]
    /\ UNCHANGED <<plReg, plDb, plSess, plExec, plRuns, plPlans, plHistory>>

\* A conflict, a hook or a failed checkout: the call returns the roles merged so far.
MergeFails ==
    /\ plMerge.outcome = "merging"
    /\ plMerge' = [plMerge EXCEPT !.outcome = "failed"]
    /\ UNCHANGED <<plReg, plDb, plSess, plExec, plGit, plRuns, plPlans, plHistory>>

\* The process stops between two steps.
CrashPipeline ==
    /\ plReg' = [t \in PlTasks |-> NoRec] /\ plSess' = [t \in PlTasks |-> "absent"]
    /\ plExec' = Idle
    /\ plMerge' = IF plMerge.outcome = "merging" THEN [plMerge EXCEPT !.outcome = "failed"] ELSE plMerge
    /\ UNCHANGED <<plDb, plGit, plRuns, plPlans, plHistory>>

PipelineNext ==
    \/ \E t \in PlTasks :
           \/ \E req \in Requests : (\E i \in BOOLEAN : CreateTask(t, req, i)) \/ \E k \in Tokens : RunFullPipeline(t, req, k)
           \/ \E k \in Tokens : SubmitMutationPlan(t, k)
           \/ LoadTask(t) \/ TriggerDebate(t) \/ ApproveMutationPlan(t) \/ ExecutePipelineTask(t)
    \/ ExecutionStep
    \/ StartRoles \/ (\E r \in PlRoles : SquashMerge(r)) \/ MergeFails
    \/ CrashPipeline

PipelineSpec == PipelineInit /\ [][PipelineNext]_plVars
-----------------------------------------------------------------------------
\* A draft pull request is of a plan a human approved, or one the committee made
\* of it, and its content, healed or not, once passed a whole, non-empty ladder.
PublishedWasVerified ==
    \A pr \in plPrs : pr.plan.origin \in plApproved /\ <<pr.run, pr.content>> \in plVerified

\* A task recorded as PASS, in memory or in the database, has a draft pull
\* request, whatever failed or crashed on the way.
PassMeansPublished ==
    \A t \in PlTasks : \A rec \in {plReg[t], plDb[t]} :
        rec # NoRec /\ rec.status = "PASS" => \E pr \in plPrs : pr.task = t

\* No execution takes a commit off a branch: not by attaching a branch, and not
\* by rolling back a worktree.
BranchesOnlyGrow ==
    [][\A b \in DOMAIN plTips : b \in DOMAIN plTips' /\ plTips[b] \subseteq plTips'[b]]_plVars

\* manager.py calls the merge of the roles atomic: a failed one leaves no role
\* in the target branch.
MergeIsAtomic == plMerge.outcome = "failed" => plMerge.merged = {}
=============================================================================
