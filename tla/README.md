# LAS verification project

TLA+ models of LLM-Agent-System: the mission control plane, the two Rafts, the
stores, the workflow, debate and swarm machinery, the agent loop and its gates,
and the network layers. TLC checks them on small instances; TLAPS proves most of
their safety properties for every value of the constants. `PROJECT.json` holds the map
from definitions to source lines, the runs, mutants, hazards and findings in
machine-readable form. Paths below are relative to `agent_workspace/` unless they
begin with `docs/`.

## 1. The system

LAS is a Python service (FastAPI) that runs coding agents under human control,
with a React/Tauri viewer. Request handlers are coroutines on one event loop or
functions on a thread pool; state is in memory, in SQLite, and in JSON or Markdown
files that several objects, threads or processes rewrite.

| Part | State it keeps | Operations | Hard behaviour | What makes it correct | Module |
|---|---|---|---|---|---|
| Mission aggregate (`core/mission_*.py`) | state, plan, decisions, evidence, gates, trail | attach plan, decide, record, transition | guards on exact subjects, resume, replanning | gated steps rest on the exact approval; the trail explains the state | `Mission` |
| Mission store, routes (`core/mission_store.py`, `routes/missions.py`) | two tables | create, save, append_transition | threads between read and write, retries, failed writes | no lost update, terminal is final | `MissionStore` |
| Committee Raft (`core/raft_consensus.py`) | term, vote, log, commit index | elect, propose, two RPC handlers | loss, handlers between two RPCs, growing attestation | one leader per term, log matching, state machine safety | `RaftNode`, `CommitteeRaft` |
| Cross-region Raft (`core/mesh_tunnel/multi_cluster_raft.py`) | members, active flags, leader | elect, replicate, partition, heal | awaits between peers, forced commits | regions apply the same entries | `MultiCluster` |
| Overlay tunnels (`core/mesh_tunnel/tunnel.py`) | endpoints, sessions | register, establish, transmit | endpoints leave during a handshake | an address belongs to one node | `Overlay` |
| Audit ledger (`core/audit_ledger.py`, `core/merkle.py`) | hash chain, pending requests | record, ping, request, response, prove | loss, reordering, late responses, records made between two calls of a handler | chain verifies until a merge replaces a row; what it compared is kept | `AuditSync` |
| Runtime events, checkpoints (`core/runtime_events.py`) | event table, checkpoint files | record, save, load | recorders between read and insert, interrupted saves | an append-only log per task | `RuntimeLedger`, `EventLog` |
| Accounts, ledger (`core/account_manager.py`, `core/ledger.py`) | accounts.json, ledger rows | record usage, rotate, delete | load and save under different locks, retries, faults | usage billed once | `Accounts` |
| Billing, rate limit (`core/billing.py`, `core/rate_limit.py`, `routes/admin.py`) | webhook claims, subscriptions, window | webhook, report usage, consume | repeated, late events; failure between two writes | applied once, tenants apart, window bound | `Billing` |
| Delta state (`core/memory.py`) | last-write-wins map, mirrors | update, merge, save, load | late and repeated deltas, crash | same deltas, same state | `DeltaState` |
| Long-term memory (`long_term_memory.py`, `memory_backends.py`) | records, caches, backends | put, query, delete, expire, fall back, select | several objects on one database | acknowledged memory is readable, caches are current | `LongTermMemory` |
| Lessons (`core/federated_sync.py`) | lessons file | scan, push, summarize | writers without a lock, repeated pushes | nothing unsigned; nothing lost while writers do not overlap | `Lessons` |
| Vector memory, chaos rules (`core/vector_memory.py`, `core/chaos.py`) | entries, cached root, rules | store, export, merge, sync | late deltas, partitions | newest wins everywhere | `VectorMesh` |
| Workflow engine (`core/workflow_engine.py`) | step states, checkpoint | execute, resume | parallel steps, policies, crash | no step before its dependencies; a run ends | `WorkflowEngine` |
| Discussion room, budget (`core/discussion_room.py`, `core/debate_budget.py`) | turns, counters, semaphore | delegate, complete, retry, heal | sub-swarms on one budget, silent workers | slots come back, debates end | `Debate` |
| Broker and swarm (`core/broker.py`, `core/swarm_coordinator.py`, `core/agent_crew.py`, `routes/swarm.py`) | nodes, loads, checkpoints | heartbeat, dispatch, work, fail over | late answers, dropped nodes | loads match reservations | `Swarm` |
| Pools (`observability.py`) | counts, pool sizes | enter, leave, profile | count and balance in two critical sections | pools fit the load | `Throttle` |
| Agent loop, chat routes (`core/router.py`, `core/providers.py`, `routes/chat.py`) | loop state, gauges, approvals | classify, call, run tools, approve, pause, time out | cancellation between any two awaits | limits hold, gauges balance, loops end or wait for an answer | `AgentLoop` |
| Engine (`core/engine.py`, `core/routing/memory.py`) | onboarding, working memory, skills | execute_tool, handoff, generate, reload | gate timeouts, imports, restarts | unvetted skills never run | `Engine` |
| Responses gateway (`routes/responses.py`) | stream, account choice, cooldowns | respond, fail over | failure in the middle of a stream | one answer | `Responses` |
| Governance (`core/governance.py`, `core/discussion/`) | proposals, votes, keys, quarantine | propose, vote, certify, rotate | rotation between votes | active rules are certified | `Governance` |
| Coding pipeline (`core/pipeline/`, `core/git_worktree.py`, `routes/pipeline.py`) | tasks, stages, branches | start, approve, execute, heal, merge, publish | crash with a worktree attached | what is published was verified | `Pipeline` |
| Task graph (`core/task_environment.py`, `core/agent_executor.py`, `core/protocol_repair.py`) | tasks, scopes, turns | add, complete, fail, call, repair | order of completions, overlapping scopes | ready means done before | `TaskGraph` |
| Sandbox (`core/sandbox.py`) | snapshots, containers | begin, roll back, commit, execute | faults in the walk, dispatches at the same time, timeouts | a rollback restores what only its dispatch wrote | `Sandbox` |
| Task board (`skills/tool_workspace.py`, `skills/tool_log.py`, `core/log_compactor.py`) | workspace.json, task queue | link, log, compress, archive, sweep | tools on several threads without a lock, saves in place | links have both ends; lines are kept while calls do not overlap | `TaskBoard` |
| Software factory (`core/factory/`) | graph, plan, peers, patterns | decompose, plan, assign, debate, distil | cycles, scope conflicts | every task once, in order, with a fit peer | `Factory` |
| Federated mesh (`core/federated_mesh.py`) | peers, challenges, certificates | join, challenge, prove, rotate, delegate | late and repeated proofs, other holders under a peer's name, a dictionary rebuilt on a thread pool | trust is earned | `Mesh` |
| Peer to peer (`core/p2p_router.py`) | tunnels, routes, waiting calls | connect, gossip, ping, task | tunnels that replace each other | tables match tunnels | `P2P` |
| Topology (`topology_bridge.py`, `topology_stream.py`) | nodes, state file | emit, flush, reload | crash between write and replace | reload gives back the topology | `Topology` |
| Cross-cloud gateway (`core/cross_cloud_gateway.py`, `routes/cross_cloud.py`) | peers, revocations | handshake, revoke, reinstate, rotate | tunnels that replace each other, revocation during a handshake, restarts | an entry leads to an open tunnel | `CrossCloud` |
| WebSocket sessions (`core/ws_manager.py`, `routes/collaboration.py`) | connections | join, fan out, leave | sockets that close during a fan-out | tenants stay apart | `Collab` |

How they meet: mission routes call aggregate and store. Raft nodes call each other
through `rpc_dispatcher`; the mesh supplies peers and says who is attested, the
chaos manager which traffic is blocked. `MultiCluster` drives the same node
handlers (`RaftNode`) from coroutines. The router's loop runs tools through the
engine; the crew wraps dispatches in sandbox transactions; the pipeline writes
runtime events and works in git worktrees; the gateway chooses accounts whose usage
the accounts record; lessons and long-term memory share a summarizer. Where two
parts meet in shared state they are in one module (`Responses` has the router of
the accounts, `Pipeline` the worktrees, `TaskGraph` the executor and the repair,
`VectorMesh` the mesh's synchronisation and the chaos rules, `CrossCloud` the
revocations in the ledger's database); where one only calls the other and waits,
the callee's outcome is a choice in the caller.

## 2. How the models are written

A module is one part: its variables, one action per handler or per stretch of code
between two awaits (event loop), two database statements (processes) or two calls
(threads), and its properties. Ids are model values, hashes are symbolic terms or
numbers drawn once, signatures are the key they were made with, texts are what the
code compares of them. Everything unbounded has a named bound (`Max...`) in the
guards. A refused request that changes nothing is a stuttering step.

`MCMission`, `MCRaft`, `MCStores`, `MCWork`, `MCAgents` and `MCNetwork` instantiate
the parts, and the `...Proofs` modules prove about them (section 7). The last four MC
modules hold several parts that share no state: the variable `focus`, chosen in the
initial state, says which part an instance explores while the others stay as they
start. This is the disjoint union of the parts' state graphs, so a property that is a
conjunction over parts holds exactly when each conjunct holds of its part; each of
these properties states one promise that several parts make, and its conjuncts are
definitions of their modules. A few foci look at one part from two sides to keep the
product small: in `MCAgents` the task graph without executions (`graph`) and
executions of tasks that stand in it without dependencies (`calls`), board links with
at most one log line (`links`) and the log of at most one task (`logs`); in
`MCNetwork` the mesh is what one node sees of a peer that rotates its certificate and of
a third node that may go by the peer's name (what a node keeps depends on nothing that
other nodes keep), and the collaboration sessions leave one of three sockets unused.

Where the code gives no lock the models give none. Properties that then hold only while
certain steps have not coincided say so with a history variable that records the
coincidence, set by the steps themselves and never reset: `overwritten` (an audit merge
replaced a row), `overlapped` (two load-to-save stretches of the accounts), `lsOverlap`
(two writers of the lessons), `wbOverlap`, `wbTorn` and `wbMixed` (two calls on the board,
a board cut by a death, two saves in one file), `sbTouched` (files that other dispatches
changed since a snapshot), `returned` (challenges brought back). The runs and the proofs
include all behaviours after that, with what remains true of them.

## 3. Mission control plane

* `Mission` is the aggregate as a value: `AttachPlan`, `AddApprovalGate`,
  `AddEvidenceRecord` and `RecordVerificationGate` return the set of aggregates
  the method may return (empty when it raises). `Targets` is the state the
  transition function goes to, with `Guard` for the four guarded events;
  `Transition` adds the audit record. `ValidAggregate` is the model validator,
  which the code runs on every new aggregate.
* `MissionStore` is one mission in the database. `row` is the row of `missions`,
  `receipts` the rows of `mission_transitions`, `pending[h]` the aggregate that
  thread `h` has computed and not yet saved. `Create` and `SubmitTransition` are
  one transaction each. The other routes read (`Begin...`) and write later
  (`Save`), or never (`SaveFails`: the store is unavailable, the process dies).
* `MissionStoreProofs` has the theorems (section 7).

Data is reduced to what the code compares: a plan is its revision with its
required gates, a subject is what it names, idempotency keys are numbered by first
use. The API never fills `scope_expansion_requests` nor `draft_pr_review_subject`;
they are constants (`ScopeRequests`, `ReviewSubject`), so the guards on them are
exercised for missions created with them. A subject sent with an event that needs
none is only recorded by the code and not sent by the model.

## 4. Committee Raft

* `RaftNode` is one node as a value: `HandleRequestVote`, `HandleAppendEntries`
  (with `Merge` and `AdvanceCommit`) return the node and the reply, and
  `BecomeCandidate`, `BecomeLeader`, `AppendLocally`, `AppendRequest`,
  `RecordReply`, `CommitAt` are the local parts of an election and a proposal.
  The genesis slot is left out (index 0 has term 0). `ApplyEntries` keeps the
  sequence of applied entries for the state machine, which is a function of it.
  `match_index`, `leader_id` and the heartbeat time decide nothing in the code.
* `CommitteeRaft` is the cluster. A call of `start_election` or `propose_entry`
  holds a thread and asks the verified peers one at a time: `DeliverHandled` and
  `DeliverBlocked` are what happens at the peer (handled with the reply delivered
  or lost; request lost; refused by a chaos rule with nothing but the term), and
  `ReceiveDeposed`, `ReceiveVote` and `ReceiveAppend` what the caller does with the
  answer up to its next request. `VerifyAttestation` adds a peer to a node's view.

A request is answered or fails; nothing in the code sends one twice. The order in
which peers are asked depends on registration and is left open. With one thread a
call runs to its end, as in the in-process cluster of `core/cluster_demo.py`; with
several, RPC handlers and other calls run while a call waits, as the synchronous
routes of `routes/mesh.py` allow. The code between two RPCs, and a handler, which
calls nobody, are one step each. Nothing is persisted
(`raft_consensus.py:209`), so a restarted node has no vote and no log and the
cluster is only correct while its processes live; no restart is modelled.

The safety of this protocol depends on two things the code leaves to its
deployment. A quorum counts the peers that a node has verified, so it is a majority
of the cluster only if every node verified enough of them. And a caller does not
look at its own state again before it sends the next request: `propose_entry`
stamps it with the live term (`raft_consensus.py:554`) and `step_down` clears the
vote even when the term stays (`:275`). When calls interleave, a deposed leader can
thus make the true leader of the term forget its vote and the node votes twice;
with five nodes that gives two leaders although every node runs one call at a time.
`raft_elections` shows that three nodes within its bounds have no room for it. The
theorems are for one request at a time and majority quorums, any number of nodes.

No fairness is assumed for Raft: no timer or loop in the code reads
`election_timeout_sec` or `last_heartbeat_time`, so elections and proposals are
requests from outside.

## 5. Runs

| Run | Module | Bounds | Shows |
|---|---|---|---|
| `mission_race` | `MCMission` | 2 threads, 3 revisions, 2 evidence ids, 1 gate | no write is lost whatever two threads and transitions do in between; what is about to be written is current or refused; receipts equal the trail; aggregates stay valid |
| `mission_replan` | `MCMission` | 2 plan revisions, 6 transitions, 9 revisions | life cycles with pause and replanning: the trail explains the state, terminal is final, execution rests on an approval, accepted events were offered |
| `mission_gates` | `MCMission` | a human and an agent, 1 scope request, 1 Draft PR review, 6 transitions | gated steps stand on the approval of their exact subject; an agent's mission never executes |
| `raft_serial` | `MCRaft` | 3 nodes, 1 thread, terms to 3, logs to 2, 2 values | log matching, state machine safety, committed entries on a majority, commits final, with every loss |
| `raft_elections` | `MCRaft` | 3 nodes, 2 threads, terms to 2, logs to 1, attestation from a ring to all | one leader per term for three nodes under interleaving, while a node runs one call at a time |
| `stores` | `MCStores` | 2 replicas or processes, 2 audit tenants, 2 writers of the lessons, 2 to 3 writes, 1 fault, 2 crashes over 2 mirrors | chains and proofs verify, histories only grow, replicas converge, acknowledged writes are read, effects happen once, tenants are separate, the event table implements `EventLog` |
| `work` | `MCWork` | 3 steps in 7 graphs under all mixes of policies; a debate with 2 sub-swarms on 1 slot; 2 nodes; 1 loop with 2 iterations; 3 pool tasks | work ends or waits for an answer; steps start after their dependencies; checkpoints are true; success is whole; resources come back |
| `agents` | `MCAgents` | 2 loops of 2 iterations; 2 requests over 3 accounts; 3 committee members; 1 pipeline task with 2 runs; 2 tasks, 3 scopes; 2 dispatches at the same time, 2 files, 1 fault; 2 callers on 2 board tasks; 162 factory plans of 3 tasks | limits hold, answers are whole, gates hold, the workspace is consistent, what a step undoes is undone |
| `network` | `MCNetwork` | 3 mesh nodes, 2 challenges; 3 regional nodes in 2 regions, terms to 3; 3 routers; 2 streams; 2 gateways with 2 tunnels; 3 sockets, 2 tenants; 2 overlay nodes | peers are attested, regions agree, tables match the network, viewers see the truth |
| `mission_running_unapproved` | `MCMission` | 2 plan revisions | violated, see section 6 |
| `raft_interleaved` | `MCRaft` | 2 threads | violated, see section 6 |
| `loop_timeout` | `MCAgents` | as `agents` | violated, see section 6 |

State counts of the large ones: `mission_gates` 326 thousand, `stores` 1.4 million,
`work` 128 thousand, `agents` 1.0 million, `network` 978 thousand, the passing Raft
runs 1.1 and 1.2 million distinct states; each takes at most about two and a half minutes
with two workers.

Why the bounds are enough for the cases that matter. Two threads and three
revisions give a stale save against another save and against a transition; six
transitions reach every state with one pause and one replanning. Three terms let a
node that missed a committed entry fall behind, catch up in term and stand again;
two entries give a conflict in the middle of a log. In `raft_elections` each node
has verified one of two peers, so its quorum of two is a majority of three. Two
replicas with two records give a response that arrives after the chain has grown, a
record between the comparison of a response and its rows, and one of another tenant
(`MaxInFlight` bounds only when a status is sent); nine leaves cover every shape of a
Merkle level with an odd end up to three levels. One crash and one more call of
execute give a resume; three steps a chain, a fork, a join, a cycle and a fallback.
Two sub-swarms on one slot make every debate wait for another. Two dispatches with
transactions open at once and a fault let a rollback fail, and each undo the other's
writes; two callers let a stale board be saved and two saves mix; two loops of one session displace each
other's approvals. Two challenges and three messages
give a challenge that is used while the other is being issued, and comes back. Three
routers give gossip about a node that is not a neighbour,
two tunnels one that replaces another. Two rotations and a restart give a key that
is neither current nor in its grace period.

`CHECK_DEADLOCK FALSE` throughout: a mission, a ledger or a table at its bounds, and
work that has ended, may have no further step. That work does not stop before its
end is what `WorkEnds` checks.

### Fairness

Only `work` has liveness, and its fairness is what the code's own scheduling gives.

* Workflow: weak fairness of `WfStep`. The engine's loop and its tasks run on the
  event loop until `execute` returns. Nobody has to call `execute`, and crashes are
  not fair.
* Debate: weak fairness of every run's step and of the gathering of sub-swarms. A
  provider call ends by its timeout, a delegated turn after five seconds; workers
  need not answer.
* Swarm: weak fairness of the dispatcher, a thread with a timeout; workers need not
  run and heartbeats need not come.
* Agent loop: weak fairness of every loop, and of whoever resumes a paused session.
  No answer to an approval request is assumed, because none can reach the loop.
  `approve_session` and `reject_session` (`routes/chat.py:385`, `:400`) look in the
  `ACTIVE_APPROVALS` of `core.router`, while the router that runs is
  `agent_workspace.core.router`: two copies of the module, which only
  `tests/conftest.py:26` makes one. The answer of `cli.py` and `topology_stream.py`
  comes with the `hitl_gate` event, before the request is registered, and finds
  nothing either. So `LoopsEnd` says that a loop ends or waits for an answer, and that
  the answer comes (`ApprovalsAreAnswered`) is a finding. What does open a gate is a
  second request of the session, which replaces the first (`HijackSession`).

### Refinement

`EventLog` says what `core/runtime_events.py` promises: for every task a history to
which events are added one at a time and from which nothing is taken.
`RuntimeLedger` implements it (`ImplementsEventLog`) with the last hash of a task,
which commits to everything before it, as the history. It needs the lock around
reading the last hash and inserting, and that the recorders share one ledger object
(`LedgerOf`); with two objects over one file the chain forks.

### Mutants

Every property of a passing run has a mutant in `PROJECT.json`: a plausible bug in
one mapped definition for which TLC finds the property violated. A property that is
a conjunction over parts has one entry there, and the modules hold one further
mutant for each of the other parts; each was run in place of its definition and
violates the conjunct of its part:

| Run | Further mutants |
|---|---|
| `mission_gates`, `raft_elections` | `RequireScopeAnyDecision`, `QuorumHalf` |
| `stores` | `ProofStepNoSelf`, `ProcessRequestToSelf`, `WrittenFresh`, `ScanForgetsIds`, `VerifiedUnsigned`, `MergeTombstoneAlways`, `LoadPrimaryOnly`, `WriteRecordKeepsCache`, `MaxEpisodicAll`, `ReplacesSameDomain`, `MergeDirtyIfAdded`, `MatchesSource`, `LoadsAnything`, `UsageLedgerUnchecked`, `DeleteAccountKeepsActive`, `WebhookAppliesAgain`, `SyncPostedMarksTop`, `PruneOlder` |
| `work` | `NoDeadlockDetection`, `AttemptFailsOnceMore`, `LeaveLoopKeepsGauge`, `WorkerStepSkips`, `ReleaseNodeUnclamped`, `ReportsOwn`, `AcquireKeepsSlot`, `RetryUnchecked`, `LeavePoolUnbalanced` |
| `agents` | `ExecuteToolLate`, `GateTimesOutPasses`, `SummarizedShort`, `ImportHandoffUnchecked`, `CallUnlimited`, `MarkFailedPendingOnly`, `OverlappingEqual`, `StartFailsUncounted`, `NotAfterTimeout`, `MayFailOverAlways`, `StartLoopAlways`, `HealBeforeLadder`, `PassDespiteError`, `WorktreeBranchAttached`, `ArchiveOverwrites`, `ArchivedLost`, `RecordFailureKeepsKeys`, `WaveAll`, `FirstMatchingPeer`, `QuorumByScore` |
| `network` | `AcceptsByStatus`, `ReplicationStale`, `ForgetNever`, `LeftPeers`, `ForgetKeysOnly`, `ReapedSnapshot`, `RemovedInPlace`, `LoadedStatusPartial`, `ActivatedOnce`, `NextVipOfTable` |

## 6. Where code and documents disagree

The first three are runs that check one sentence of the repository and stop at a
counterexample. The others are definitions next to the properties of their part;
add the named one to the configuration of the run, or change the named constant,
to see the counterexample. `PROJECT.json` quotes the sentences.

| Shown by | Definition | What the code does |
|---|---|---|
| `mission_running_unapproved` | `RunningPlanApproved` | a plan attached while paused runs after `resume` |
| `raft_interleaved` | `StateMachineSafety` | a leader deposed between two requests goes on in the new term and commits |
| `loop_timeout` | `TimedOutTasksSaySo` | the loop turns the cancellation of a timeout into an answer; the task is recorded as completed |
| `mission_race` | `CancelAlwaysPossible` | a full trail refuses every transition |
| `raft_elections`, `OneCallPerNode = FALSE` | `ElectionSafety` | votes of one term complete the quorum of another on a node with two elections |
| `raft_elections`, five nodes that have verified each other | `ElectionSafety` | a deposed leader's request with the live term makes the leader of that term forget its vote |
| `raft_serial`, `InitiallyVerified <- NoneVerified` | `StateMachineSafety` | the quorum counts only the peers this node has verified |
| `network`, `Coroutines = {c1, c2}` | `RegionsApplyTheSame` | elections and replications interleave at their awaits |
| `work` | `ResumedRunsEnd` | a step that a crash left running is never reset, and the resumed run waits for it for ever |
| `agents` | `CoolingAccountsRest` | every request has a router of its own with no account cooling |
| `agents` | `OnlyTheBadAreQuarantined` | votes signed before a rotation are counted as failures of their signers |
| `agents` | `MergeIsAtomic` | a failing squash leaves the earlier ones merged |
| `agents` | `FailureBlocksTransitively` | only the direct dependents of a failed task are blocked |
| `agents` | `GraphIsAcyclic` | a refused task stays in the graph with its cycle |
| `agents` | `ToolsReturn` | the rendering of a board with a cycle below a root does not end |
| `agents` | `SweepsCompact` | the second sweep of the task queue finds nothing |
| `agents` | `RollbacksSpareCommits` | a rollback takes away what other dispatches wrote since its snapshot |
| `stores` | `LessonIdsAreUnique` | two lessons with one id in one batch are both written |
| `stores` | `RecordsAreImmutable` | a merge replaces rows recorded since it compared, and rows of other tenants |
| `work` | `ApprovalsAreAnswered` | the endpoints that answer an approval look in another copy of the table |
| `network` | `ChallengesVerifyOnce` | a dictionary of challenges rebuilt on another thread brings a used one back |
| `network` | `RevokedPeersAreDisconnected` | a tunnel not yet, or no longer, in `peers` survives a revocation, one whose handshake was answered before it included |
| `network` | `SessionsHaveEndpoints` | an endpoint that leaves during a handshake keeps a session |

### Limits of the code that the models make visible

They need no search, or hold only outside of the runs' constants, and a maintainer
should know them.

* Missions: `resume` re-enters `review_ready` without the verification guard
  (`mission_state_machine.py:323`); a terminal mission still takes decisions,
  evidence and gate records (`mission_store.py:263` looks at the revision only);
  only the owner can approve (`mission_model.py:294`), although
  `docs/audit/governance-invariant-spec.md:34` asks for another approver.
* Audit and events: the locks belong to a process or an object, so two processes on
  one database, or two ledger objects on one file, fork the chain. The lock is held for
  one call: `process_response` compares with the default tenant's rows and then replaces
  whatever stands at the provider's ids, so a row recorded on another thread in between,
  or under another tenant (the Stripe webhook records under `admin_tenant`), is lost and
  the chain may break (`overwritten`). The checksum of a checkpoint omits its stage history, and an interrupted save
  destroys the checkpoint before it.
* Debate: a late or repeated worker answer is taken for a later turn
  (`discussion_room.py:568`). Swarm: one checkpoint key per session; heartbeats are
  read and dropped under two locks.
* Governance: a rejected proposal can still be voted to accepted.
* Pipeline: receipts of healed runs are not checked; a completed task can be
  executed again; the draft pull request names `request.target_branch` as its head
  whichever branch the worktree is on (`manager.py:441`; the model publishes what the
  branch holds); deletions skip the scope check; an approval is copied onto the
  plan synthesized from it. Task graph: a rejected call takes no turn; an empty
  mutable scope allows everything.
* Agent loop: no endpoint answers an approval (section 5); a second approval request of a
  session displaces the first; the last
  answer is overwritten by the error of the iteration limit. Engine: a gate that
  times out leaves the skill's file, which the next start loads; an import
  overwrites newer memory.
* Long-term memory: the fallback to SQLite splits the data for the object's life;
  keys of the file and vector backends collide across sessions. Delta state: equal
  timestamps and skewed clocks diverge; a stale mirror may be loaded; a torn mirror is
  repaired by the next whole save only, so that a crash for every file of a replica
  (`dsCrashes > Mirrors`) can leave it none.
* Cross-region Raft: with `Unrestricted = TRUE` an inactive candidate elects itself, and
  a node registered after the first entries skips those it lacks when its commit index
  is set (`RegionsApplyTheSame`, `AppliedWasThere`).
* Mesh: `_send_delegation_request` reports success by itself; joining again resets a
  verified peer. Nothing ties a name to a certificate: any holder may prove its own
  under a registered peer's name, with a challenge issued for another node
  (`federated_mesh.py:579`), and replaces the certificate the peer was listed with. Two
  calls that issue challenges at the same time may also lose one. Vector memory: the hash excludes the timestamp.
* Peer to peer: the listener of a replaced tunnel resets its successor. Topology:
  emitters share one temporary file; of two calls of one tool the first node stays
  running. Cross-cloud: caches stay stale after a reinstatement; a second rotation
  is cleared by the timer of the first; a revocation between `validate_handshake` and the
  end of `accept()` does not stop the tunnel; the end of an older tunnel of a cloud takes
  the newer one off the list (`cross_cloud.py:161`), so an open tunnel may be unlisted,
  though a listed one is open; a revocation whose database write fails is forgotten at the
  next restart. Overlay: the 256th address is no IPv4
  address; registering again leaves sessions on the old one.
* WebSockets: the Redis broker delivers twice to its own process. Pools: nothing
  starts the profiler. Sandbox: every dispatch opens a transaction (`agent_crew.py:421`)
  and nothing keeps those of concurrent requests apart; a rollback also undoes what the
  other dispatches wrote, and a snapshot may hold files the other has half restored.
* Lessons: an id that is part of another one counts as known; the same mistake is
  added again the next day; two writers that overlap, in one process or two, lose
  lessons, as no lock is around reading and writing the file. Task board: two tools at
  once lose updates; `save` empties `workspace.json` when it opens it, so a death or a full
  disk in the middle loses the board (every later tool raises), and two saves that have it
  open together may leave a mixture; an archive overwrites one of the same id; a task set to done
  without a message and with more than three log lines raises an error.
* Factory: serialising overlapping tasks can close a cycle with transitive
  dependencies, and a good plan is refused; a refused edge stays
  (`factory/models.py:122`).

## 7. Proofs

Everything here holds for any number of actors, nodes, threads, replicas, tasks and
messages, and any limits, subject to the named assumptions of the modules (`ASSUME
...Assumption`: numbers are naturals, some sets are finite, a marker such as
`"none"` or `NoVote` is no id), which TLC evaluates in the runs. A theorem that needs
more says so in its `ASSUME`, with one of these hypotheses. `raft_serial` and `stores`
satisfy them, so their runs check the same statements on an instance; only
`ElectionSafety` is checked in a run (`raft_elections`) that goes beyond its theorem.

| Hypothesis | Means | Why it is needed, and when the code satisfies it |
|---|---|---|
| `OneAtATime` | one thread makes Raft calls | otherwise `raft_interleaved` and the second `ElectionSafety` finding are counterexamples; the in-process cluster (`core/cluster_demo.py`) calls serially |
| `MajorityQuorums` | the quorum of every node is a majority of all nodes | the quorum counts verified peers only (`raft_consensus.py`, finding with `NoneVerified`); true when nodes attest each other before they stand |
| `OneLedgerObject` | recorders share one `RuntimeEventLedger` | its lock belongs to the object; two objects on one file fork a chain |

`MCStores`, `MCWork`, `MCAgents` and `MCNetwork` hold several parts with variables of their own.
Each part has an inductive invariant kept by its own actions; a lemma per module says
that a step of one part leaves the variables of the others alone, and the theorem of
a bundle is put together from the parts.

**Mission** (`MissionStoreProofs`). All rest on `StepKinds`: each step is a
transition, a read, a write or leaves row and pending work as they were, so an
invariant needs three cases.

* `TypeCorrect`, `StoredAggregatesAreValid`: every stored row passes the validator.
* `PendingWritesAreCurrentOrRefused`, the inductive core. A pending aggregate is
  valid and either older than the row or one edit of it. `NoLostUpdate` is not
  inductive alone: without this a save could write anything. With it,
  `WritesAreNeverLost` and `TerminalStatesAreFinal` follow.
* `ReceiptsAreTheTrail`, `TrailExplainsState`: key uniqueness in the trail comes from
  the lookup in the receipts.
* `CapabilitiesAreComplete`, from `ResumeSound`: a paused mission has a resume
  state, and only a paused or failed one does.
* `GatedStepsAreApproved`, `ExecutionIsApproved` (through `ExecutionInTrail`: an
  executing state is reached only by `approve_plan`), `AgentsNeverExecute` (through
  `HumansDecide`) and `UninterruptedRunsAreApproved` (through `ApprovedPlanAttached`).

**Committee Raft** (`CommitteeRaftProofs`; its lemmas on what the handlers compute for
every log and message, with `Merge` as the main one, come first). `RaftTypeCorrect`
needs no hypothesis; the others have `OneAtATime` and `MajorityQuorums`. The invariant
`IInv` has four parts.

* `ElectionInv`: every election won had a majority whose votes still name the winner
  or whose terms have moved on. Two majorities share a node, so `RaftElectionSafety`.
* `LogInv`: every entry is from an elected leader, terms do not fall along a log, a
  leader has all entries of its term, and two logs that agree on the term of an entry
  agree up to it (`RaftLogMatching`).
* `MachineInv`: what is applied is the committed part of the log, is held by a
  majority, by each leader of its last term or a later one, and by each log with an
  entry of a later term. Hence `RaftStateMachineSafety`, `RaftCommittedIsReplicated`
  and `RaftCommitsAreFinal`. The code commits an entry only by a request of the term
  it was appended in, which is what keeps this part inductive.
* `CallsInv`: the votes and acknowledgements the call in progress has counted are
  facts about the nodes that gave them. This is where interleaving breaks the proof,
  and `raft_interleaved` the protocol.

**Hash chains** (`StoresProofs`). `EventInv`: a recorder between its read and its
insert holds the lock and the last hash of its task. It gives
`StoresEventChainsVerify` and, for every step, a step of `EventLog` or a stutter
(`StoresImplementEventLog`); both with `OneLedgerObject`. `AuditInv`, while no row was
replaced: a response on its way, and what is left of one that is being merged, is a copy of
its sender's rows, up to which the merging ledger agrees with the sender's; equal hashes
stand for equal pasts, so a late response that continues the ledger fits. It gives `StoresRecoveryMeansReplicated` and, with the event chains,
`StoresHashesVerify` (`OneLedgerObject`). `StoresLedgersAreAppendOnly` needs only that a
merge goes on behind the rows it listed. None of them restricts the tenants or who
records when.

**Other stores** (`StoresProofs`). The inductive invariants:

* Webhooks (`HookInv`): an event is applied under its claim and at most once, a claim
  without effect is a handler that failed, and a customer has one tenant. Metering
  (`MeterInv`): every row at or below the mark was posted.
* Limiter (`RateInv`): the bound holds for the window that ends at any time, and
  no thread has a clock that prunes a row the last window still counts.
* Accounts (`AcctInv`): while no two load-to-save stretches have overlapped
  (`overlapped`, as in the property), a loaded file is the current one and the tokens
  of an account cover its rows plus what calls on their way still owe.
* Deltas (`DsInv`): there is an assignment of kinds to timestamps with which every
  replica, file, save and message is the newest of the deltas it has seen.
  `DeltasKept`: while no mirror has refused a write and there have been at most as
  many crashes as mirrors, no more files are torn than there were crashes, every
  readable file and the state being saved have all deltas the replica acknowledged,
  and the files a save has passed also have the one it is about to acknowledge.
* Vectors (`VmInv`): a node holds the newest version it was sent, no version is from
  the future, and the cached root is current.
* Long-term memory (`LtmInv`): an acknowledged memory has a record with its key in the
  remote or the local table, a store object that has fallen back reads the local one,
  and a cached answer is what the tables answer now. Checkpoints (`CkInv`): the file is
  missing, cut, or one that was written whole.
* Contexts (`RetInv`) and the Merkle tree (`HashInv`) have small invariants; their
  properties are about what a loop computes. The levels of the tree, the walk along a
  proof, and the loop over the scored candidates are recursive functions, so each is a
  sequence of states with a rule from one to the next (`RunOf`, `RunsExist`,
  `RunSteps`), and what holds at the start and is kept by the rule holds at the end
  (`NatsAreIn`). `ProofsVerify` follows a leaf and its proof up the levels together: at
  every level the hash so far is the node above the leaf exactly if the leaf is the
  right one. `ShownKeeps` counts facts and episodes along the loop.
* Lessons (`LsInv`): pending pushes were signed; while no two writers have overlapped, a
  writer still holds the whole file and adds only what is new to it (`WritesAreWhole`).

The theorems: `StoresTenantsAreSeparate`, `StoresMoneyIsCountedOnce`,
`StoresReadsSeeWrites`, `StoresReplicasConverge`, `StoresEffectsHappenOnce` and
`StoresHistoriesOnlyGrow`, all without hypothesis.

**Work** (`WorkProofs`, `AgentLoopProofs`), without hypotheses.

* Workflow (`WfInv`): a fatal failure is in the batch that is running, so the loop
  cannot go on to a success; a step of the batch that has not begun has its
  dependencies, because a finished step is not touched again.
* Debate (`DebateInv`): the slots held and the free ones add up to `Slots`, a turn
  asks its workers at most once, and the main run passes its sub-swarms only
  when all are done.
* Swarm (`SwInv`): the load of a node is at most the dispatches that wait for it and
  one that has answered, and a node that is gone has none. Pools (`PoolInv`): sizes
  differ from the load only while a thread stands between the two critical sections.
* Agent loop (`LoopInv`): the two gauges are the number of loops in their sections;
  open tool calls and executed ones are within the count that the limit looks at; the
  text streamed is of the current provider; slots are in use only while the loop
  waits for them.

They give `WorkCheckpointsAreTrue`, `WorkSuccessIsWhole`, `WorkResourcesAreReturned`
and `WorkStepsStartAfterDependencies`.

**Agents** (`AgentsProofs`, with the agent loop from `AgentLoopProofs`).

* Engine (`EngineInv`): a whole packet was exported as it is; a working memory that was
  neither rolled back nor replaced is the last exchanges, and what is not in it is
  summarised; the skill in the gate is on disk with the code the gate looks at.
* Responses gateway (`RespInv`): at each place of a request its events are one of four
  sequences, and it has telemetry exactly when it was completed.
* Governance (`GovInv`): no certificate is older than the swarm's keys, and each names
  a member once. Checking a certificate is a walk that may quarantine on its way, so
  the lemmas follow the walk (`WalkedFrom`: a new quarantine brings a new key, and who
  is in quarantine is not counted). It needs members listed once
  (`GovernanceAssumption`).
* Pipeline (`PipeInv`): what an execution holds at its place was approved by a human
  and, from the ladder on, verified as it is; its branch is empty until the commit,
  which is why no rollback takes a commit away.
* Task graph (`GraphInv`): what a task wrote lies in its scope; of two scopes that
  contain one path, one contains the other (`WritersOverlap`).
* Sandbox: containers (`BoxInv`: one not given up belongs to a program that runs or is
  being cleared, and the counters differ by the programs under way) and files
  (`FilesInv`: what the copies and the workspace hold at each place of every open
  transaction, but for the files whose copy or removal failed and those that other
  dispatches have touched).
* Task board: `BoardInv` (links have both ends in the file and in every board a tool is
  about to save, unless saves have mixed) and `LinesInv` (every line is on the board, in
  the archive or in the one call under way, while calls have not overlapped and the file
  is whole); the queue (`QueueInv`).
* Factory (`FcInv`): a planned graph has a plan (`IsPlan`: every task in one wave, after
  what it waits for) and peers that fit, and what was distilled has a contract.

They give `AgentsStayWithinLimits`, `AgentsAnswerWhole`, `AgentsPassTheirGates`,
`AgentsShareConsistently`, `AgentsKeepTheirWorkspace`, `AgentsFinishTheirSteps` and
`AgentsCompleteTheirSteps`, without hypothesis.

Several definitions here recurse: the check of a certificate, the cut of a graph into
waves and each wave, the assignment of peers, the lines that are left. They are
recursive functions over `0 .. n` or over the subsets of a finite set, and two pairs of
lemmas replace the induction theorems that the provers cannot instantiate:
`RecursionDefined` and `ChainDefined` (such a function exists), `SetInduction` and
`ChainInduction` (a set that holds the base and is closed under the step holds
everything), each with a set where those theorems take an operator.

**Network** (`NetworkProofs`), without hypotheses.

* Mesh (`MeshInv`): a verified peer is listed with a certificate that was proved under
  its name since it registered; a challenge is one node's, one that is active or about to
  be has verified at most as many proofs as it was brought back, and one not yet added
  has verified none. `NetworkPeersAreAttested` is proved of the mesh alone (`MeshSpec`)
  and of the run's specification.
* Cross-cloud (`CcInv`): a tunnel past its handshake knows its gateway and cloud, and an
  entry of `peers` is an open tunnel of that gateway to that cloud.
* Peer to peer (`P2PInv`: an entry leads to a tunnel its owner listens on, a tunnel has
  two different ends, and a waiting call is listed), overlay (`OvInv`: an address that
  is registered, in a session, in a handshake or was sent to belongs to one node and is
  below the next one) and sockets (`WsInv`: for sessions, crew and dashboard, what a
  fan-out that is under way may still do to the registries) give `NetworkTablesMatch`.
* Topology (`TpInv`: a saved file is a state that was stored, a running node is awaited
  by the stream or was left by one) gives `NetworkViewersSeeTheTruth`, with the sockets.

### What stays with TLC

* Liveness: `WorkEnds`. The provers handle neither fairness nor `ENABLED`.
* `RegionsAgree`: the cross-region Raft commits on followers without an
  acknowledgement and counts active members only; its properties hold within the
  bounds of the run and are not inductive in general (`Unrestricted = TRUE`).
* `ElectionSafety` of three interleaved nodes, which the theorem does not cover.


## 8. Not modelled, and plan

Conductor and delegation, edge model dispatch, file chunks, cryptographic
primitives, prompt and token text, contracts and validators, start-up, CLI, viewer,
benchmarks and demos: each is text, numeric or I/O code, or one call that keeps no
state; `PROJECT.json` gives the reason per component. Within modelled parts the
notes there name what is left out (embeddings, git itself, static checks of code,
JSON repair, provider protocols). Hazards without a property that holds: restarts of
Raft nodes (nothing is persisted) and a revocation during a handshake (a finding).

Next:

1. The exact restriction under which `RegionsAgree` has an inductive invariant.
2. An abstract mission life cycle that `MissionStore` refines.
