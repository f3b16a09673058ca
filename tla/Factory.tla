------------------------------ MODULE Factory ------------------------------
(***************************************************************************)
(* The software factory (core/factory/, routes/factory.py): refactoring    *)
(* tasks are put in a graph, cut into waves of tasks with disjoint scopes, *)
(* assigned to mesh peers by capability, debated one by one and, when the  *)
(* committee agrees, distilled into vector memory.  A run is sequential.   *)
(*                                                                         *)
(* A task is its place in the order of insertion.  A dependency may name a *)
(* task that is not in the graph.                                          *)
(***************************************************************************)
EXTENDS Integers, FiniteSets, Sequences, SequencesExt

CONSTANTS
    FcPlans,         \* custom plans: sequences of tasks
    FcListings,      \* analysed files, riskiest first, as they read in lower case
    FcPeerIds,       \* mesh peers that come and go
    FcStartPeers,    \* peers the dispatcher starts with, in order
    QuorumThreshold, \* quorum_threshold (70)
    MaxFcTasks,      \* max_tasks of a decomposition
    MaxPeerChanges,  \* bound: registrations and departures
    MaxFcEdges       \* bound: dependencies added to a graph

IsTask(t) ==
    /\ t = [scope |-> t.scope, deps |-> t.deps, prio |-> t.prio, effort |-> t.effort, kind |-> t.kind]
    /\ t.prio \in Int /\ t.effort \in Int

FcPeer == STRING \X SUBSET STRING

ASSUME FactoryAssumption ==
    /\ QuorumThreshold \in 0 .. 100 /\ MaxFcTasks \in Nat \ {0} /\ MaxPeerChanges \in Nat /\ MaxFcEdges \in Nat
    /\ FcPeerIds \subseteq STRING /\ FcStartPeers \in Seq(FcPeer)
    /\ \A ns \in FcPlans : DOMAIN ns = 1 .. Len(ns) /\ Len(ns) \in Nat /\ \A k \in DOMAIN ns : IsTask(ns[k])
    /\ \A files \in FcListings : DOMAIN files = 1 .. Len(files) /\ Len(files) \in Nat

VARIABLES
    fcPeers,      \* the dispatcher's peers, in order of insertion: <<id, capabilities>>
    fcDag,        \* the tasks of the graph, in order of insertion
    fcStage,      \* "idle", "graph", "planned", "refused"
    fcPlan,       \* wave_breakdown and, wave by wave, the assigned peers
    fcDebates,    \* the debates so far, in the order of the tasks
    fcDistilled,  \* distilled_entries: <<task, category>>
    fcChanges     \* registrations and departures, and dependencies added

fcVars == <<fcPeers, fcDag, fcStage, fcPlan, fcDebates, fcDistilled, fcChanges>>

NoPlanYet == [waves |-> << >>, peers |-> << >>]

FactoryInit ==
    /\ fcPeers = FcStartPeers
    /\ fcDag = << >> /\ fcStage = "idle" /\ fcPlan = NoPlanYet
    /\ fcDebates = << >> /\ fcDistilled = << >> /\ fcChanges = [peers |-> 0, edges |-> 0]
-----------------------------------------------------------------------------
(* The graph. *)

\* validate_acyclic: Kahn's algorithm visits every task when there is no set
\* of tasks each of which waits for another of the set.
Acyclic(ns) ==
    \A S \in (SUBSET DOMAIN ns) \ {{}} : \E n \in S : ns[n].deps \cap S = {}

SharesScope(a, b) == a.scope \cap b.scope # {}

\* Of two tasks, the one that is to go first.
GoesFirst(ns, a, b) == ns[a].prio > ns[b].prio \/ (ns[a].prio = ns[b].prio /\ a < b)

\* Tasks that share a scope are put in order, unless one waits for the other.
Serialized(ns) ==
    [k \in DOMAIN ns |->
        [ns[k] EXCEPT !.deps = @ \cup
            {o \in DOMAIN ns \ {k} : /\ SharesScope(ns[o], ns[k]) /\ GoesFirst(ns, o, k)
                                     /\ k \notin ns[o].deps}]]

Accepted(ns) ==
    /\ fcStage = "idle"
    /\ fcStage' = IF Acyclic(ns) THEN "graph" ELSE "refused"
    /\ fcDag' = IF Acyclic(ns) THEN ns ELSE << >>
    /\ UNCHANGED <<fcPeers, fcPlan, fcDebates, fcDistilled, fcChanges>>

\* add_node: a graph put together by hand is neither checked nor put in order.
BuildGraph ==
    /\ fcStage = "idle" /\ fcStage' = "graph"
    /\ fcDag' \in FcPlans
    /\ UNCHANGED <<fcPeers, fcPlan, fcDebates, fcDistilled, fcChanges>>

\* decompose_custom_plan
DecomposeCustomPlan == \E ns \in FcPlans : Accepted(Serialized(ns))

\* decompose: one task per file, of a type that its metrics decide; the
\* riskier of two files that read alike in lower case goes first.  Without
\* files, one task over the whole repository.
DecomposedTypes == {"MODULARIZE", "DECOUPLING", "ASYNC_MIGRATION", "TYPE_HARDENING"}

DecomposeInto(files, kinds) ==
    IF files = << >> THEN << [scope |-> {"."}, deps |-> {}, prio |-> 1, effort |-> 1, kind |-> "TYPE_HARDENING"] >>
    ELSE [k \in 1 .. (IF Len(files) < MaxFcTasks THEN Len(files) ELSE MaxFcTasks) |->
            [scope |-> {files[k]}, deps |-> {j \in 1 .. k - 1 : files[j] = files[k]},
             prio |-> 100 - k, effort |-> 1, kind |-> kinds[k]]]

Decompose ==
    \E files \in FcListings : \E kinds \in [DOMAIN files -> DecomposedTypes] : Accepted(DecomposeInto(files, kinds))

\* add_dependency: the edge is added first and stays when the check raises.
AddDependency(dependent, prerequisite) ==
    /\ fcStage = "graph" /\ fcChanges.edges < MaxFcEdges
    /\ {dependent, prerequisite} \subseteq DOMAIN fcDag
    /\ fcDag' = [fcDag EXCEPT ![dependent].deps = @ \cup {prerequisite}]
    /\ fcChanges' = [fcChanges EXCEPT !.edges = @ + 1]
    /\ UNCHANGED <<fcPeers, fcStage, fcPlan, fcDebates, fcDistilled>>
-----------------------------------------------------------------------------
(* Waves and peers. *)

\* The order in which a wave considers its candidates.
Earlier(ns, a, b) ==
    \/ ns[a].prio > ns[b].prio
    \/ ns[a].prio = ns[b].prio /\ ns[a].effort < ns[b].effort
    \/ ns[a].prio = ns[b].prio /\ ns[a].effort = ns[b].effort /\ a < b

Earliest(ns, cs) == CHOOSE a \in cs : \A b \in cs \ {a} : Earlier(ns, a, b)

\* The tasks whose dependencies are done.
Unblocked(ns, left) == {n \in left : ns[n].deps \cap left = {}}

\* Mutant: a wave takes every candidate, whatever the scopes.
WaveAll(ns, left) == SetToSortSeq(Unblocked(ns, left), LAMBDA a, b : Earlier(ns, a, b))

\* One wave: the candidates greedily, as long as no scope is taken twice: each
\* that is taken rules out those it shares a scope with.
Wave(ns, left) ==
    LET taken[cs \in SUBSET Unblocked(ns, left)] ==
            IF cs = {} THEN << >>
            ELSE LET a == Earliest(ns, cs)
                 IN  << a >> \o taken[{b \in cs \ {a} : ~SharesScope(ns[a], ns[b])}]
    IN  taken[Unblocked(ns, left)]

\* get_parallel_waves
Waves(ns) ==
    LET ahead[left \in SUBSET DOMAIN ns] ==
            IF left = {} THEN << >> ELSE << Wave(ns, left) >> \o ahead[left \ ToSet(Wave(ns, left))]
    IN  ahead[DOMAIN ns]

RequiredCapability(kind) ==
    CASE kind \in {"MODULARIZE", "DECOUPLING"} -> "REASONING_ENGINE"
      [] kind = "TEST_EXPANSION" -> "TEST_RUNNER"
      [] kind = "VISUAL_VERIFICATION" -> "MULTIMODAL_PERCEPTION"
      [] kind \in {"SYNTAX_CLEANUP", "TEST_STUB_GENERATION"} -> "EDGE_SLM"
      [] kind = "CROSS_ORG_FEDERATION" -> "CROSS_ORG_GATEWAY"
      [] OTHER -> "SANDBOX_MUTATION"

\* Mutant: the first peer with the capability, whatever it has to do already.
FirstMatchingPeer(cap, assigned) ==
    LET matching == {i \in DOMAIN fcPeers : cap \in fcPeers[i][2]}
    IN  CASE matching # {} -> fcPeers[Min(matching)][1]
          [] matching = {} /\ fcPeers # << >> -> fcPeers[1][1]
          [] OTHER -> "node-fallback-local"

\* _find_best_peer
FindBestPeer(cap, assigned) ==
    LET matching == {i \in DOMAIN fcPeers : cap \in fcPeers[i][2]}
        available == {i \in matching : ~Contains(assigned, fcPeers[i][1])}
    IN  CASE available # {} -> fcPeers[Min(available)][1]
          [] available = {} /\ matching # {} -> fcPeers[Min(matching)][1]
          [] matching = {} /\ fcPeers # << >> -> fcPeers[1][1]
          [] OTHER -> "node-fallback-local"

AssignPeers(ns, wave) ==
    LET assigned[k \in 0 .. Len(wave)] ==
            IF k = 0 THEN << >>
            ELSE Append(assigned[k - 1], FindBestPeer(RequiredCapability(ns[wave[k]].kind), assigned[k - 1]))
    IN  assigned[Len(wave)]

\* create_dispatch_plan: a graph with a cycle, or with a task that waits for
\* one outside of the graph, is refused.
CreateDispatchPlan ==
    /\ fcStage = "graph"
    /\ IF Acyclic(fcDag) /\ \A n \in DOMAIN fcDag : fcDag[n].deps \subseteq DOMAIN fcDag
       THEN LET waves == Waves(fcDag)
            IN  /\ fcStage' = "planned"
                /\ fcPlan' = [waves |-> waves, peers |-> [i \in DOMAIN waves |-> AssignPeers(fcDag, waves[i])]]
       ELSE fcStage' = "refused" /\ fcPlan' = fcPlan
    /\ UNCHANGED <<fcPeers, fcDag, fcDebates, fcDistilled, fcChanges>>

\* register_peer replaces the capabilities in place; a new peer comes last.
PeersBeforePlan == fcStage = "idle" /\ fcChanges.peers < MaxPeerChanges

RegisterPeer(p, caps) ==
    /\ PeersBeforePlan
    /\ fcPeers' = IF \E i \in DOMAIN fcPeers : fcPeers[i][1] = p
                  THEN [i \in DOMAIN fcPeers |-> IF fcPeers[i][1] = p THEN <<p, caps>> ELSE fcPeers[i]]
                  ELSE Append(fcPeers, <<p, caps>>)
    /\ fcChanges' = [fcChanges EXCEPT !.peers = @ + 1]
    /\ UNCHANGED <<fcDag, fcStage, fcPlan, fcDebates, fcDistilled>>

UnregisterPeer(p) ==
    /\ PeersBeforePlan
    /\ \E i \in DOMAIN fcPeers : fcPeers[i][1] = p /\ fcPeers' = RemoveAt(fcPeers, i)
    /\ fcChanges' = [fcChanges EXCEPT !.peers = @ + 1]
    /\ UNCHANGED <<fcDag, fcStage, fcPlan, fcDebates, fcDistilled>>
-----------------------------------------------------------------------------
(* The committee. *)

Defect(severity, resolved) == [severity |-> severity, resolved |-> resolved]

\* The defects the attacker names, as the architect has answered them.  Only
\* a forced one stays unresolved.
Defects(kind, forced) ==
    LET probes == CASE kind = "ASYNC_MIGRATION" ->
                         << Defect("HIGH", TRUE), Defect(IF forced THEN "CRITICAL" ELSE "HIGH", TRUE) >>
                    [] kind = "MODULARIZE" -> << Defect("HIGH", TRUE) >>
                    [] OTHER -> << Defect("MEDIUM", TRUE) >>
    IN  IF forced THEN Append(probes, Defect("CRITICAL", FALSE)) ELSE probes

UnresolvedCritical(ds) == \E i \in DOMAIN ds : ds[i].severity = "CRITICAL" /\ ~ds[i].resolved

\* Mutant: the score alone decides, and no defect caps it.
QuorumByScore(ds) ==
    100 - (50 * Cardinality({i \in DOMAIN ds : ~ds[i].resolved})) \div Len(ds) >= QuorumThreshold

\* The arbiter: half a point off for every per cent unresolved, at most 40
\* with an unresolved critical defect, and no quorum with one at all.
QuorumReached(ds) ==
    LET unresolved == Cardinality({i \in DOMAIN ds : ~ds[i].resolved})
        score == 100 - (50 * unresolved) \div Len(ds)
        capped == IF UnresolvedCritical(ds) /\ score > 40 THEN 40 ELSE score
    IN  capped >= QuorumThreshold /\ ~UnresolvedCritical(ds)

\* distill_task_outcome after a success: a pattern, and a lesson when
\* something was mitigated.
Distilled(task, ds) ==
    << <<task, "PATTERN">> >> \o
    (IF \E i \in DOMAIN ds : ds[i].resolved THEN << <<task, "LESSON">> >> ELSE << >>)

\* conduct_debate on the next task of the graph, and what the route makes of it.
Debated(forced) ==
    LET task == Len(fcDebates) + 1
        ds == Defects(fcDag[task].kind, forced)
    IN  /\ fcStage = "planned" /\ task \in DOMAIN fcDag
        /\ fcDebates' = Append(fcDebates, [defects |-> ds, contract |-> QuorumReached(ds)])
        /\ fcDistilled' = IF QuorumReached(ds) THEN fcDistilled \o Distilled(task, ds) ELSE fcDistilled
        /\ UNCHANGED <<fcPeers, fcDag, fcStage, fcPlan, fcChanges>>

FactoryNext ==
    \/ BuildGraph \/ DecomposeCustomPlan \/ Decompose \/ CreateDispatchPlan
    \/ \E a, b \in DOMAIN fcDag : AddDependency(a, b)
    \/ \E p \in FcPeerIds : UnregisterPeer(p) \/ \E c \in {"SANDBOX_MUTATION", "REASONING_ENGINE"} : RegisterPeer(p, {c})
    \/ \E forced \in BOOLEAN : Debated(forced)
-----------------------------------------------------------------------------
(* Properties. *)

\* A dispatch plan can be executed wave by wave: every task is in it once,
\* after all its dependencies, and no two tasks of a wave may write the same
\* file ("guaranteeing disjoint mutable scopes within each wave").
PlansAreExecutable ==
    fcStage = "planned" =>
        LET waves == fcPlan.waves
            Of(n) == {i \in DOMAIN waves : Contains(waves[i], n)}
        IN  /\ \A n \in DOMAIN fcDag :
                 /\ Cardinality(Of(n)) = 1
                 /\ \A d \in fcDag[n].deps : \A i \in Of(n), j \in Of(d) : j < i
            /\ \A i \in DOMAIN waves :
                 /\ IsInjective(waves[i]) /\ ToSet(waves[i]) \subseteq DOMAIN fcDag
                 /\ \A n, m \in ToSet(waves[i]) : n # m => ~SharesScope(fcDag[n], fcDag[m])

\* A task goes to a peer that can do it when there is one, and to one that has
\* work in the wave only when every such peer has.
AssignmentsFit ==
    fcStage = "planned" =>
        \A i \in DOMAIN fcPlan.waves : \A k \in DOMAIN fcPlan.waves[i] :
            LET cap == RequiredCapability(fcDag[fcPlan.waves[i][k]].kind)
                capable == {p[1] : p \in {q \in ToSet(fcPeers) : cap \in q[2]}}
                before == {fcPlan.peers[i][j] : j \in 1 .. k - 1}
            IN  capable # {} =>
                    /\ fcPlan.peers[i][k] \in capable
                    /\ fcPlan.peers[i][k] \in before => capable \subseteq before

\* What is distilled as a proven pattern passed the committee: its task holds
\* a contract, and no contract leaves a critical defect open.
PatternsAreProven ==
    \A i \in DOMAIN fcDistilled :
        LET debate == fcDebates[fcDistilled[i][1]] IN debate.contract /\ ~UnresolvedCritical(debate.defects)
=============================================================================
