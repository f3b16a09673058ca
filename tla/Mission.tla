------------------------------ MODULE Mission ------------------------------
(***************************************************************************)
(* The Mission aggregate of the developer control plane, without any       *)
(* storage: its states and events, the central transition table and its    *)
(* guards (core/mission_state_machine.py), and the pure updates of the     *)
(* aggregate (core/mission_model.py).  MissionStore puts it in a database. *)
(*                                                                         *)
(* Data is reduced to what the guards compare.  A plan is its revision and *)
(* the set of verification gates it requires, so two plans with the same   *)
(* record have the same canonical digest; plan ids are left out (a plan    *)
(* with another id than the attached one is always refused).  Evidence     *)
(* keeps its type, its verdict and the plan revision its task links name   *)
(* (0: no task links).                                                     *)
(***************************************************************************)
EXTENDS Integers, Sequences

CONSTANTS
  Actors,           \* authenticated principals
  Agents,           \* the principals whose id starts with "agent" or "bot"
  PlanRevisions,    \* revisions a submitted plan may carry
  VGates,           \* names of verification gates
  EvTypes,          \* types of evidence
  Compatible,       \* VGates -> the evidence types a gate accepts
  EvidenceIds,      \* ids of evidence records
  GateIds,          \* ids of approval gates
  ScopeRequests,    \* scope-expansion requests of the created aggregate
  DraftReviews,     \* Draft PR reviews a decision can be about
  ReviewSubject,    \* the aggregate's draft_pr_review_subject: {} or {review}
  DraftPRPermitted, \* execution_policy.scope.draft_pr_permission
  MaxAudit          \* max_length of transition_audit (1000 in the code)

ASSUME MissionAssumption ==
  /\ Agents \subseteq Actors
  /\ PlanRevisions \subseteq Nat \ {0}
  /\ Compatible \in [VGates -> SUBSET EvTypes]
  /\ ReviewSubject \subseteq DraftReviews
  /\ DraftPRPermitted \in BOOLEAN
  /\ MaxAudit \in Nat

-----------------------------------------------------------------------------
(* States and events. *)

\* The eight states PAUSE, CANCEL and FAIL all leave.
Recoverable == {"planning", "awaiting_approval", "running", "needs_decision",
                "scope_blocked", "verifying", "ci_failed", "review_ready"}

Terminal == {"closed", "cancelled", "failed", "budget_exhausted"}

States == Recoverable \cup Terminal \cup {"draft", "draft_pr_created", "paused"}

Events == {"start_planning", "submit_plan", "approve_plan", "reject_plan",
           "begin_verification", "complete_verification", "fail_ci",
           "retry_verification", "create_draft_pr", "request_scope_expansion",
           "block_scope", "approve_scope", "reject_scope", "pause", "resume",
           "cancel", "fail", "exhaust_budget", "close"}

\* _LEGAL_TRANSITIONS as <<state, event, target>> triples.
Legal ==
  { <<"draft", "start_planning", "planning">>,
    <<"planning", "submit_plan", "awaiting_approval">>,
    <<"awaiting_approval", "approve_plan", "running">>,
    <<"awaiting_approval", "reject_plan", "planning">>,
    <<"running", "begin_verification", "verifying">>,
    <<"running", "request_scope_expansion", "needs_decision">>,
    <<"verifying", "complete_verification", "review_ready">>,
    <<"verifying", "fail_ci", "ci_failed">>,
    <<"ci_failed", "retry_verification", "verifying">>,
    <<"review_ready", "create_draft_pr", "draft_pr_created">> }
  \cup { <<s, "block_scope", "scope_blocked">> : s \in {"running", "needs_decision"} }
  \cup { <<s, "approve_scope", "running">> : s \in {"needs_decision", "scope_blocked"} }
  \cup { <<s, "reject_scope", "planning">> : s \in {"needs_decision", "scope_blocked"} }
  \cup { <<s, "close", "closed">> : s \in {"review_ready", "draft_pr_created"} }
  \cup { <<s, "exhaust_budget", "budget_exhausted">> :
           s \in {"planning", "running", "verifying"} }
  \cup { <<s, "pause", "paused">> : s \in Recoverable }
  \cup { <<s, "cancel", "cancelled">> : s \in Recoverable \cup {"draft", "paused"} }
  \cup { <<s, "fail", "failed">> : s \in Recoverable \cup {"paused"} }

-----------------------------------------------------------------------------
(* The aggregate. *)

Plans == [revision : PlanRevisions, required : SUBSET VGates]
NoPlan == [revision |-> 0, required |-> VGates]

PlanSubjects == { [kind |-> "plan", plan |-> p] : p \in Plans }
ScopeSubjects == { [kind |-> "scope_expansion", scope_request_id |-> r] : r \in ScopeRequests }
DraftSubjects == { [kind |-> "draft_pr", review_id |-> r] : r \in DraftReviews }
Subjects == PlanSubjects \cup ScopeSubjects \cup DraftSubjects
NoSubject == [kind |-> "none"]

ApprovalGates == [gate_id : GateIds, subject : Subjects,
                  status : {"approved", "rejected"}, actor : Actors]

Evidence == [evidence_id : EvidenceIds, type : EvTypes, passed : BOOLEAN,
             plan_revision : PlanRevisions \cup {0}]

\* "pending" stands for the statuses that never complete a gate
\* (pending, failed, blocked), and for a gate with no record at all.
VerificationGates == [status : {"pending", "passed", "not_applicable"},
                      refs : SUBSET EvidenceIds]

Audits == [key : Nat, event : Events, from_state : States, to_state : States,
           to_revision : Nat, subject : Subjects \cup {NoSubject}]

Missions == [owner : Actors, state : States, revision : Nat,
             plan : Plans \cup {NoPlan},
             gates : SUBSET ApprovalGates,
             evidence : SUBSET Evidence,
             vgates : [VGates -> VerificationGates],
             resume : States \cup {"none"},
             audit : Seq(Audits)]

\* A mission as create_mission builds it.  The routes leave required_verification
\* at the default (every gate) until a plan is attached.
NewMission(owner) ==
  [owner |-> owner, state |-> "draft", revision |-> 0, plan |-> NoPlan,
   gates |-> {}, evidence |-> {},
   vgates |-> [g \in VGates |-> [status |-> "pending", refs |-> {}]],
   resume |-> "none", audit |-> <<>>]

\* What the referenced evidence must be for a gate to count as passed.
Supports(m, g, refs) ==
  \A r \in refs : \E e \in m.evidence :
     e.evidence_id = r /\ e.passed /\ e.type \in Compatible[g]

\* Mission.verification_complete
VerificationComplete(m) ==
  \A g \in m.plan.required :
     \/ m.vgates[g].status = "not_applicable"
     \/ /\ m.vgates[g].status = "passed"
        /\ m.vgates[g].refs # {}
        /\ Supports(m, g, m.vgates[g].refs)

\* Mission.validate_aggregate_references, run on every rebuilt aggregate.
\* The uniqueness checks are in the updates below and in Transition.
ValidAggregate(m) ==
  /\ m.plan # NoPlan =>
       \A e \in m.evidence : e.plan_revision \in {0, m.plan.revision}
  /\ \A a, b \in m.gates : a.subject = b.subject => a = b
  /\ \A g \in VGates : \A r \in m.vgates[g].refs :
       \E e \in m.evidence : e.evidence_id = r
  /\ \A g \in VGates : m.vgates[g].status = "passed" =>
       m.vgates[g].refs # {} /\ Supports(m, g, m.vgates[g].refs)
  /\ Len(m.audit) <= MaxAudit

-----------------------------------------------------------------------------
(* Pure updates of the aggregate: each is the set of aggregates the method  *)
(* may return for the given one, empty when it raises.                      *)

\* attach_plan refuses to replace the plan of a mission in one of these states.
PlanLocked == {"running", "verifying", "review_ready", "draft_pr_created", "closed"}

\* Mutant of AttachPlan: the approved_plan_locked check is missing.
AttachPlanUnlocked(m, p) ==
  { u \in {[m EXCEPT !.plan = p]} :
      (m.plan # NoPlan => p.revision > m.plan.revision) /\ ValidAggregate(u) }

\* Mission.attach_plan.  Attaching the same plan again returns the same
\* aggregate, which the route does not save.
AttachPlan(m, p) ==
  LET updated == [m EXCEPT !.plan = p]
  IN  { u \in {updated} :
          /\ m.plan # NoPlan => /\ p.revision > m.plan.revision
                                /\ m.state \notin PlanLocked
          /\ ValidAggregate(u) }

\* Mutant of AddApprovalGate: agents may approve.
AddApprovalGateByAnyone(m, gate) ==
  { u \in {[m EXCEPT !.gates = @ \cup {gate}]} :
      /\ \A o \in m.gates : o.gate_id # gate.gate_id /\ o.subject # gate.subject
      /\ gate.subject.kind = "plan" => gate.subject.plan = m.plan }

\* Mission.add_approval_gate with the gate record_approval builds: its actor is
\* the authenticated caller.  A second decision on a subject is refused.
AddApprovalGate(m, gate) ==
  LET updated == [m EXCEPT !.gates = @ \cup {gate}]
  IN  { u \in {updated} :
          /\ \A other \in m.gates : other.gate_id # gate.gate_id
          /\ gate.status = "approved" => gate.actor \notin Agents
          /\ gate.subject.kind = "plan" => gate.subject.plan = m.plan
          /\ \A other \in m.gates : other.subject # gate.subject
          /\ ValidAggregate(u) }

\* Mission.add_evidence_record
AddEvidenceRecord(m, ev) ==
  LET updated == [m EXCEPT !.evidence = @ \cup {ev}]
  IN  { u \in {updated} :
          /\ \A other \in m.evidence : other.evidence_id # ev.evidence_id
          /\ ValidAggregate(u) }

\* Mutant of RecordVerificationGate: the new aggregate is not validated.
RecordVerificationGateUnchecked(m, g, rec) == {[m EXCEPT !.vgates[g] = rec]}

\* Mission.record_verification_gate: the record replaces the gate's former one.
RecordVerificationGate(m, g, rec) ==
  LET updated == [m EXCEPT !.vgates[g] = rec]
  IN  { u \in {updated} : ValidAggregate(u) }

-----------------------------------------------------------------------------
(* The state machine: guards and the transition itself.                     *)

HasApproval(m, subject) ==
  \E g \in m.gates : g.status = "approved" /\ g.subject = subject

\* Mutant of RequirePlanApproval: the subject matches, no decision is looked up.
RequirePlanSubject(m, subject) ==
  subject \in PlanSubjects /\ m.plan # NoPlan /\ subject.plan = m.plan

\* _require_plan_approval
RequirePlanApproval(m, subject) ==
  /\ subject \in PlanSubjects
  /\ m.plan # NoPlan
  /\ subject.plan = m.plan
  /\ HasApproval(m, subject)

\* _require_verification
RequireVerification(m) == VerificationComplete(m)

\* Mutant of RequireScopeDecision: any decision on the subject will do.
RequireScopeAnyDecision(m, subject) ==
  subject \in ScopeSubjects /\ \E g \in m.gates : g.subject = subject

\* _require_scope_decision
RequireScopeDecision(m, subject) ==
  /\ subject \in ScopeSubjects
  /\ HasApproval(m, subject)

\* Mutant of RequireDraftPR: the approval is not looked up.
RequireDraftPRReviewed(m, subject) ==
  DraftPRPermitted /\ subject \in DraftSubjects /\ subject.review_id \in ReviewSubject

\* _require_draft_pr
RequireDraftPR(m, subject) ==
  /\ DraftPRPermitted
  /\ subject \in DraftSubjects
  /\ subject.review_id \in ReviewSubject
  /\ HasApproval(m, subject)

\* _GUARDS
Guard(m, event, subject) ==
  /\ event = "approve_plan" => RequirePlanApproval(m, subject)
  /\ event \in {"begin_verification", "complete_verification"} => RequireVerification(m)
  /\ event = "create_draft_pr" => RequireDraftPR(m, subject)
  /\ event = "approve_scope" => RequireScopeDecision(m, subject)

\* The target of an event: resume goes back to the recorded state, whatever
\* the current one is; every other event is looked up in the table.
Target(m, event, target) ==
  \/ event = "resume" /\ m.resume # "none" /\ target = m.resume
  \/ event # "resume" /\ <<m.state, event, target>> \in Legal

\* The target states an event is accepted for: none when the mission is terminal
\* or its guard refuses.  The store validates the result, so an aggregate whose
\* audit trail is full refuses every event.
Targets(m, event, subject) ==
  { t \in States : /\ Len(m.audit) < MaxAudit
                   /\ m.state \notin Terminal
                   /\ Target(m, event, t)
                   /\ Guard(m, event, subject) }

\* The audit record of a transition.
AuditRecord(m, event, target, key, subject) ==
  [key |-> key, event |-> event, from_state |-> m.state, to_state |-> target,
   to_revision |-> m.revision + 1, subject |-> subject]

\* Mutant of Transition: resume_state survives the resume.
TransitionKeepsResume(m, event, key, subject) ==
  { [m EXCEPT !.state = target, !.revision = m.revision + 1,
              !.resume = IF target = "paused" THEN m.state ELSE m.resume,
              !.audit = Append(m.audit, AuditRecord(m, event, target, key, subject))] :
    target \in Targets(m, event, subject) }

\* MissionStateMachine.transition for a key the aggregate has not seen: the set
\* of results, empty when it raises.
Transition(m, event, key, subject) ==
  { [m EXCEPT !.state = target,
              !.revision = m.revision + 1,
              !.resume = IF target = "paused" THEN m.state ELSE "none",
              !.audit = Append(m.audit, AuditRecord(m, event, target, key, subject))] :
    target \in Targets(m, event, subject) }

\* MissionStateMachine.capabilities: the events offered to the client.
AllowedEvents(m) ==
  { e \in Events :
      \/ /\ \E t \in States : <<m.state, e, t>> \in Legal
         /\ e = "begin_verification" => VerificationComplete(m)
      \/ e = "resume" /\ m.state = "paused" /\ m.resume # "none" }
=============================================================================
