---------------------------- MODULE MissionStore ----------------------------
(***************************************************************************)
(* One mission in the SQLite store (core/mission_store.py) and the REST     *)
(* routes that change it (routes/missions.py).                              *)
(*                                                                          *)
(* The routes are plain "def" handlers, which FastAPI runs in a thread      *)
(* pool, each with a database connection of its own.  A transition is one   *)
(* BEGIN IMMEDIATE transaction: it reads, checks and writes atomically.     *)
(* The four other updates read the mission in one step and write it back in *)
(* a later one (Begin... then Save), guarded by the revision they read.     *)
(*                                                                          *)
(* A request refused by the code changes nothing and is a stuttering step:  *)
(* an unknown mission, a caller that does not own it, a stale               *)
(* expected_revision, a key already used, an aggregate error.  A client may *)
(* send any request again at any time, so retries and duplicates are        *)
(* included.  Idempotency keys are only compared for equality: they are     *)
(* numbered in the order of their first use.                                *)
(***************************************************************************)
EXTENDS Mission

CONSTANTS
  Handlers,     \* worker threads that serve read-modify-write routes
  MaxRevision,  \* bound of the model: no write beyond this revision
  NoMission,    \* the row does not exist
  Idle          \* the handler serves no request

ASSUME StoreAssumption ==
  /\ MaxRevision \in Nat
  /\ NoMission \notin Missions
  /\ Idle \notin Missions

VARIABLES
  row,          \* the mission's row of table missions, or NoMission
  receipts,     \* table mission_transitions: the audits stored by key
  pending       \* per handler: the aggregate it is about to save, or Idle

vars == <<row, receipts, pending>>

Init ==
  /\ row = NoMission
  /\ receipts = {}
  /\ pending = [h \in Handlers |-> Idle]

-----------------------------------------------------------------------------
\* create_mission: the INSERT fails when the mission exists already.
Create(actor) ==
  /\ row = NoMission
  /\ row' = NewMission(actor)
  /\ UNCHANGED <<receipts, pending>>

\* The caller must own the mission (_owned_mission, the WHERE clauses).
Owned(actor) == row # NoMission /\ row.owner = actor

\* The subjects a client sends with an event.
SubjectsFor(event) ==
  CASE event = "approve_plan"    -> PlanSubjects
    [] event = "approve_scope"   -> ScopeSubjects
    [] event = "create_draft_pr" -> DraftSubjects
    [] OTHER -> {NoSubject}

\* Mutant of Unused: the receipt is never looked up.
NeverUsed(key) == TRUE

\* The receipt of a key, if there is one, answers the request (append_transition).
Unused(key) == \A r \in receipts : r.key # key

\* Mutants of SubmitTransition: the receipt is a write of its own that got lost,
\* or names the resume state as its target.
SubmitWithoutReceipt(actor, event, key, subject) ==
  /\ Owned(actor) /\ row.revision < MaxRevision /\ Unused(key)
  /\ row' \in Transition(row, event, key, subject)
  /\ UNCHANGED <<receipts, pending>>

\* Mutant: the receipt names the state to resume.
SubmitWrongReceipt(actor, event, key, subject) ==
  /\ Owned(actor) /\ row.revision < MaxRevision /\ Unused(key)
  /\ row' \in Transition(row, event, key, subject)
  /\ receipts' = receipts \cup {[row'.audit[Len(row'.audit)] EXCEPT !.to_state = row'.resume]}
  /\ UNCHANGED pending

\* append_transition, from BEGIN IMMEDIATE to commit: the row and the receipt
\* are written together.
SubmitTransition(actor, event, key, subject) ==
  /\ Owned(actor)
  /\ row.revision < MaxRevision
  /\ Unused(key)
  /\ row' \in Transition(row, event, key, subject)
  /\ receipts' = receipts \cup {row'.audit[Len(row'.audit)]}
  /\ UNCHANGED pending

\* First half of a read-modify-write route: read the row, compute the new
\* aggregate.  `updates' is the set of aggregates the method may return.
Begin(h, actor, updates) ==
  /\ Owned(actor)
  /\ pending[h] = Idle
  /\ \E u \in updates : pending' = [pending EXCEPT ![h] = u]
  /\ UNCHANGED <<row, receipts>>

BeginAttachPlan(h, actor, plan) == Begin(h, actor, AttachPlan(row, plan))

BeginRecordApproval(h, actor, gate_id, subject, status) ==
  Begin(h, actor, AddApprovalGate(row,
    [gate_id |-> gate_id, subject |-> subject, status |-> status, actor |-> actor]))

BeginRecordEvidence(h, actor, evidence) ==
  Begin(h, actor, AddEvidenceRecord(row, evidence))

BeginRecordVerification(h, actor, gate, record) ==
  Begin(h, actor, RecordVerificationGate(row, gate, record))

\* Mutant of Save: the UPDATE does not name the revision.
SaveAnyRevision(h) ==
  /\ pending[h] # Idle /\ row.revision < MaxRevision
  /\ row' = [pending[h] EXCEPT !.revision = row.revision + 1]
  /\ pending' = [pending EXCEPT ![h] = Idle]
  /\ UNCHANGED receipts

\* MissionStore.save: UPDATE ... WHERE revision = expected_revision.  The whole
\* aggregate is overwritten with the one computed from the earlier read.
Save(h) ==
  /\ pending[h] # Idle
  /\ pending[h].revision < MaxRevision
  /\ IF row.revision = pending[h].revision
     THEN row' = [pending[h] EXCEPT !.revision = @ + 1]
     ELSE row' = row
  /\ pending' = [pending EXCEPT ![h] = Idle]
  /\ UNCHANGED receipts

\* The request ends without a write: store_unavailable, or the process dies.
SaveFails(h) ==
  /\ pending[h] # Idle
  /\ pending' = [pending EXCEPT ![h] = Idle]
  /\ UNCHANGED <<row, receipts>>

\* Keys seen so far, and a fresh one.
KnownKeys == IF row = NoMission THEN {} ELSE 1 .. Len(row.audit) + 1

Next ==
  \/ \E a \in Actors : Create(a)
  \/ \E a \in Actors, e \in Events, k \in KnownKeys :
       \E s \in SubjectsFor(e) : SubmitTransition(a, e, k, s)
  \/ \E h \in Handlers, a \in Actors, p \in Plans : BeginAttachPlan(h, a, p)
  \/ \E h \in Handlers, a \in Actors, g \in GateIds, s \in Subjects,
        st \in {"approved", "rejected"} : BeginRecordApproval(h, a, g, s, st)
  \/ \E h \in Handlers, a \in Actors, ev \in Evidence : BeginRecordEvidence(h, a, ev)
  \/ \E h \in Handlers, a \in Actors, g \in VGates, rec \in VerificationGates :
       BeginRecordVerification(h, a, g, rec)
  \/ \E h \in Handlers : Save(h)
  \/ \E h \in Handlers : SaveFails(h)

Spec == Init /\ [][Next]_vars

-----------------------------------------------------------------------------
(* Properties that hold.                                                    *)

\* Type invariant: the tables hold missions and audit records, a handler a mission.
TypeOK ==
  /\ row \in Missions \cup {NoMission}
  /\ receipts \subseteq Audits
  /\ pending \in [Handlers -> Missions \cup {Idle}]

\* "State transitions are deterministic and auditable": the audit trail is one
\* unbroken chain from draft to the current state, and no key occurs in it
\* twice, although saves overwrite the whole aggregate (trail included) with a
\* copy read earlier.
AuditExplainsState ==
  row # NoMission =>
    /\ row.state = IF row.audit = <<>> THEN "draft"
                   ELSE row.audit[Len(row.audit)].to_state
    /\ \A i \in 1 .. Len(row.audit) :
         row.audit[i].from_state = IF i = 1 THEN "draft" ELSE row.audit[i-1].to_state
    /\ \A i, j \in 1 .. Len(row.audit) :
         i < j => /\ row.audit[i].key # row.audit[j].key
                  /\ row.audit[i].to_revision < row.audit[j].to_revision
    /\ \A i \in 1 .. Len(row.audit) : row.audit[i].to_revision <= row.revision

\* The receipts that answer replayed requests are exactly the audit records
\* inside the aggregate: the two tables never tell different histories.
ReceiptsMatchAudit ==
  receipts = IF row = NoMission THEN {}
             ELSE { row.audit[i] : i \in 1 .. Len(row.audit) }

\* What a handler is about to write was computed from a row that is gone (its
\* revision is lower, so the write will be refused) or is the current row with
\* one edit: same owner, life cycle and trail, nothing removed, the plan
\* replaced only where the plan is not locked, and a valid aggregate.
OneEdit(m, u) ==
  /\ u.owner = m.owner /\ u.state = m.state /\ u.revision = m.revision
  /\ u.resume = m.resume /\ u.audit = m.audit
  /\ m.gates \subseteq u.gates /\ m.evidence \subseteq u.evidence
  /\ u.plan = m.plan \/ m.plan = NoPlan \/ m.state \notin PlanLocked

PendingIsOneEdit ==
  \A h \in Handlers : pending[h] # Idle =>
    /\ row # NoMission
    /\ ValidAggregate(pending[h])
    /\ \/ pending[h].revision < row.revision
       \/ OneEdit(row, pending[h])

\* Optimistic concurrency: a write never undoes another one.  Whatever a
\* handler read earlier, the row it writes keeps every approval, evidence
\* record and audit record of the row it replaces, and the revision goes up
\* by exactly one.
NoLostUpdate ==
  [][ row # NoMission =>
        /\ row'.owner = row.owner
        /\ row'.revision = row.revision + 1
        /\ row.gates \subseteq row'.gates
        /\ row.evidence \subseteq row'.evidence
        /\ Len(row.audit) <= Len(row'.audit)
        /\ \A i \in 1 .. Len(row.audit) : row'.audit[i] = row.audit[i] ]_row

\* Terminal states are final for the life cycle, also for a handler that read
\* the mission before it was closed.
TerminalIsFinal ==
  [][ row # NoMission /\ row.state \in Terminal => row'.state = row.state ]_row

\* States that lie behind the plan-approval gate.
Executing == {"running", "needs_decision", "scope_blocked", "verifying",
              "ci_failed", "review_ready", "draft_pr_created", "closed"}

\* The state a mission is in, looking through a pause.
EffectiveState(m) == IF m.state = "paused" THEN m.resume ELSE m.state

\* A mission is in an executing state only if somebody approved a plan and the
\* approval is still on record: some approve_plan transition is in the trail and
\* an approved gate carries its subject.
ExecutionWasApproved ==
  row # NoMission /\ EffectiveState(row) \in Executing =>
    \E i \in 1 .. Len(row.audit) :
       row.audit[i].event = "approve_plan" /\ HasApproval(row, row.audit[i].subject)

\* Every step that needed a decision still stands on an approval of exactly the
\* subject it named, whatever was decided and written afterwards.
GatedStepsStandApproved ==
  row # NoMission =>
    \A i \in 1 .. Len(row.audit) :
      row.audit[i].event \in {"approve_plan", "approve_scope", "create_draft_pr"}
        => HasApproval(row, row.audit[i].subject)

\* "Only human operators may approve": a mission owned by an agent never gets
\* past the plan gate, because nobody else can reach it.
AgentMissionsNeverExecute ==
  row # NoMission /\ row.owner \in Agents => EffectiveState(row) \notin Executing

\* The plan that runs is the plan that was approved, as long as the mission
\* went through no state that leaves the plan unlocked since the approval.
UninterruptedRunIsApproved ==
  row # NoMission =>
    \A i \in 1 .. Len(row.audit) :
      (/\ row.audit[i].event = "approve_plan"
       /\ \A j \in i .. Len(row.audit) : row.audit[j].to_state \in PlanLocked)
      => row.audit[i].subject.plan = row.plan

\* What the capabilities route offers is complete: an event that the transition
\* route would accept in the current state is one of the allowed events.  (The
\* converse fails by design: an offered event may still be refused by its guard.)
AcceptedEventsAreOffered ==
  row # NoMission =>
    \A e \in Events : \A s \in SubjectsFor(e) :
      Targets(row, e, s) # {} => e \in AllowedEvents(row)

\* A subject has at most one decision, and a passed gate rests on recorded,
\* passed, compatible evidence, also with several handlers writing.
DecisionsAndEvidenceSound == row # NoMission => ValidAggregate(row)

-----------------------------------------------------------------------------
(* What the repository's documents say and the code does not ensure.        *)

\* "A Mission cannot enter `running` before plan approval", the approval being
\* bound to "the exact revision": whenever a mission enters running, the plan it
\* has then is approved.
RunningPlanApproved ==
  [][ row # NoMission /\ row.state # "running" /\ row'.state = "running"
        => HasApproval(row', [kind |-> "plan", plan |-> row'.plan]) ]_row

\* "recoverable state | cancel | cancelled | none": a recoverable mission can be
\* cancelled, whatever happened to it before.
CancelAlwaysPossible ==
  row # NoMission /\ row.state \in Recoverable
    => Targets(row, "cancel", NoSubject) # {}
=============================================================================
