------------------------- MODULE MissionStoreProofs -------------------------
(***************************************************************************)
(* Theorems about MissionStore, for any sets of actors, plans, gates,      *)
(* evidence and handlers and any bounds.                                   *)
(***************************************************************************)
EXTENDS MissionStore, TLAPS

-----------------------------------------------------------------------------
(* What the pure updates return.                                           *)

\* A freshly created mission is a well-typed aggregate.
LEMMA NewMissionType ==
  ASSUME NEW a \in Actors
  PROVE  NewMission(a) \in Missions
<1>1. [g \in VGates |-> [status |-> "pending", refs |-> {}]] \in [VGates -> VerificationGates]
  BY DEF VerificationGates
<1>2. "draft" \in States /\ "none" \in States \cup {"none"}
  BY DEF States
<1>3. <<>> \in Seq(Audits)
  OBVIOUS
<1> QED
  BY <1>1, <1>2, <1>3 DEF NewMission, Missions

\* A transition changes the state, the revision, resume and appends one record
\* to the trail; everything else stays.
LEMMA TransitionShape ==
  ASSUME NEW m \in Missions, NEW event \in Events, NEW key \in Nat,
         NEW subject \in Subjects \cup {NoSubject},
         NEW u \in Transition(m, event, key, subject)
  PROVE  /\ u \in Missions
         /\ m.state \notin Terminal
         /\ Len(m.audit) < MaxAudit
         /\ Guard(m, event, subject)
         /\ Target(m, event, u.state)
         /\ u.owner = m.owner /\ u.plan = m.plan /\ u.gates = m.gates
         /\ u.evidence = m.evidence /\ u.vgates = m.vgates
         /\ u.revision = m.revision + 1
         /\ u.resume = IF u.state = "paused" THEN m.state ELSE "none"
         /\ u.audit = Append(m.audit, AuditRecord(m, event, u.state, key, subject))
<1>1. PICK t \in States :
        /\ Len(m.audit) < MaxAudit /\ m.state \notin Terminal
        /\ Target(m, event, t) /\ Guard(m, event, subject)
        /\ u = [m EXCEPT !.state = t,
              !.revision = m.revision + 1,
              !.resume = IF t = "paused" THEN m.state ELSE "none",
              !.audit = Append(m.audit, AuditRecord(m, event, t, key, subject))]
  BY DEF Transition, Targets
<1> DEFINE rec == AuditRecord(m, event, t, key, subject)
<1>2. /\ m.state \in States /\ m.revision \in Nat /\ m.audit \in Seq(Audits)
  BY DEF Missions
<1>3. rec \in Audits
  BY <1>2 DEF Audits, AuditRecord
<1>4. Append(m.audit, rec) \in Seq(Audits)
  BY <1>2, <1>3
<1>5. (IF t = "paused" THEN m.state ELSE "none") \in States \cup {"none"}
  BY <1>2
<1>6. m.revision + 1 \in Nat
  BY <1>2
<1> HIDE DEF rec
<1>7. u = [m EXCEPT !.state = t, !.revision = m.revision + 1,
              !.resume = IF t = "paused" THEN m.state ELSE "none",
              !.audit = Append(m.audit, rec)]
  BY <1>1 DEF rec
<1>8. u \in Missions
  BY <1>2, <1>4, <1>5, <1>6, <1>7 DEF Missions
<1>9. /\ u.state = t /\ u.audit = Append(m.audit, rec) /\ u.revision = m.revision + 1
      /\ u.owner = m.owner /\ u.plan = m.plan /\ u.gates = m.gates
      /\ u.evidence = m.evidence /\ u.vgates = m.vgates
      /\ u.resume = IF t = "paused" THEN m.state ELSE "none"
  BY <1>7 DEF Missions
<1> QED
  BY <1>1, <1>8, <1>9 DEF rec

\* Attaching a plan, if accepted, is one edit of a valid aggregate.
LEMMA AttachPlanShape ==
  ASSUME NEW m \in Missions, NEW p \in Plans, NEW u \in AttachPlan(m, p)
  PROVE  u \in Missions /\ OneEdit(m, u) /\ ValidAggregate(u) /\ u.gates = m.gates
<1>1. /\ u = [m EXCEPT !.plan = p] /\ ValidAggregate(u)
      /\ m.plan # NoPlan => m.state \notin PlanLocked
  BY DEF AttachPlan
<1> QED
  BY <1>1 DEF Missions, OneEdit

\* So is recording a decision; the new gate is the only change and no agent
\* approves.
LEMMA AddApprovalGateShape ==
  ASSUME NEW m \in Missions, NEW gate \in ApprovalGates,
         NEW u \in AddApprovalGate(m, gate)
  PROVE  /\ u \in Missions /\ OneEdit(m, u) /\ ValidAggregate(u)
         /\ u.gates = m.gates \cup {gate}
         /\ gate.status = "approved" => gate.actor \notin Agents
<1>1. /\ u = [m EXCEPT !.gates = m.gates \cup {gate}] /\ ValidAggregate(u)
      /\ gate.status = "approved" => gate.actor \notin Agents
  BY DEF AddApprovalGate
<1>2. m.gates \cup {gate} \in SUBSET ApprovalGates
  BY DEF Missions
<1> QED
  BY <1>1, <1>2 DEF Missions, OneEdit

\* So is recording evidence.
LEMMA AddEvidenceRecordShape ==
  ASSUME NEW m \in Missions, NEW ev \in Evidence, NEW u \in AddEvidenceRecord(m, ev)
  PROVE  u \in Missions /\ OneEdit(m, u) /\ ValidAggregate(u) /\ u.gates = m.gates
<1>1. u = [m EXCEPT !.evidence = m.evidence \cup {ev}] /\ ValidAggregate(u)
  BY DEF AddEvidenceRecord
<1>2. m.evidence \cup {ev} \in SUBSET Evidence
  BY DEF Missions
<1> QED
  BY <1>1, <1>2 DEF Missions, OneEdit

\* So is recording a verification gate.
LEMMA RecordVerificationGateShape ==
  ASSUME NEW m \in Missions, NEW g \in VGates, NEW rec \in VerificationGates,
         NEW u \in RecordVerificationGate(m, g, rec)
  PROVE  u \in Missions /\ OneEdit(m, u) /\ ValidAggregate(u) /\ u.gates = m.gates
<1>1. u = [m EXCEPT !.vgates = [m.vgates EXCEPT ![g] = rec]] /\ ValidAggregate(u)
  BY DEF RecordVerificationGate, Missions
<1>2. [m.vgates EXCEPT ![g] = rec] \in [VGates -> VerificationGates]
  BY DEF Missions
<1> QED
  BY <1>1, <1>2 DEF Missions, OneEdit

\* The last record of the trail after a transition.
LEMMA LastRecord ==
  ASSUME NEW m \in Missions, NEW u \in Missions, NEW rec \in Audits,
         u.audit = Append(m.audit, rec)
  PROVE  /\ Len(u.audit) = Len(m.audit) + 1
         /\ u.audit[Len(u.audit)] = rec
         /\ \A i \in 1 .. Len(m.audit) : u.audit[i] = m.audit[i]
         /\ Len(m.audit) \in Nat
  BY DEF Missions

\* Every record of the trail is typed.
LEMMA RecordType ==
  ASSUME NEW m \in Missions, NEW i \in 1 .. Len(m.audit)
  PROVE  m.audit[i] \in Audits
  BY DEF Missions

\* The subjects and keys that requests carry are typed.
LEMMA RequestTypes ==
  ASSUME TypeOK
  PROVE  /\ \A e \in Events : SubjectsFor(e) \subseteq Subjects \cup {NoSubject}
         /\ KnownKeys \subseteq Nat
<1>1. \A e \in Events : SubjectsFor(e) \subseteq Subjects \cup {NoSubject}
  BY DEF SubjectsFor, Subjects
<1>2. CASE row = NoMission
  BY <1>1, <1>2 DEF KnownKeys
<1>3. CASE row # NoMission
  <2>1. Len(row.audit) \in Nat
    BY <1>3 DEF TypeOK, Missions
  <2> QED
    BY <1>1, <1>3, <2>1 DEF KnownKeys
<1> QED
  BY <1>2, <1>3

\* A save writes the pending aggregate with the next revision.
LEMMA SaveShape ==
  ASSUME NEW m \in Missions, NEW u, u = [m EXCEPT !.revision = @ + 1]
  PROVE  /\ u \in Missions /\ u.revision = m.revision + 1
         /\ u.owner = m.owner /\ u.state = m.state /\ u.plan = m.plan
         /\ u.gates = m.gates /\ u.evidence = m.evidence /\ u.vgates = m.vgates
         /\ u.resume = m.resume /\ u.audit = m.audit
  BY DEF Missions

-----------------------------------------------------------------------------
(* The steps.  A step of the database is one of three kinds: the row appears, *)
(* a transition is appended, or a handler's aggregate is written over the row *)
(* it was computed from.                                                      *)

\* append_transition commits an accepted event.
TransitionStep ==
  /\ row \in Missions
  /\ \E e \in Events, k \in Nat, s \in Subjects \cup {NoSubject} :
       /\ \A r \in receipts : r.key # k
       /\ row' \in Transition(row, e, k, s)
  /\ receipts' = receipts \cup {row'.audit[Len(row'.audit)]}
  /\ pending' = pending

\* A handler computes one edit of the current row.
ReadStep ==
  /\ row \in Missions
  /\ \E h \in Handlers : \E u \in Missions :
       /\ OneEdit(row, u) /\ ValidAggregate(u)
       /\ \/ u.gates = row.gates
          \/ \E gate \in ApprovalGates :
               /\ u.gates = row.gates \cup {gate}
               /\ gate.actor = row.owner
               /\ gate.status = "approved" => gate.actor \notin Agents
       /\ pending' = [pending EXCEPT ![h] = u]
  /\ UNCHANGED <<row, receipts>>

\* A handler writes its aggregate, or gives up.
WriteStep ==
  /\ \E h \in Handlers :
       /\ pending[h] # Idle
       /\ \/ row' = row
          \/ /\ row.revision = pending[h].revision
             /\ row' = [pending[h] EXCEPT !.revision = @ + 1]
       /\ pending' = [pending EXCEPT ![h] = Idle]
  /\ UNCHANGED receipts

\* Every step of the specification is the creation of the row or one of these.
LEMMA StepKinds ==
  ASSUME TypeOK, [Next]_vars
  PROVE  \/ \E a \in Actors : Create(a)
         \/ TransitionStep
         \/ ReadStep
         \/ WriteStep
         \/ UNCHANGED vars
<1>1. ASSUME NEW a \in Actors, NEW e \in Events, NEW k \in KnownKeys,
             NEW s \in SubjectsFor(e), SubmitTransition(a, e, k, s)
      PROVE  TransitionStep
  <2>1. row \in Missions
    BY <1>1 DEF SubmitTransition, Owned, TypeOK
  <2>2. k \in Nat /\ s \in Subjects \cup {NoSubject}
    BY <1>1, RequestTypes
  <2> QED
    BY <1>1, <2>1, <2>2 DEF SubmitTransition, TransitionStep, Unused
<1>2. ASSUME NEW h \in Handlers, NEW a \in Actors, NEW p \in Plans,
             BeginAttachPlan(h, a, p)
      PROVE  ReadStep
  <2>1. row \in Missions
    BY <1>2 DEF BeginAttachPlan, Begin, Owned, TypeOK
  <2>2. PICK u \in AttachPlan(row, p) : pending' = [pending EXCEPT ![h] = u]
    BY <1>2 DEF BeginAttachPlan, Begin
  <2>3. UNCHANGED <<row, receipts>>
    BY <1>2 DEF BeginAttachPlan, Begin
  <2>4. u \in Missions /\ OneEdit(row, u) /\ ValidAggregate(u) /\ u.gates = row.gates
    BY <2>1, <2>2, AttachPlanShape
  <2> QED
    BY <2>1, <2>2, <2>3, <2>4 DEF ReadStep
<1>3. ASSUME NEW h \in Handlers, NEW a \in Actors, NEW g \in GateIds,
             NEW s \in Subjects, NEW st \in {"approved", "rejected"},
             BeginRecordApproval(h, a, g, s, st)
      PROVE  ReadStep
  <2> DEFINE gate == [gate_id |-> g, subject |-> s, status |-> st, actor |-> a]
  <2>1. row \in Missions /\ row.owner = a
    BY <1>3 DEF BeginRecordApproval, Begin, Owned, TypeOK
  <2>2. gate \in ApprovalGates /\ gate.actor = a
    BY DEF ApprovalGates
  <2>3. PICK u \in AddApprovalGate(row, gate) : pending' = [pending EXCEPT ![h] = u]
    BY <1>3 DEF BeginRecordApproval, Begin
  <2>4. UNCHANGED <<row, receipts>>
    BY <1>3 DEF BeginRecordApproval, Begin
  <2> HIDE DEF gate
  <2>5. /\ u \in Missions /\ OneEdit(row, u) /\ ValidAggregate(u)
        /\ u.gates = row.gates \cup {gate}
        /\ gate.status = "approved" => gate.actor \notin Agents
    BY <2>1, <2>2, <2>3, AddApprovalGateShape
  <2> QED
    BY <2>1, <2>2, <2>3, <2>4, <2>5 DEF ReadStep
<1>4. ASSUME NEW h \in Handlers, NEW a \in Actors, NEW ev \in Evidence,
             BeginRecordEvidence(h, a, ev)
      PROVE  ReadStep
  <2>1. row \in Missions
    BY <1>4 DEF BeginRecordEvidence, Begin, Owned, TypeOK
  <2>2. PICK u \in AddEvidenceRecord(row, ev) : pending' = [pending EXCEPT ![h] = u]
    BY <1>4 DEF BeginRecordEvidence, Begin
  <2>3. UNCHANGED <<row, receipts>>
    BY <1>4 DEF BeginRecordEvidence, Begin
  <2>4. u \in Missions /\ OneEdit(row, u) /\ ValidAggregate(u) /\ u.gates = row.gates
    BY <2>1, <2>2, AddEvidenceRecordShape
  <2> QED
    BY <2>1, <2>2, <2>3, <2>4 DEF ReadStep
<1>5. ASSUME NEW h \in Handlers, NEW a \in Actors, NEW g \in VGates,
             NEW rec \in VerificationGates, BeginRecordVerification(h, a, g, rec)
      PROVE  ReadStep
  <2>1. row \in Missions
    BY <1>5 DEF BeginRecordVerification, Begin, Owned, TypeOK
  <2>2. PICK u \in RecordVerificationGate(row, g, rec) :
          pending' = [pending EXCEPT ![h] = u]
    BY <1>5 DEF BeginRecordVerification, Begin
  <2>3. UNCHANGED <<row, receipts>>
    BY <1>5 DEF BeginRecordVerification, Begin
  <2>4. u \in Missions /\ OneEdit(row, u) /\ ValidAggregate(u) /\ u.gates = row.gates
    BY <2>1, <2>2, RecordVerificationGateShape
  <2> QED
    BY <2>1, <2>2, <2>3, <2>4 DEF ReadStep
<1>6. ASSUME NEW h \in Handlers, Save(h) \/ SaveFails(h)
      PROVE  WriteStep
  BY <1>6 DEF Save, SaveFails, WriteStep
<1> QED
  BY <1>1, <1>2, <1>3, <1>4, <1>5, <1>6 DEF Next

-----------------------------------------------------------------------------
(* Type correctness.                                                        *)

\* The row is a mission, receipts are audit records, handlers hold missions:
\* no route ever stores anything else.
THEOREM TypeCorrect == Spec => []TypeOK
<1>1. Init => TypeOK
  BY DEF Init, TypeOK
<1>2. ASSUME TypeOK, [Next]_vars PROVE TypeOK'
  <2>1. ASSUME NEW a \in Actors, Create(a) PROVE TypeOK'
    BY <1>2, <2>1, NewMissionType DEF Create, TypeOK
  <2>2. CASE TransitionStep
    <3>1. PICK e \in Events, k \in Nat, s \in Subjects \cup {NoSubject} :
            row' \in Transition(row, e, k, s)
      BY <2>2 DEF TransitionStep
    <3>2. row \in Missions /\ row' \in Missions
          /\ row'.audit = Append(row.audit, AuditRecord(row, e, row'.state, k, s))
      BY <2>2, <3>1, TransitionShape DEF TransitionStep
    <3>3. row'.audit[Len(row'.audit)] \in Audits
      BY <3>2, RecordType DEF Missions
    <3> QED
      BY <1>2, <2>2, <3>2, <3>3 DEF TransitionStep, TypeOK
  <2>3. CASE ReadStep
    BY <1>2, <2>3 DEF ReadStep, TypeOK
  <2>4. CASE WriteStep
    <3>1. PICK h \in Handlers :
            /\ pending[h] # Idle
            /\ row' = row \/ row' = [pending[h] EXCEPT !.revision = @ + 1]
            /\ pending' = [pending EXCEPT ![h] = Idle]
      BY <2>4 DEF WriteStep
    <3>2. pending[h] \in Missions
      BY <1>2, <3>1 DEF TypeOK
    <3>3. row' \in Missions \cup {NoMission}
      BY <1>2, <3>1, <3>2, SaveShape DEF TypeOK
    <3> QED
      BY <1>2, <2>4, <3>1, <3>3 DEF WriteStep, TypeOK
  <2>5. CASE UNCHANGED vars
    BY <1>2, <2>5 DEF vars, TypeOK
  <2> QED
    BY <1>2, <2>1, <2>2, <2>3, <2>4, <2>5, StepKinds
<1> QED
  BY <1>1, <1>2, PTL DEF Spec

-----------------------------------------------------------------------------
(* Optimistic concurrency.                                                  *)

\* Two facts about a transition's result that several proofs below use.
LEMMA TransitionStepShape ==
  ASSUME TypeOK, TransitionStep
  PROVE  \E e \in Events, k \in Nat, s \in Subjects \cup {NoSubject} :
           /\ \A r \in receipts : r.key # k
           /\ row' \in Missions
           /\ row.state \notin Terminal
           /\ Len(row.audit) < MaxAudit
           /\ Guard(row, e, s)
           /\ Target(row, e, row'.state)
           /\ row'.owner = row.owner /\ row'.plan = row.plan /\ row'.gates = row.gates
           /\ row'.evidence = row.evidence /\ row'.vgates = row.vgates
           /\ row'.revision = row.revision + 1
           /\ row'.resume = IF row'.state = "paused" THEN row.state ELSE "none"
           /\ \E rec \in Audits :
                /\ rec.key = k /\ rec.event = e /\ rec.from_state = row.state
                /\ rec.to_state = row'.state /\ rec.subject = s
                /\ rec.to_revision = row.revision + 1
                /\ row'.audit = Append(row.audit, rec)
                /\ receipts' = receipts \cup {rec}
<1>1. PICK e \in Events, k \in Nat, s \in Subjects \cup {NoSubject} :
        (\A r \in receipts : r.key # k) /\ row' \in Transition(row, e, k, s)
  BY DEF TransitionStep
<1>2. row \in Missions
  BY DEF TransitionStep
<1> DEFINE rec == AuditRecord(row, e, row'.state, k, s)
<1>3. /\ row' \in Missions /\ row.state \notin Terminal
      /\ Len(row.audit) < MaxAudit /\ Guard(row, e, s) /\ Target(row, e, row'.state)
      /\ row'.owner = row.owner /\ row'.plan = row.plan /\ row'.gates = row.gates
      /\ row'.evidence = row.evidence /\ row'.vgates = row.vgates
      /\ row'.revision = row.revision + 1
      /\ row'.resume = IF row'.state = "paused" THEN row.state ELSE "none"
      /\ row'.audit = Append(row.audit, rec)
  BY <1>1, <1>2, TransitionShape
<1>4. row.state \in States /\ row'.state \in States /\ row.revision + 1 \in Nat
  BY <1>2, <1>3 DEF Missions
<1>5. rec \in Audits
  BY <1>4 DEF Audits, AuditRecord
<1>6. /\ rec.key = k /\ rec.event = e /\ rec.from_state = row.state
      /\ rec.to_state = row'.state /\ rec.subject = s
      /\ rec.to_revision = row.revision + 1
  BY DEF AuditRecord
<1> HIDE DEF rec
<1>7. receipts' = receipts \cup {rec}
  <2>1. row'.audit[Len(row'.audit)] = rec
    BY <1>2, <1>3, <1>5, LastRecord
  <2> QED
    BY <2>1 DEF TransitionStep
<1>8. \E r \in Audits :
        /\ r.key = k /\ r.event = e /\ r.from_state = row.state
        /\ r.to_state = row'.state /\ r.subject = s
        /\ r.to_revision = row.revision + 1
        /\ row'.audit = Append(row.audit, r)
        /\ receipts' = receipts \cup {r}
  BY <1>3, <1>5, <1>6, <1>7
<1> QED
  BY <1>1, <1>3, <1>8

\* A write that changes the row replaces the row the aggregate was computed
\* from, by one edit of it.
LEMMA WriteStepShape ==
  ASSUME TypeOK, PendingIsOneEdit, WriteStep, row' # row
  PROVE  \E u \in Missions :
           /\ row \in Missions /\ row' \in Missions
           /\ OneEdit(row, u) /\ ValidAggregate(u)
           /\ \E h \in Handlers : u = pending[h]
           /\ row'.revision = row.revision + 1
           /\ row'.owner = u.owner /\ row'.state = u.state /\ row'.plan = u.plan
           /\ row'.gates = u.gates /\ row'.evidence = u.evidence
           /\ row'.vgates = u.vgates
           /\ row'.resume = u.resume /\ row'.audit = u.audit
<1>1. PICK h \in Handlers :
        /\ pending[h] # Idle
        /\ row.revision = pending[h].revision
        /\ row' = [pending[h] EXCEPT !.revision = @ + 1]
  BY DEF WriteStep
<1>2. pending[h] \in Missions
  BY <1>1 DEF TypeOK
<1>3. row # NoMission /\ ValidAggregate(pending[h])
      /\ (pending[h].revision < row.revision \/ OneEdit(row, pending[h]))
  BY <1>1 DEF PendingIsOneEdit
<1>4. row \in Missions
  BY <1>3 DEF TypeOK
<1>5. OneEdit(row, pending[h])
  BY <1>1, <1>2, <1>3 DEF Missions
<1>6. /\ row' \in Missions /\ row'.revision = row.revision + 1
      /\ row'.owner = pending[h].owner /\ row'.state = pending[h].state
      /\ row'.plan = pending[h].plan
      /\ row'.gates = pending[h].gates /\ row'.evidence = pending[h].evidence
      /\ row'.vgates = pending[h].vgates
      /\ row'.resume = pending[h].resume /\ row'.audit = pending[h].audit
  BY <1>1, <1>2, SaveShape
<1> QED
  BY <1>2, <1>3, <1>4, <1>5, <1>6

\* What a handler is about to write is one edit of the current row or will be
\* refused, whatever the other handlers and transitions did meanwhile.
THEOREM PendingWritesAreCurrentOrRefused == Spec => []PendingIsOneEdit
<1>1. Init => PendingIsOneEdit
  BY DEF Init, PendingIsOneEdit
<1>2. ASSUME TypeOK, PendingIsOneEdit, [Next]_vars PROVE PendingIsOneEdit'
  <2>1. ASSUME NEW a \in Actors, Create(a) PROVE PendingIsOneEdit'
    BY <1>2, <2>1 DEF Create, PendingIsOneEdit
  <2>2. CASE TransitionStep
    <3>1. row' \in Missions /\ row'.revision = row.revision + 1 /\ pending' = pending
          /\ row \in Missions
      BY <1>2, <2>2, TransitionStepShape DEF TransitionStep
    <3> SUFFICES ASSUME NEW h \in Handlers, pending[h] # Idle
                 PROVE  /\ row' # NoMission
                        /\ ValidAggregate(pending[h])
                        /\ pending[h].revision < row'.revision
      BY <3>1 DEF PendingIsOneEdit
    <3>2. pending[h] \in Missions
      BY <1>2 DEF TypeOK
    <3>3. /\ ValidAggregate(pending[h])
          /\ pending[h].revision < row.revision \/ pending[h].revision = row.revision
      BY <1>2 DEF PendingIsOneEdit, OneEdit
    <3>4. pending[h].revision < row'.revision
      BY <3>1, <3>2, <3>3 DEF Missions
    <3> QED
      BY <3>1, <3>3, <3>4, StoreAssumption
  <2>3. CASE ReadStep
    <3>1. PICK h \in Handlers, u \in Missions :
            /\ OneEdit(row, u) /\ ValidAggregate(u)
            /\ pending' = [pending EXCEPT ![h] = u]
      BY <2>3 DEF ReadStep
    <3>2. row' = row /\ row \in Missions
      BY <2>3 DEF ReadStep
    <3> SUFFICES ASSUME NEW i \in Handlers, pending'[i] # Idle
                 PROVE  /\ row # NoMission
                        /\ ValidAggregate(pending'[i])
                        /\ pending'[i].revision < row.revision \/ OneEdit(row, pending'[i])
      BY <3>2 DEF PendingIsOneEdit, OneEdit
    <3>3. CASE i = h
      <4>1. pending'[i] = u
        BY <1>2, <3>1, <3>3 DEF TypeOK
      <4> QED
        BY <3>1, <3>2, <4>1, StoreAssumption
    <3>4. CASE i # h
      <4>1. pending'[i] = pending[i]
        BY <1>2, <3>1, <3>4 DEF TypeOK
      <4> QED
        BY <1>2, <4>1 DEF PendingIsOneEdit
    <3> QED
      BY <3>3, <3>4
  <2>4. CASE WriteStep
    <3>1. PICK h \in Handlers : pending' = [pending EXCEPT ![h] = Idle]
      BY <2>4 DEF WriteStep
    <3>2. ASSUME NEW i \in Handlers, pending'[i] # Idle
          PROVE  i # h /\ pending'[i] = pending[i] /\ pending[i] # Idle
      BY <1>2, <3>1, <3>2 DEF TypeOK
    <3>3. CASE row' = row
      BY <1>2, <3>2, <3>3 DEF PendingIsOneEdit, OneEdit
    <3>4. CASE row' # row
      <4>1. row \in Missions /\ row' \in Missions /\ row'.revision = row.revision + 1
        BY <1>2, <2>4, <3>4, WriteStepShape
      <4>2. ASSUME NEW i \in Handlers, pending'[i] # Idle
            PROVE  /\ row' # NoMission
                   /\ ValidAggregate(pending'[i])
                   /\ pending'[i].revision < row'.revision
        <5>1. pending'[i] = pending[i] /\ pending[i] # Idle
          BY <3>2, <4>2
        <5>2. pending[i] \in Missions
          BY <1>2, <5>1 DEF TypeOK
        <5>3. /\ ValidAggregate(pending[i])
              /\ pending[i].revision < row.revision \/ pending[i].revision = row.revision
          BY <1>2, <5>1 DEF PendingIsOneEdit, OneEdit
        <5>4. pending[i].revision < row'.revision
          BY <4>1, <5>2, <5>3 DEF Missions
        <5> QED
          BY <4>1, <5>1, <5>3, <5>4, StoreAssumption
      <4> QED
        BY <4>2 DEF PendingIsOneEdit
    <3> QED
      BY <3>3, <3>4
  <2>5. CASE UNCHANGED vars
    BY <1>2, <2>5 DEF vars, PendingIsOneEdit, OneEdit
  <2> QED
    BY <1>2, <2>1, <2>2, <2>3, <2>4, <2>5, StepKinds
<1> QED
  BY <1>1, <1>2, TypeCorrect, PTL DEF Spec

\* No write of the database undoes another: decisions, evidence and trail of the
\* replaced row survive and the revision grows by one.
THEOREM WritesAreNeverLost == Spec => NoLostUpdate
<1> DEFINE Kept ==
      row # NoMission =>
        /\ row'.owner = row.owner
        /\ row'.revision = row.revision + 1
        /\ row.gates \subseteq row'.gates
        /\ row.evidence \subseteq row'.evidence
        /\ Len(row.audit) <= Len(row'.audit)
        /\ \A i \in 1 .. Len(row.audit) : row'.audit[i] = row.audit[i]
<1>1. ASSUME TypeOK, PendingIsOneEdit, [Next]_vars PROVE [Kept]_row
  <2> SUFFICES ASSUME row' # row, row # NoMission PROVE Kept
    OBVIOUS
  <2>1. ASSUME NEW a \in Actors, Create(a) PROVE Kept
    BY <2>1 DEF Create
  <2>2. CASE TransitionStep
    <3>1. PICK rec \in Audits : row'.audit = Append(row.audit, rec)
      BY <1>1, <2>2, TransitionStepShape
    <3>2. /\ row \in Missions /\ row' \in Missions
          /\ row'.owner = row.owner /\ row'.revision = row.revision + 1
          /\ row'.gates = row.gates /\ row'.evidence = row.evidence
      BY <1>1, <2>2, TransitionStepShape DEF TransitionStep
    <3>3. /\ Len(row'.audit) = Len(row.audit) + 1 /\ Len(row.audit) \in Nat
          /\ \A i \in 1 .. Len(row.audit) : row'.audit[i] = row.audit[i]
      BY <3>1, <3>2, LastRecord
    <3> QED
      BY <3>2, <3>3
  <2>3. CASE ReadStep
    BY <2>3 DEF ReadStep
  <2>4. CASE WriteStep
    <3>1. /\ row \in Missions
          /\ row'.owner = row.owner /\ row'.revision = row.revision + 1
          /\ row.gates \subseteq row'.gates /\ row.evidence \subseteq row'.evidence
          /\ row'.audit = row.audit
      BY <1>1, <2>4, WriteStepShape DEF OneEdit
    <3>2. Len(row.audit) \in Nat
      BY <3>1 DEF Missions
    <3> QED
      BY <3>1, <3>2
  <2>5. CASE UNCHANGED vars
    BY <2>5 DEF vars
  <2> QED
    BY <1>1, <2>1, <2>2, <2>3, <2>4, <2>5, StepKinds
<1> QED
  BY <1>1, TypeCorrect, PendingWritesAreCurrentOrRefused, PTL DEF Spec, NoLostUpdate

\* Terminal states are final, also for handlers that read the mission before.
THEOREM TerminalStatesAreFinal == Spec => TerminalIsFinal
<1>1. ASSUME TypeOK, PendingIsOneEdit, [Next]_vars
      PROVE  [row # NoMission /\ row.state \in Terminal => row'.state = row.state]_row
  <2> SUFFICES ASSUME row' # row, row # NoMission, row.state \in Terminal
               PROVE  row'.state = row.state
    OBVIOUS
  <2>1. ASSUME NEW a \in Actors, Create(a) PROVE FALSE
    BY <2>1 DEF Create
  <2>2. CASE TransitionStep
    BY <1>1, <2>2, TransitionStepShape
  <2>3. CASE ReadStep
    BY <2>3 DEF ReadStep
  <2>4. CASE WriteStep
    BY <1>1, <2>4, WriteStepShape DEF OneEdit
  <2>5. CASE UNCHANGED vars
    BY <2>5 DEF vars
  <2> QED
    BY <1>1, <2>1, <2>2, <2>3, <2>4, <2>5, StepKinds
<1> QED
  BY <1>1, TypeCorrect, PendingWritesAreCurrentOrRefused, PTL DEF Spec, TerminalIsFinal

\* Every stored aggregate satisfies the model validator.
THEOREM StoredAggregatesAreValid == Spec => []DecisionsAndEvidenceSound
<1>1. Init => DecisionsAndEvidenceSound
  BY DEF Init, DecisionsAndEvidenceSound
<1>2. ASSUME TypeOK, PendingIsOneEdit, DecisionsAndEvidenceSound, [Next]_vars
      PROVE  DecisionsAndEvidenceSound'
  <2>1. ASSUME NEW a \in Actors, Create(a) PROVE DecisionsAndEvidenceSound'
    <3>1. NewMission(a).gates = {} /\ NewMission(a).evidence = {}
          /\ NewMission(a).plan = NoPlan /\ NewMission(a).audit = <<>>
          /\ \A g \in VGates : /\ NewMission(a).vgates[g].refs = {}
                               /\ NewMission(a).vgates[g].status = "pending"
      BY DEF NewMission
    <3>2. ValidAggregate(NewMission(a))
      BY <3>1, MissionAssumption DEF ValidAggregate
    <3> QED
      BY <2>1, <3>2 DEF Create, DecisionsAndEvidenceSound
  <2>2. CASE TransitionStep
    <3>1. PICK rec \in Audits : row'.audit = Append(row.audit, rec)
      BY <1>2, <2>2, TransitionStepShape
    <3>2. /\ row \in Missions /\ row' \in Missions
          /\ Len(row.audit) < MaxAudit
          /\ row'.gates = row.gates /\ row'.evidence = row.evidence
          /\ row'.plan = row.plan /\ row'.vgates = row.vgates
      BY <1>2, <2>2, TransitionStepShape DEF TransitionStep
    <3>3. Len(row'.audit) <= MaxAudit
      BY <3>1, <3>2, LastRecord, MissionAssumption
    <3>4. ValidAggregate(row)
      BY <1>2, <3>2, StoreAssumption DEF DecisionsAndEvidenceSound
    <3>5. ValidAggregate(row')
      BY <3>2, <3>3, <3>4 DEF ValidAggregate, Supports
    <3> QED
      BY <3>5 DEF DecisionsAndEvidenceSound
  <2>3. CASE ReadStep
    BY <1>2, <2>3 DEF ReadStep, DecisionsAndEvidenceSound
  <2>4. CASE WriteStep
    <3>1. CASE row' = row
      BY <1>2, <3>1 DEF DecisionsAndEvidenceSound
    <3>2. CASE row' # row
      <4>1. PICK u \in Missions :
              /\ ValidAggregate(u)
              /\ row'.plan = u.plan /\ row'.gates = u.gates
              /\ row'.evidence = u.evidence /\ row'.vgates = u.vgates
              /\ row'.audit = u.audit
        BY <1>2, <2>4, <3>2, WriteStepShape
      <4>2. ValidAggregate(row')
        BY <4>1 DEF ValidAggregate, Supports
      <4> QED
        BY <4>2 DEF DecisionsAndEvidenceSound
    <3> QED
      BY <3>1, <3>2
  <2>5. CASE UNCHANGED vars
    BY <1>2, <2>5 DEF vars, DecisionsAndEvidenceSound
  <2> QED
    BY <1>2, <2>1, <2>2, <2>3, <2>4, <2>5, StepKinds
<1> QED
  BY <1>1, <1>2, TypeCorrect, PendingWritesAreCurrentOrRefused, PTL DEF Spec

-----------------------------------------------------------------------------
(* The audit trail.                                                         *)

\* The receipts that answer replays are exactly the trail.
THEOREM ReceiptsAreTheTrail == Spec => []ReceiptsMatchAudit
<1>1. Init => ReceiptsMatchAudit
  BY DEF Init, ReceiptsMatchAudit
<1>2. ASSUME TypeOK, PendingIsOneEdit, ReceiptsMatchAudit, [Next]_vars
      PROVE  ReceiptsMatchAudit'
  <2>1. ASSUME NEW a \in Actors, Create(a) PROVE ReceiptsMatchAudit'
    <3>1. NewMission(a).audit = <<>> /\ NewMission(a) # NoMission
      BY NewMissionType, StoreAssumption DEF NewMission
    <3> QED
      BY <1>2, <2>1, <3>1 DEF Create, ReceiptsMatchAudit
  <2>2. CASE TransitionStep
    <3>1. PICK rec \in Audits : /\ row'.audit = Append(row.audit, rec)
                                /\ receipts' = receipts \cup {rec}
      BY <1>2, <2>2, TransitionStepShape
    <3>2. row \in Missions /\ row' \in Missions
      BY <1>2, <2>2, TransitionStepShape DEF TransitionStep
    <3>3. /\ Len(row'.audit) = Len(row.audit) + 1 /\ row'.audit[Len(row'.audit)] = rec
          /\ \A i \in 1 .. Len(row.audit) : row'.audit[i] = row.audit[i]
          /\ Len(row.audit) \in Nat
      BY <3>1, <3>2, LastRecord
    <3>4. receipts = { row.audit[i] : i \in 1 .. Len(row.audit) }
      BY <1>2, <3>2, StoreAssumption DEF ReceiptsMatchAudit
    <3>5. 1 .. Len(row'.audit) = (1 .. Len(row.audit)) \cup {Len(row'.audit)}
      BY <3>3
    <3>6. receipts' = { row'.audit[i] : i \in 1 .. Len(row'.audit) }
      BY <3>1, <3>3, <3>4, <3>5
    <3> QED
      BY <3>2, <3>6, StoreAssumption DEF ReceiptsMatchAudit
  <2>3. CASE ReadStep
    BY <1>2, <2>3 DEF ReadStep, ReceiptsMatchAudit
  <2>4. CASE WriteStep
    <3>1. CASE row' = row
      BY <1>2, <2>4, <3>1 DEF WriteStep, ReceiptsMatchAudit
    <3>2. CASE row' # row
      <4>1. row \in Missions /\ row' \in Missions /\ row'.audit = row.audit
        BY <1>2, <2>4, <3>2, WriteStepShape DEF OneEdit
      <4> QED
        BY <1>2, <2>4, <4>1, StoreAssumption DEF WriteStep, ReceiptsMatchAudit
    <3> QED
      BY <3>1, <3>2
  <2>5. CASE UNCHANGED vars
    BY <1>2, <2>5 DEF vars, ReceiptsMatchAudit
  <2> QED
    BY <1>2, <2>1, <2>2, <2>3, <2>4, <2>5, StepKinds
<1> QED
  BY <1>1, <1>2, TypeCorrect, PendingWritesAreCurrentOrRefused, PTL DEF Spec

\* The trail is one unbroken chain of steps from draft to the current state,
\* with distinct keys and growing revisions.
THEOREM TrailExplainsState == Spec => []AuditExplainsState
<1>1. Init => AuditExplainsState
  BY DEF Init, AuditExplainsState
<1>2. ASSUME TypeOK, PendingIsOneEdit, ReceiptsMatchAudit, AuditExplainsState, [Next]_vars
      PROVE  AuditExplainsState'
  <2>1. ASSUME NEW a \in Actors, Create(a) PROVE AuditExplainsState'
    <3>1. NewMission(a).audit = <<>> /\ NewMission(a).state = "draft"
      BY DEF NewMission
    <3> QED
      BY <2>1, <3>1 DEF Create, AuditExplainsState
  <2>2. CASE TransitionStep
    <3>1. PICK k \in Nat, rec \in Audits :
            /\ \A r \in receipts : r.key # k
            /\ rec.key = k /\ rec.from_state = row.state /\ rec.to_state = row'.state
            /\ rec.to_revision = row.revision + 1
            /\ row'.audit = Append(row.audit, rec)
      BY <1>2, <2>2, TransitionStepShape
    <3>2. row \in Missions /\ row' \in Missions /\ row'.revision = row.revision + 1
      BY <1>2, <2>2, TransitionStepShape DEF TransitionStep
    <3> DEFINE n == Len(row.audit)
    <3>3. /\ Len(row'.audit) = n + 1 /\ row'.audit[n + 1] = rec
          /\ \A i \in 1 .. n : row'.audit[i] = row.audit[i]
          /\ n \in Nat
      BY <3>1, <3>2, LastRecord
    <3>4. \A i \in 1 .. n : row.audit[i].key # k
      BY <1>2, <3>1, <3>2, StoreAssumption DEF ReceiptsMatchAudit
    <3>5. \A i \in 1 .. n : row.audit[i].to_revision \in Nat
      BY <3>2, RecordType DEF Audits
    <3>6. row.revision \in Nat
      BY <3>2 DEF Missions
    <3>7. /\ row.state = IF row.audit = <<>> THEN "draft" ELSE row.audit[n].to_state
          /\ \A i \in 1 .. n :
               row.audit[i].from_state = IF i = 1 THEN "draft" ELSE row.audit[i-1].to_state
          /\ \A i, j \in 1 .. n :
               i < j => /\ row.audit[i].key # row.audit[j].key
                        /\ row.audit[i].to_revision < row.audit[j].to_revision
          /\ \A i \in 1 .. n : row.audit[i].to_revision <= row.revision
      BY <1>2, <3>2, StoreAssumption DEF AuditExplainsState
    <3>8. row.audit = <<>> <=> n = 0
      BY <3>2 DEF Missions
    <3>9. row'.audit # <<>>
      BY <3>2, <3>3 DEF Missions
    <3>a. row'.state = row'.audit[Len(row'.audit)].to_state
      BY <3>1, <3>3
    <3>b. ASSUME NEW i \in 1 .. n + 1
          PROVE  row'.audit[i].from_state = IF i = 1 THEN "draft" ELSE row'.audit[i-1].to_state
      <4>1. CASE i = n + 1
        BY <3>1, <3>3, <3>7, <3>8, <4>1
      <4>2. CASE i # n + 1
        <5>1. i \in 1 .. n /\ (i # 1 => i - 1 \in 1 .. n)
          BY <3>3, <4>2
        <5> QED
          BY <3>3, <3>7, <5>1
      <4> QED
        BY <4>1, <4>2
    <3>c. ASSUME NEW i \in 1 .. n + 1, NEW j \in 1 .. n + 1, i < j
          PROVE  /\ row'.audit[i].key # row'.audit[j].key
                 /\ row'.audit[i].to_revision < row'.audit[j].to_revision
      <4>1. i \in 1 .. n
        BY <3>3, <3>c
      <4>2. CASE j = n + 1
        BY <3>1, <3>3, <3>4, <3>5, <3>6, <3>7, <4>1, <4>2
      <4>3. CASE j # n + 1
        <5>1. j \in 1 .. n
          BY <3>3, <4>3
        <5> QED
          BY <3>3, <3>7, <3>c, <4>1, <5>1
      <4> QED
        BY <4>2, <4>3
    <3>d. ASSUME NEW i \in 1 .. n + 1 PROVE row'.audit[i].to_revision <= row'.revision
      <4>1. CASE i = n + 1
        BY <3>1, <3>2, <3>3, <3>6, <4>1
      <4>2. CASE i # n + 1
        <5>1. i \in 1 .. n
          BY <3>3, <4>2
        <5>2. row'.audit[i] = row.audit[i] /\ row.audit[i].to_revision \in Nat
              /\ row.audit[i].to_revision <= row.revision
          BY <3>3, <3>5, <3>7, <5>1
        <5> QED
          BY <3>2, <3>6, <5>2
      <4> QED
        BY <4>1, <4>2
    <3> HIDE DEF n
    <3> QED
      BY <3>3, <3>9, <3>a, <3>b, <3>c, <3>d DEF AuditExplainsState
  <2>3. CASE ReadStep
    BY <1>2, <2>3 DEF ReadStep, AuditExplainsState
  <2>4. CASE WriteStep
    <3>1. CASE row' = row
      BY <1>2, <3>1 DEF AuditExplainsState
    <3>2. CASE row' # row
      <4>1. /\ row \in Missions /\ row' \in Missions /\ row'.audit = row.audit
            /\ row'.state = row.state /\ row'.revision = row.revision + 1
        BY <1>2, <2>4, <3>2, WriteStepShape DEF OneEdit
      <4>2. \A i \in 1 .. Len(row.audit) : row.audit[i].to_revision \in Nat
        BY <4>1, RecordType DEF Audits
      <4>3. row.revision \in Nat
        BY <4>1 DEF Missions
      <4>4. row # NoMission
        BY <4>1, StoreAssumption
      <4>5. \A i \in 1 .. Len(row.audit) : row.audit[i].to_revision <= row'.revision
        BY <1>2, <4>1, <4>2, <4>3, <4>4 DEF AuditExplainsState
      <4> QED
        BY <1>2, <4>1, <4>4, <4>5 DEF AuditExplainsState
    <3> QED
      BY <3>1, <3>2
  <2>5. CASE UNCHANGED vars
    BY <1>2, <2>5 DEF vars, AuditExplainsState
  <2> QED
    BY <1>2, <2>1, <2>2, <2>3, <2>4, <2>5, StepKinds
<1> QED
  BY <1>1, <1>2, TypeCorrect, PendingWritesAreCurrentOrRefused, ReceiptsAreTheTrail,
     PTL DEF Spec

-----------------------------------------------------------------------------
(* Pause and resume.                                                        *)

\* resume_state is set exactly while the mission is paused, to a state that
\* PAUSE leaves.
ResumeSound ==
  row # NoMission =>
    /\ row.state = "paused" => row.resume \in Recoverable
    /\ row.state # "paused" => row.resume = "none"

\* The inductive fact behind resume: it only ever goes back to the state the
\* pause left.
LEMMA ResumeInvariant == Spec => []ResumeSound
<1>1. Init => ResumeSound
  BY DEF Init, ResumeSound
<1>2. ASSUME TypeOK, PendingIsOneEdit, ResumeSound, [Next]_vars PROVE ResumeSound'
  <2>1. ASSUME NEW a \in Actors, Create(a) PROVE ResumeSound'
    BY <2>1 DEF Create, NewMission, ResumeSound
  <2>2. CASE TransitionStep
    <3>1. PICK e \in Events :
            /\ Target(row, e, row'.state)
            /\ row'.resume = IF row'.state = "paused" THEN row.state ELSE "none"
      BY <1>2, <2>2, TransitionStepShape
    <3>2. row # NoMission
      BY <2>2, StoreAssumption DEF TransitionStep
    <3>3. ASSUME row'.state = "paused" PROVE row.state \in Recoverable
      BY <1>2, <3>1, <3>2, <3>3 DEF Target, Legal, ResumeSound, Recoverable
    <3> QED
      BY <3>1, <3>3 DEF ResumeSound
  <2>3. CASE ReadStep
    BY <1>2, <2>3 DEF ReadStep, ResumeSound
  <2>4. CASE WriteStep
    <3>1. CASE row' = row
      BY <1>2, <3>1 DEF ResumeSound
    <3>2. CASE row' # row
      BY <1>2, <2>4, <3>2, WriteStepShape, StoreAssumption DEF OneEdit, ResumeSound
    <3> QED
      BY <3>1, <3>2
  <2>5. CASE UNCHANGED vars
    BY <1>2, <2>5 DEF vars, ResumeSound
  <2> QED
    BY <1>2, <2>1, <2>2, <2>3, <2>4, <2>5, StepKinds
<1> QED
  BY <1>1, <1>2, TypeCorrect, PendingWritesAreCurrentOrRefused, PTL DEF Spec

\* The capabilities route is complete: whatever the transition route would
\* accept is among the events it offers.
THEOREM CapabilitiesAreComplete == Spec => []AcceptedEventsAreOffered
<1>1. ASSUME TypeOK, ResumeSound PROVE AcceptedEventsAreOffered
  <2> SUFFICES ASSUME row # NoMission, NEW e \in Events, NEW s \in SubjectsFor(e),
                      NEW t \in Targets(row, e, s)
               PROVE  e \in AllowedEvents(row)
    BY DEF AcceptedEventsAreOffered
  <2>1. t \in States /\ Target(row, e, t) /\ Guard(row, e, s)
    BY DEF Targets
  <2>2. CASE e = "resume"
    BY <1>1, <2>1, <2>2 DEF Target, ResumeSound, AllowedEvents
  <2>3. CASE e # "resume"
    BY <2>1, <2>3 DEF Target, Guard, RequireVerification, AllowedEvents
  <2> QED
    BY <2>2, <2>3
<1> QED
  BY <1>1, TypeCorrect, ResumeInvariant, PTL

-----------------------------------------------------------------------------
(* Approvals.                                                               *)

\* Every plan, scope and Draft PR step in the trail stands on an approval of
\* exactly the subject it named.
THEOREM GatedStepsAreApproved == Spec => []GatedStepsStandApproved
<1>1. Init => GatedStepsStandApproved
  BY DEF Init, GatedStepsStandApproved
<1>2. ASSUME TypeOK, PendingIsOneEdit, GatedStepsStandApproved, [Next]_vars
      PROVE  GatedStepsStandApproved'
  <2>1. ASSUME NEW a \in Actors, Create(a) PROVE GatedStepsStandApproved'
    <3>1. NewMission(a).audit = <<>>
      BY DEF NewMission
    <3> QED
      BY <2>1, <3>1 DEF Create, GatedStepsStandApproved
  <2>2. CASE TransitionStep
    <3>1. PICK e \in Events, s \in Subjects \cup {NoSubject}, rec \in Audits :
            /\ Guard(row, e, s)
            /\ rec.event = e /\ rec.subject = s
            /\ row'.audit = Append(row.audit, rec)
      BY <1>2, <2>2, TransitionStepShape
    <3>2. row \in Missions /\ row' \in Missions /\ row'.gates = row.gates
      BY <1>2, <2>2, TransitionStepShape DEF TransitionStep
    <3>3. /\ Len(row'.audit) = Len(row.audit) + 1 /\ row'.audit[Len(row.audit) + 1] = rec
          /\ \A i \in 1 .. Len(row.audit) : row'.audit[i] = row.audit[i]
          /\ Len(row.audit) \in Nat
      BY <3>1, <3>2, LastRecord
    <3> SUFFICES ASSUME NEW i \in 1 .. Len(row.audit) + 1,
                        row'.audit[i].event \in
                          {"approve_plan", "approve_scope", "create_draft_pr"}
                 PROVE  HasApproval(row, row'.audit[i].subject)
      BY <3>2, <3>3 DEF GatedStepsStandApproved, HasApproval
    <3>4. CASE i = Len(row.audit) + 1
      <4>1. row'.audit[i] = rec
        BY <3>3, <3>4
      <4> QED
        BY <3>1, <4>1
        DEF Guard, RequirePlanApproval, RequireScopeDecision, RequireDraftPR
    <3>5. CASE i # Len(row.audit) + 1
      <4>1. i \in 1 .. Len(row.audit)
        BY <3>3, <3>5
      <4> QED
        BY <1>2, <3>2, <3>3, <4>1, StoreAssumption DEF GatedStepsStandApproved
    <3> QED
      BY <3>4, <3>5
  <2>3. CASE ReadStep
    BY <1>2, <2>3 DEF ReadStep, GatedStepsStandApproved, HasApproval
  <2>4. CASE WriteStep
    <3>1. CASE row' = row
      BY <1>2, <3>1 DEF GatedStepsStandApproved, HasApproval
    <3>2. CASE row' # row
      <4>1. row \in Missions /\ row.gates \subseteq row'.gates /\ row'.audit = row.audit
        BY <1>2, <2>4, <3>2, WriteStepShape DEF OneEdit
      <4> QED
        BY <1>2, <4>1, StoreAssumption DEF GatedStepsStandApproved, HasApproval
    <3> QED
      BY <3>1, <3>2
  <2>5. CASE UNCHANGED vars
    BY <1>2, <2>5 DEF vars, GatedStepsStandApproved, HasApproval
  <2> QED
    BY <1>2, <2>1, <2>2, <2>3, <2>4, <2>5, StepKinds
<1> QED
  BY <1>1, <1>2, TypeCorrect, PendingWritesAreCurrentOrRefused, PTL DEF Spec

\* Entering the executing states from outside takes approve_plan; resume goes
\* back to where the pause was.
LEMMA EnteringExecution ==
  ASSUME TypeOK, ResumeSound, row # NoMission, NEW e \in Events, NEW t \in States,
         Target(row, e, t),
         (IF t = "paused" THEN row.state ELSE t) \in Executing,
         EffectiveState(row) \notin Executing
  PROVE  e = "approve_plan"
<1>1. CASE e = "resume"
  BY <1>1 DEF Target, ResumeSound, EffectiveState, Executing, Recoverable
<1>2. CASE e # "resume"
  <2>1. <<row.state, e, t>> \in Legal
    BY <1>2 DEF Target
  <2>2. CASE t = "paused"
    BY <2>1, <2>2 DEF Legal, EffectiveState, Executing, Recoverable
  <2>3. CASE t # "paused" /\ row.state = "paused"
    BY <2>1, <2>3 DEF Legal, Executing, Recoverable
  <2>4. CASE t # "paused" /\ row.state # "paused"
    BY <2>1, <2>4 DEF Legal, EffectiveState, Executing, Recoverable
  <2> QED
    BY <2>2, <2>3, <2>4
<1> QED
  BY <1>1, <1>2

\* An executing mission has an approve_plan step in its trail.
ExecutionInTrail ==
  row # NoMission /\ EffectiveState(row) \in Executing =>
    \E i \in 1 .. Len(row.audit) : row.audit[i].event = "approve_plan"

\* The trail remembers how execution began.
LEMMA ExecutionTrailInvariant == Spec => []ExecutionInTrail
<1>1. Init => ExecutionInTrail
  BY DEF Init, ExecutionInTrail
<1>2. ASSUME TypeOK, PendingIsOneEdit, ResumeSound, ExecutionInTrail, [Next]_vars
      PROVE  ExecutionInTrail'
  <2>1. ASSUME NEW a \in Actors, Create(a) PROVE ExecutionInTrail'
    BY <2>1 DEF Create, NewMission, ExecutionInTrail, EffectiveState, Executing
  <2>2. CASE TransitionStep
    <3>1. PICK e \in Events, rec \in Audits :
            /\ Target(row, e, row'.state)
            /\ rec.event = e
            /\ row'.audit = Append(row.audit, rec)
      BY <1>2, <2>2, TransitionStepShape
    <3>2. /\ row \in Missions /\ row' \in Missions
          /\ row'.resume = IF row'.state = "paused" THEN row.state ELSE "none"
      BY <1>2, <2>2, TransitionStepShape DEF TransitionStep
    <3>3. /\ Len(row'.audit) = Len(row.audit) + 1 /\ row'.audit[Len(row.audit) + 1] = rec
          /\ \A i \in 1 .. Len(row.audit) : row'.audit[i] = row.audit[i]
          /\ Len(row.audit) \in Nat
      BY <3>1, <3>2, LastRecord
    <3>4. row # NoMission /\ row'.state \in States
      BY <3>2, StoreAssumption DEF Missions
    <3> SUFFICES ASSUME EffectiveState(row') \in Executing
                 PROVE  \E i \in 1 .. Len(row.audit) + 1 :
                          row'.audit[i].event = "approve_plan"
      BY <3>3 DEF ExecutionInTrail, EffectiveState
    <3>5. CASE EffectiveState(row) \in Executing
      <4>1. PICK i \in 1 .. Len(row.audit) : row.audit[i].event = "approve_plan"
        BY <1>2, <3>4, <3>5 DEF ExecutionInTrail
      <4>2. i \in 1 .. Len(row.audit) + 1 /\ row'.audit[i] = row.audit[i]
        BY <3>3
      <4> QED
        BY <4>1, <4>2
    <3>6. CASE EffectiveState(row) \notin Executing
      <4>1. (IF row'.state = "paused" THEN row.state ELSE row'.state) \in Executing
        BY <3>2 DEF EffectiveState
      <4>2. e = "approve_plan"
        BY <1>2, <3>1, <3>4, <3>6, <4>1, EnteringExecution
      <4> QED
        BY <3>1, <3>3, <4>2
    <3> QED
      BY <3>5, <3>6
  <2>3. CASE ReadStep
    BY <1>2, <2>3 DEF ReadStep, ExecutionInTrail, EffectiveState
  <2>4. CASE WriteStep
    <3>1. CASE row' = row
      BY <1>2, <3>1 DEF ExecutionInTrail, EffectiveState
    <3>2. CASE row' # row
      <4>1. /\ row \in Missions /\ row'.audit = row.audit
            /\ row'.state = row.state /\ row'.resume = row.resume
        BY <1>2, <2>4, <3>2, WriteStepShape DEF OneEdit
      <4> QED
        BY <1>2, <4>1, StoreAssumption DEF ExecutionInTrail, EffectiveState
    <3> QED
      BY <3>1, <3>2
  <2>5. CASE UNCHANGED vars
    BY <1>2, <2>5 DEF vars, ExecutionInTrail, EffectiveState
  <2> QED
    BY <1>2, <2>1, <2>2, <2>3, <2>4, <2>5, StepKinds
<1> QED
  BY <1>1, <1>2, TypeCorrect, PendingWritesAreCurrentOrRefused, ResumeInvariant,
     PTL DEF Spec

\* A mission executes, or is paused in the middle of executing, only if the plan
\* approval that started it is still on record.
THEOREM ExecutionIsApproved == Spec => []ExecutionWasApproved
<1>1. ExecutionInTrail /\ GatedStepsStandApproved => ExecutionWasApproved
  BY DEF ExecutionInTrail, GatedStepsStandApproved, ExecutionWasApproved
<1> QED
  BY <1>1, ExecutionTrailInvariant, GatedStepsAreApproved, PTL

\* Approved decisions are the owner's, and the owner is no agent then.
OwnersDecide(m) ==
  \A g \in m.gates : g.status = "approved" => g.actor = m.owner /\ g.actor \notin Agents

\* OwnersDecide holds of the row and of everything about to be written.
HumansDecide ==
  /\ row # NoMission => OwnersDecide(row)
  /\ \A h \in Handlers : pending[h] # Idle => OwnersDecide(pending[h])

\* Only the owner reaches a mission, and an agent's approval is refused.
LEMMA HumansDecideInvariant == Spec => []HumansDecide
<1>1. Init => HumansDecide
  BY DEF Init, HumansDecide
<1>2. ASSUME TypeOK, PendingIsOneEdit, HumansDecide, [Next]_vars PROVE HumansDecide'
  <2>1. ASSUME NEW a \in Actors, Create(a) PROVE HumansDecide'
    <3>1. NewMission(a).gates = {}
      BY DEF NewMission
    <3> QED
      BY <1>2, <2>1, <3>1 DEF Create, HumansDecide, OwnersDecide
  <2>2. CASE TransitionStep
    <3>1. row \in Missions /\ row'.gates = row.gates /\ row'.owner = row.owner
          /\ pending' = pending
      BY <1>2, <2>2, TransitionStepShape DEF TransitionStep
    <3> QED
      BY <1>2, <3>1, StoreAssumption DEF HumansDecide, OwnersDecide
  <2>3. CASE ReadStep
    <3>1. PICK h \in Handlers, u \in Missions :
            /\ OneEdit(row, u)
            /\ \/ u.gates = row.gates
               \/ \E gate \in ApprovalGates :
                    /\ u.gates = row.gates \cup {gate}
                    /\ gate.actor = row.owner
                    /\ gate.status = "approved" => gate.actor \notin Agents
            /\ pending' = [pending EXCEPT ![h] = u]
      BY <2>3 DEF ReadStep
    <3>2. row' = row /\ row # NoMission
      BY <2>3, StoreAssumption DEF ReadStep
    <3>3. OwnersDecide(u)
      BY <1>2, <3>1, <3>2 DEF HumansDecide, OwnersDecide, OneEdit
    <3>4. ASSUME NEW i \in Handlers, pending'[i] # Idle PROVE OwnersDecide(pending'[i])
      <4>1. pending'[i] = u \/ pending'[i] = pending[i]
        BY <1>2, <3>1 DEF TypeOK
      <4> QED
        BY <1>2, <3>3, <3>4, <4>1 DEF HumansDecide
    <3> QED
      BY <1>2, <3>2, <3>4 DEF HumansDecide, OwnersDecide
  <2>4. CASE WriteStep
    <3>1. PICK h \in Handlers : pending' = [pending EXCEPT ![h] = Idle]
      BY <2>4 DEF WriteStep
    <3>2. ASSUME NEW i \in Handlers, pending'[i] # Idle PROVE OwnersDecide(pending'[i])
      <4>1. pending'[i] = pending[i]
        BY <1>2, <3>1, <3>2 DEF TypeOK
      <4> QED
        BY <1>2, <3>2, <4>1 DEF HumansDecide
    <3>3. CASE row' = row
      BY <1>2, <3>2, <3>3 DEF HumansDecide, OwnersDecide
    <3>4. CASE row' # row
      <4>1. PICK u \in Missions :
              /\ \E i \in Handlers : u = pending[i]
              /\ row'.owner = u.owner /\ row'.gates = u.gates
        BY <1>2, <2>4, <3>4, WriteStepShape
      <4>2. OwnersDecide(u)
        BY <1>2, <4>1, StoreAssumption DEF HumansDecide
      <4>3. OwnersDecide(row')
        BY <4>1, <4>2 DEF OwnersDecide
      <4> QED
        BY <3>2, <4>3 DEF HumansDecide, OwnersDecide
    <3> QED
      BY <3>3, <3>4
  <2>5. CASE UNCHANGED vars
    BY <1>2, <2>5 DEF vars, HumansDecide, OwnersDecide
  <2> QED
    BY <1>2, <2>1, <2>2, <2>3, <2>4, <2>5, StepKinds
<1> QED
  BY <1>1, <1>2, TypeCorrect, PendingWritesAreCurrentOrRefused, PTL DEF Spec

\* A mission owned by an agent never executes.
THEOREM AgentsNeverExecute == Spec => []AgentMissionsNeverExecute
<1>1. HumansDecide /\ ExecutionWasApproved => AgentMissionsNeverExecute
  BY DEF HumansDecide, OwnersDecide, ExecutionWasApproved, HasApproval,
         AgentMissionsNeverExecute
<1> QED
  BY <1>1, HumansDecideInvariant, ExecutionIsApproved, PTL

\* A plan-approval step names a plan, and as long as every state since then
\* locked the plan, that plan is still attached.
ApprovedPlanAttached ==
  row # NoMission =>
    \A i \in 1 .. Len(row.audit) :
      row.audit[i].event = "approve_plan" =>
        /\ row.audit[i].subject \in PlanSubjects
        /\ (\A j \in i .. Len(row.audit) : row.audit[j].to_state \in PlanLocked)
             => row.audit[i].subject.plan = row.plan

\* The plan that runs is the approved one until the mission passes through a
\* state that leaves the plan unlocked.
THEOREM UninterruptedRunsAreApproved == Spec => []UninterruptedRunIsApproved
<1>1. Init => ApprovedPlanAttached
  BY DEF Init, ApprovedPlanAttached
<1>2. ASSUME TypeOK, PendingIsOneEdit, AuditExplainsState, ApprovedPlanAttached,
             [Next]_vars
      PROVE  ApprovedPlanAttached'
  <2>1. ASSUME NEW a \in Actors, Create(a) PROVE ApprovedPlanAttached'
    <3>1. NewMission(a).audit = <<>>
      BY DEF NewMission
    <3> QED
      BY <2>1, <3>1 DEF Create, ApprovedPlanAttached
  <2>2. CASE TransitionStep
    <3>1. PICK e \in Events, s \in Subjects \cup {NoSubject}, rec \in Audits :
            /\ Guard(row, e, s)
            /\ rec.event = e /\ rec.subject = s
            /\ row'.audit = Append(row.audit, rec)
      BY <1>2, <2>2, TransitionStepShape
    <3>2. row \in Missions /\ row' \in Missions /\ row'.plan = row.plan
      BY <1>2, <2>2, TransitionStepShape DEF TransitionStep
    <3> DEFINE n == Len(row.audit)
    <3>3. /\ Len(row'.audit) = n + 1 /\ row'.audit[n + 1] = rec
          /\ \A i \in 1 .. n : row'.audit[i] = row.audit[i]
          /\ n \in Nat
      BY <3>1, <3>2, LastRecord
    <3>4. row # NoMission
      BY <3>2, StoreAssumption
    <3> SUFFICES ASSUME NEW i \in 1 .. n + 1, row'.audit[i].event = "approve_plan"
                 PROVE  /\ row'.audit[i].subject \in PlanSubjects
                        /\ (\A j \in i .. n + 1 : row'.audit[j].to_state \in PlanLocked)
                             => row'.audit[i].subject.plan = row'.plan
      BY <3>3 DEF ApprovedPlanAttached
    <3>5. CASE i = n + 1
      <4>1. row'.audit[i] = rec
        BY <3>3, <3>5
      <4>2. RequirePlanApproval(row, s)
        BY <3>1, <4>1 DEF Guard
      <4> QED
        BY <3>1, <3>2, <4>1, <4>2 DEF RequirePlanApproval
    <3>6. CASE i # n + 1
      <4>1. i \in 1 .. n /\ row'.audit[i] = row.audit[i]
        BY <3>3, <3>6
      <4>2. ASSUME \A j \in i .. n + 1 : row'.audit[j].to_state \in PlanLocked
            PROVE  \A j \in i .. n : row.audit[j].to_state \in PlanLocked
        <5> SUFFICES ASSUME NEW j \in i .. n PROVE row.audit[j].to_state \in PlanLocked
          OBVIOUS
        <5>1. j \in i .. n + 1 /\ j \in 1 .. n
          BY <3>3, <4>1
        <5> QED
          BY <3>3, <4>2, <5>1
      <4> QED
        BY <1>2, <3>2, <3>4, <4>1, <4>2 DEF ApprovedPlanAttached
    <3> QED
      BY <3>5, <3>6
  <2>3. CASE ReadStep
    BY <1>2, <2>3 DEF ReadStep, ApprovedPlanAttached
  <2>4. CASE WriteStep
    <3>1. CASE row' = row
      BY <1>2, <3>1 DEF ApprovedPlanAttached
    <3>2. CASE row' # row
      <4>1. /\ row \in Missions /\ row'.audit = row.audit
            /\ row'.plan = row.plan \/ row.plan = NoPlan \/ row.state \notin PlanLocked
        BY <1>2, <2>4, <3>2, WriteStepShape DEF OneEdit
      <4>2. row # NoMission /\ Len(row.audit) \in Nat
        BY <4>1, StoreAssumption DEF Missions
      <4> SUFFICES ASSUME NEW i \in 1 .. Len(row.audit),
                          row.audit[i].event = "approve_plan"
                   PROVE  /\ row.audit[i].subject \in PlanSubjects
                          /\ (\A j \in i .. Len(row.audit) :
                                row.audit[j].to_state \in PlanLocked)
                               => row.audit[i].subject.plan = row'.plan
        BY <4>1 DEF ApprovedPlanAttached
      <4>3. /\ row.audit[i].subject \in PlanSubjects
            /\ (\A j \in i .. Len(row.audit) : row.audit[j].to_state \in PlanLocked)
                 => row.audit[i].subject.plan = row.plan
        BY <1>2, <4>2 DEF ApprovedPlanAttached
      <4>4. ASSUME \A j \in i .. Len(row.audit) : row.audit[j].to_state \in PlanLocked
            PROVE  row.audit[i].subject.plan = row'.plan
        <5>1. Len(row.audit) \in i .. Len(row.audit) /\ row.audit # <<>>
          BY <4>2
        <5>2. row.state \in PlanLocked
          BY <1>2, <4>2, <4>4, <5>1 DEF AuditExplainsState
        <5>3. row.audit[i].subject.plan \in Plans
          BY <4>3 DEF PlanSubjects
        <5>4. NoPlan \notin Plans
          BY MissionAssumption DEF NoPlan, Plans
        <5> QED
          BY <4>1, <4>3, <4>4, <5>2, <5>3, <5>4
      <4> QED
        BY <4>3, <4>4
    <3> QED
      BY <3>1, <3>2
  <2>5. CASE UNCHANGED vars
    BY <1>2, <2>5 DEF vars, ApprovedPlanAttached
  <2> QED
    BY <1>2, <2>1, <2>2, <2>3, <2>4, <2>5, StepKinds
<1>3. ApprovedPlanAttached => UninterruptedRunIsApproved
  BY DEF ApprovedPlanAttached, UninterruptedRunIsApproved
<1> QED
  BY <1>1, <1>2, <1>3, TypeCorrect, PendingWritesAreCurrentOrRefused,
     TrailExplainsState, PTL DEF Spec

=============================================================================
