------------------------------ MODULE MCStores ------------------------------
(* The stores, for TLC: every one has state of its own and no step in common *)
(* with another, so an instance explores one of them (focus) and keeps the   *)
(* others as they start.  Handlers of one store interleave within its focus. *)
EXTENDS AuditSync, RuntimeLedger, Accounts, Billing, DeltaState,
        LongTermMemory, Lessons, VectorMesh

CONSTANTS m1, m2

VARIABLE focus

\* Both recorders of a task go through the store object of the process.
OneObject == [r \in Recorders |-> "one"]

\* Stripe events that name their tenant, none, or another one, and a retry of
\* an event for another customer.
MCEvents ==
    {[id |-> 1, status |-> "active", customer |-> "c1", metadata |-> "t1"],
     [id |-> 2, status |-> "frozen", customer |-> "c1", metadata |-> "none"],
     [id |-> 3, status |-> "canceled", customer |-> "c1", metadata |-> "t2"],
     [id |-> 3, status |-> "canceled", customer |-> "c2", metadata |-> "t2"]}

\* Ids that peers push: an id that begins another one, and a scanned one.
MCIds == {<<1>>, <<1, m1>>}
MCBatches == {<< <<1, m1>> >>, << <<2, m1>>, <<2, m1>> >>}

\* Episodes that have expired and preferences that have not.
MCKinds == {<<"episodic", TRUE>>, <<"preference", FALSE>>}

StoreNames ==
    {"merkle", "audit", "events", "accounts", "webhooks", "metering", "limiter",
     "deltas", "memory", "retrieval", "lessons", "vectors"}

Init ==
    /\ focus \in StoreNames
    /\ ltmBackend \in IF focus = "memory" THEN Backends ELSE {"sqlite"}
    /\ retLimit \in IF focus = "retrieval" THEN ResultLimits ELSE {CHOOSE n \in ResultLimits : TRUE}
    /\ MerkleInit /\ AuditInit /\ RlInit /\ AcctInit /\ BillInit /\ DsInit
    /\ LtmInit /\ RetInit /\ LessonsInit /\ VmInit


hashes == <<ledgerHashes, auditVars, rlVars>>
money == <<acctVars, billVars>>
memory == <<dsVars, ltmVars, retVars, lsVars, vmVars>>
mcVars == <<focus, hashes, money, memory>>

MerkleStep == focus = "merkle" /\ AddLeaf /\ UNCHANGED <<focus, auditVars, rlVars, money, memory>>
AuditStep == focus = "audit" /\ AuditNext /\ UNCHANGED <<focus, ledgerHashes, rlVars, money, memory>>
EventStep == focus = "events" /\ RlNext /\ UNCHANGED <<focus, ledgerHashes, auditVars, money, memory>>
AccountStep == focus = "accounts" /\ AcctNext /\ UNCHANGED <<focus, hashes, billVars, memory>>
WebhookStep == focus = "webhooks" /\ HookNext /\ UNCHANGED <<focus, hashes, acctVars, memory>>
MeteringStep == focus = "metering" /\ SyncNext /\ UNCHANGED <<focus, hashes, acctVars, memory>>
LimiterStep == focus = "limiter" /\ RateNext /\ UNCHANGED <<focus, hashes, acctVars, memory>>
DeltaStep == focus = "deltas" /\ DsNext /\ UNCHANGED <<focus, hashes, money, ltmVars, retVars, lsVars, vmVars>>
MemoryStep == focus = "memory" /\ LtmNext /\ UNCHANGED <<focus, hashes, money, dsVars, retVars, lsVars, vmVars>>
RetrievalStep == focus = "retrieval" /\ RetNext /\ UNCHANGED <<focus, hashes, money, dsVars, ltmVars, lsVars, vmVars>>
LessonStep == focus = "lessons" /\ LessonsNext /\ UNCHANGED <<focus, hashes, money, dsVars, ltmVars, retVars, vmVars>>
VectorStep == focus = "vectors" /\ VmNext /\ UNCHANGED <<focus, hashes, money, dsVars, ltmVars, retVars, lsVars>>

Next ==
    \/ MerkleStep \/ AuditStep \/ EventStep
    \/ AccountStep \/ WebhookStep \/ MeteringStep \/ LimiterStep
    \/ DeltaStep \/ MemoryStep \/ RetrievalStep \/ LessonStep \/ VectorStep

Spec == Init /\ [][Next]_mcVars
-----------------------------------------------------------------------------
(* Properties that several stores share. *)

\* Every hash chain verifies: the audit chain of every replica, whatever
\* response it merges (process_response) and whenever events of any tenant are
\* recorded, until a merge replaces a row by another one; the event chain of
\* every task, with recorders that interleave.
HashesVerify == AuditTypeOK /\ ChainsVerify /\ EventChainsVerify

\* A history is only extended: an audit ledger loses no row, and a merge
\* (process_response, insert_raw_event) replaces at most rows that it did not
\* list when it compared; the lessons survive every scan and push that does not
\* begin in the middle of another.
HistoriesOnlyGrow == LedgerAppendOnly /\ LessonsOnlyGrow

\* Replication does what it reports: a replica that announces its recovery
\* holds what its provider had, unless a merge has replaced a row; replicas
\* that merged the same deltas have the same state, and a newer vector wins at
\* every node that received it.
ReplicasConverge == RecoveryMeansReplicated /\ SameDeltasSameState /\ VectorsConverge

\* What a store acknowledged can be read back: memories after a change of
\* backend, deltas after a crash and with a damaged mirror; of checkpoints only
\* that one that loads is whole;
\* no cache hides a newer write; a context never holds episodes alone; a Merkle
\* proof handed out for a record proves that record and no other.
ReadsSeeWrites ==
    /\ LtmTypeOK /\ AcknowledgedSurvives /\ AcknowledgedDeltasStay /\ LoadedWasWhole
    /\ CachesAreCurrent /\ CachedRootIsCurrent /\ ContextIsDiverse
    /\ InclusionProofsSound

\* Retries and repeated deliveries count once: usage under one idempotency
\* key, a webhook event, a ledger row reported to the meter, a lesson
\* whose writers did not overlap; no
\* window holds more requests than the limit; usage goes to accounts that are
\* there.
EffectsHappenOnce ==
    /\ AccountTypeOK /\ BilledOnce /\ TokensCoverLedger /\ ActiveAccountExists
    /\ EventsAppliedOnce /\ SyncedWasReported /\ WindowBound
    /\ ScansAndPushesAreNew

\* Nothing crosses from one tenant to another: no Stripe customer belongs to
\* two, a revoked rule keeps vectors apart, and a lesson from outside was
\* signed by a sender that is trusted.
TenantsAreSeparate == CustomersAreExclusive /\ IsolationHolds /\ PushedWereSigned
=============================================================================
