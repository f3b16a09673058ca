----------------------------- MODULE AuditSync -----------------------------
(***************************************************************************)
(* The hash-chained audit ledger of every node and the daemon that copies  *)
(* missing records between nodes over the broker's publish/subscribe       *)
(* channels (core/audit_ledger.py).  A record's hash is a number drawn     *)
(* once, its payload is its kind; the row id is its position.  The lock of *)
(* a ledger is held for one call at a time: between two calls of a handler *)
(* of the daemon, tools, bills and routes on other threads record events.  *)
(* Messages may be lost, delayed and reordered (Redis publish/subscribe).  *)
(* Beside them, with state of its own, the Merkle tree over the hashes of  *)
(* a ledger (core/merkle.py) and its inclusion proofs; there SHA-256 is    *)
(* symbolic, a hash is the term it is computed from.                       *)
(***************************************************************************)
EXTENDS Integers, Sequences, FiniteSets, SequencesExt

CONSTANTS
    Replicas,       \* the nodes that run the daemon
    AuditTenants,   \* tenants that record events; DefaultTenant is one of them
    DefaultTenant,  \* the tenant get_logs() asks for when none is named
    MaxRecords,     \* bound: length of a ledger
    MaxInFlight,    \* bound: a status is sent while fewer messages are in flight
    MaxEvents,      \* bound: the application records while fewer records were drawn
    MaxLeaves       \* bound: records a Merkle tree is built over

ASSUME AuditAssumption ==
    /\ DefaultTenant \in AuditTenants
    /\ MaxRecords \in Nat /\ MaxEvents \in Nat /\ MaxInFlight \in Nat
    /\ MaxLeaves \in Nat

VARIABLES
    chain,       \* the audit_ledger table of each node, by row id
    pending,     \* _pending_requests: the peer and local count asked about
    peerStates,  \* the status last concluded about each peer
    auditNet,    \* published and not yet handled messages
    drawn,       \* hashes drawn so far, over all nodes
    daemon,      \* the daemon of each node: the handler it is in, and its locals
    healed,      \* history: recoveries announced, up to which row and from whom
    overwritten, \* history: insert_raw_event has replaced a row by another one
    ledgerHashes \* the hashes of a ledger a Merkle tree is built over, by row id

auditVars == <<chain, pending, peerStates, auditNet, drawn, daemon, healed, overwritten>>

Genesis == 0     \* the hash of no record, "0" * 64

AuditRecords ==
    [kind : {"event", "SOC2_VIOLATION", "CONSENSUS_RECOVERY"},
     tenant : AuditTenants, prev : Nat, hash : Nat]

LastHash(c) == IF c = <<>> THEN Genesis ELSE Last(c).hash

\* The row record_event inserts after the last row of c.
NextRecord(c, kind, tenant) ==
    [kind |-> kind, tenant |-> tenant, prev |-> LastHash(c), hash |-> drawn + 1]

\* record_event: the last hash is read and the row inserted under one lock.
RecordedEvent(c, kind, tenant) == Append(c, NextRecord(c, kind, tenant))

VerifyChainIntegrity(c) ==
    \A i \in 1..Len(c) : c[i].prev = (IF i = 1 THEN Genesis ELSE c[i-1].hash)

Hashes(c) == [i \in 1..Len(c) |-> c[i].hash]

\* In messages the Merkle root stands for the hashes it is computed from; a
\* broken chain reports zeros.
MerkleRoot(c) == IF VerifyChainIntegrity(c) THEN Hashes(c) ELSE <<>>

\* get_logs names no tenant: the default tenant's rows, their number and the
\* hash of the last.
Logs(c) == {i \in 1..Len(c) : c[i].tenant = DefaultTenant}
LogCount(c) == Cardinality(Logs(c))
LastLogHash(c) ==
    IF Logs(c) = {} THEN Genesis ELSE c[CHOOSE i \in Logs(c) : \A j \in Logs(c) : j <= i].hash

GetLogsAfter(c, id) == SubSeq(c, id + 1, Len(c))

\* insert_raw_event: INSERT OR REPLACE at the id the provider uses.
InsertRawEvent(c, id, row) ==
    [i \in 1..(IF id > Len(c) THEN id ELSE Len(c)) |-> IF i = id THEN row ELSE c[i]]

NoHandler == [at |-> "idle"]
-----------------------------------------------------------------------------
AuditInit ==
    /\ chain = [n \in Replicas |-> <<>>]
    /\ pending = [n \in Replicas |-> {}]
    /\ peerStates = [n \in Replicas |-> [p \in Replicas |-> "unknown"]]
    /\ auditNet = {}
    /\ drawn = 0
    /\ daemon = [n \in Replicas |-> NoHandler]
    /\ healed = {}
    /\ overwritten = FALSE

\* A tool call, a policy decision or a bill is recorded on node n, by whichever
\* thread: the lock is held for this call, and the daemon may be in any handler.
RecordEvent(n, tenant) ==
    /\ drawn < MaxEvents
    /\ Len(chain[n]) < MaxRecords
    /\ chain' = [chain EXCEPT ![n] = RecordedEvent(@, "event", tenant)]
    /\ drawn' = drawn + 1
    /\ UNCHANGED <<pending, peerStates, auditNet, daemon, healed, overwritten>>

-----------------------------------------------------------------------------
(* The daemon.  Its handlers run one at a time, on the node's event loop;   *)
(* each call of the ledger in them is a step of its own.                    *)

\* broadcast_status verifies the chain, then lists the logs.
BeginStatus(n) == daemon' = [daemon EXCEPT ![n] = [at |-> "status", root |-> MerkleRoot(chain[n])]]

\* _broadcast_loop, every sync_interval.
BroadcastStatus(n) ==
    /\ daemon[n].at = "idle" /\ Cardinality(auditNet) < MaxInFlight
    /\ BeginStatus(n)
    /\ UNCHANGED <<chain, pending, peerStates, auditNet, drawn, healed, overwritten>>

\* One message per receiver; a node ignores its own.
Pings(n, root) ==
    {[type |-> "sync_ping", to |-> p, from |-> n, root |-> root, count |-> LogCount(chain[n])]
        : p \in Replicas \ {n}}

PublishStatus(n) ==
    /\ daemon[n].at = "status"
    /\ auditNet' = auditNet \cup Pings(n, daemon[n].root)
    /\ daemon' = [daemon EXCEPT ![n] = NoHandler]
    /\ UNCHANGED <<chain, pending, peerStates, drawn, healed, overwritten>>

\* POST /v1/audit/sync: peers are asked for their status, ours is sent.
TriggerManualSync(n) ==
    /\ daemon[n].at = "idle" /\ Cardinality(auditNet) < MaxInFlight
    /\ auditNet' = auditNet \cup {[type |-> "sync_query", to |-> p, from |-> n] : p \in Replicas \ {n}}
    /\ BeginStatus(n)
    /\ UNCHANGED <<chain, pending, peerStates, drawn, healed, overwritten>>

ProcessQuery(m) ==
    /\ m.type = "sync_query" /\ daemon[m.to].at = "idle"
    /\ auditNet' = auditNet \ {m}
    /\ BeginStatus(m.to)
    /\ UNCHANGED <<chain, pending, peerStates, drawn, healed, overwritten>>

\* process_ping: the root is computed first, the logs are counted afterwards.
ProcessPing(m) ==
    /\ m.type = "sync_ping" /\ daemon[m.to].at = "idle"
    /\ auditNet' = auditNet \ {m}
    /\ daemon' = [daemon EXCEPT ![m.to] =
         [at |-> "ping", from |-> m.from, count |-> m.count, peerRoot |-> m.root,
          root |-> MerkleRoot(chain[m.to])]]
    /\ UNCHANGED <<chain, pending, peerStates, drawn, healed, overwritten>>

PeerStatus(n) ==
    LET d == daemon[n]
        count == LogCount(chain[n])
    IN  IF d.count = count /\ d.peerRoot = d.root THEN "synchronized"
        ELSE IF count < d.count THEN "peer_ahead" ELSE "local_ahead"

NotePeer(n) == peerStates' = [peerStates EXCEPT ![n][daemon[n].from] = PeerStatus(n)]

\* The peer is ahead: ask it once for what comes after the local count.
PingAhead(n) ==
    LET p == daemon[n].from
        count == LogCount(chain[n])
        asked == <<p, count>> \in pending[n]
    IN  /\ daemon[n].at = "ping" /\ count < daemon[n].count
        /\ NotePeer(n)
        /\ pending' = [pending EXCEPT ![n] = @ \cup {<<p, count>>}]
        /\ auditNet' = auditNet \cup
             {[type |-> "logs_request", to |-> p, from |-> n, after |-> count]
                 : x \in IF asked THEN {} ELSE {n}}
        /\ daemon' = [daemon EXCEPT ![n] = NoHandler]
        /\ UNCHANGED <<chain, drawn, healed, overwritten>>

\* Same count, different root: a fork, to be recorded as a violation.
PingFork(n) ==
    /\ daemon[n].at = "ping" /\ LogCount(chain[n]) = daemon[n].count
    /\ daemon[n].root # daemon[n].peerRoot
    /\ NotePeer(n)
    /\ daemon' = [daemon EXCEPT ![n] = [at |-> "violation"]]
    /\ UNCHANGED <<chain, pending, auditNet, drawn, healed, overwritten>>

PingQuiet(n) ==
    LET count == LogCount(chain[n])
    IN  /\ daemon[n].at = "ping"
        /\ \/ count > daemon[n].count
           \/ count = daemon[n].count /\ daemon[n].root = daemon[n].peerRoot
        /\ NotePeer(n)
        /\ daemon' = [daemon EXCEPT ![n] = NoHandler]
        /\ UNCHANGED <<chain, pending, auditNet, drawn, healed, overwritten>>

\* The violation that a fork or refused records leave in the local ledger.
RecordViolation(n) ==
    /\ daemon[n].at = "violation"
    /\ Len(chain[n]) < MaxRecords
    /\ chain' = [chain EXCEPT ![n] = RecordedEvent(@, "SOC2_VIOLATION", DefaultTenant)]
    /\ drawn' = drawn + 1
    /\ daemon' = [daemon EXCEPT ![n] = NoHandler]
    /\ UNCHANGED <<pending, peerStates, auditNet, healed, overwritten>>

\* Mutant: the answer goes to the provider's own channel.
ProcessRequestToSelf(m) ==
    /\ m.type = "logs_request" /\ daemon[m.to].at = "idle"
    /\ auditNet' = (auditNet \ {m}) \cup
         {[type |-> "logs_response", to |-> m.to, from |-> m.to,
           id |-> m.after + 1, logs |-> GetLogsAfter(chain[m.to], m.after)]}
    /\ UNCHANGED <<chain, pending, peerStates, drawn, daemon, healed, overwritten>>

\* The answer is never empty: the provider had more rows than the requester.
ProcessRequest(m) ==
    /\ m.type = "logs_request" /\ daemon[m.to].at = "idle"
    /\ auditNet' = (auditNet \ {m}) \cup
         {[type |-> "logs_response", to |-> m.from, from |-> m.to,
           id |-> m.after + 1, logs |-> GetLogsAfter(chain[m.to], m.after)]}
    /\ UNCHANGED <<chain, pending, peerStates, drawn, daemon, healed, overwritten>>

\* Mutant: the link to the last local record is not compared.
ContinuesInside(c, logs) ==
    \A i \in 2..Len(logs) : logs[i].prev = logs[i-1].hash

\* The incoming records continue the last local record and one another.
Continues(c, logs) ==
    \A i \in 1..Len(logs) :
        logs[i].prev = (IF i = 1 THEN LastLogHash(c) ELSE logs[i-1].hash)

\* process_response lists the local logs once and compares with them; records
\* that do not continue them are refused, and the request stays pending.
ProcessResponse(m) ==
    LET n == m.to
    IN  /\ m.type = "logs_response" /\ daemon[n].at = "idle"
        /\ daemon' = [daemon EXCEPT ![n] =
             IF Continues(chain[n], m.logs)
             THEN [at |-> "merge", from |-> m.from, read |-> Logs(chain[n]),
                   id |-> m.id, rest |-> m.logs]
             ELSE [at |-> "violation"]]
        /\ auditNet' = auditNet \ {m}
        /\ UNCHANGED <<chain, pending, peerStates, drawn, healed, overwritten>>

\* One turn of its loop: the next record is inserted, whatever is at its id.
InsertNext(n) ==
    LET d == daemon[n]
    IN  /\ d.at = "merge" /\ d.rest # <<>>
        /\ chain' = [chain EXCEPT ![n] = InsertRawEvent(@, d.id, Head(d.rest))]
        /\ overwritten' = (overwritten \/ (d.id <= Len(chain[n]) /\ chain[n][d.id] # Head(d.rest)))
        /\ daemon' = [daemon EXCEPT ![n] =
             [at |-> "merge", from |-> d.from, read |-> d.read,
              id |-> d.id + 1, rest |-> Tail(d.rest)]]
        /\ UNCHANGED <<pending, peerStates, auditNet, drawn, healed>>

\* Then the request is forgotten and the recovery recorded.
RecordRecovery(n) ==
    LET d == daemon[n]
    IN  /\ d.at = "merge" /\ d.rest = <<>>
        /\ Len(chain[n]) < MaxRecords
        /\ chain' = [chain EXCEPT ![n] = RecordedEvent(@, "CONSENSUS_RECOVERY", DefaultTenant)]
        /\ drawn' = drawn + 1
        /\ pending' = [pending EXCEPT ![n] = @ \ {<<d.from, Cardinality(d.read)>>}]
        /\ healed' = healed \cup {[node |-> n, from |-> d.from, upTo |-> d.id - 1]}
        /\ daemon' = [daemon EXCEPT ![n] = NoHandler]
        /\ UNCHANGED <<peerStates, auditNet, overwritten>>

Deliver(m) == ProcessQuery(m) \/ ProcessPing(m) \/ ProcessRequest(m) \/ ProcessResponse(m)

DaemonStep(n) ==
    \/ BroadcastStatus(n) \/ TriggerManualSync(n) \/ PublishStatus(n)
    \/ PingAhead(n) \/ PingFork(n) \/ PingQuiet(n) \/ RecordViolation(n)
    \/ InsertNext(n) \/ RecordRecovery(n)

\* Publish/subscribe without acknowledgement: a message may reach nobody.
LoseMessage(m) ==
    /\ auditNet' = auditNet \ {m}
    /\ UNCHANGED <<chain, pending, peerStates, drawn, daemon, healed, overwritten>>

AuditNext ==
    \/ \E n \in Replicas, t \in AuditTenants : RecordEvent(n, t)
    \/ \E n \in Replicas : DaemonStep(n)
    \/ \E m \in auditNet : Deliver(m) \/ LoseMessage(m)

AuditSpec == AuditInit /\ [][AuditNext]_auditVars
-----------------------------------------------------------------------------
\* The tables, the requests and the messages are well formed, and a merge
\* leaves no gap in the row ids.
AuditTypeOK ==
    /\ \A n \in Replicas : chain[n] \in Seq(AuditRecords) /\ Len(chain[n]) <= MaxRecords
    /\ \A n \in Replicas : pending[n] \subseteq Replicas \X (0..MaxRecords)
    /\ peerStates \in [Replicas -> [Replicas ->
         {"unknown", "synchronized", "peer_ahead", "local_ahead"}]]
    /\ \A m \in auditNet : m.to \in Replicas /\ m.from \in Replicas \ {m.to}
    /\ \A n \in Replicas : daemon[n].at = "merge" => daemon[n].id \in 1..(Len(chain[n]) + 1)

\* Whatever arrives in whatever order, recording and self-healing leave every
\* ledger a chain that verify_chain_integrity accepts, as long as no merge has
\* replaced a row by another one; rows of any tenant may be in it.
ChainsVerify == overwritten \/ \A n \in Replicas : VerifyChainIntegrity(chain[n])

\* A CONSENSUS_RECOVERY record states that replication completed: up to the
\* last record restored the ledger is then, row by row, the provider's, what
\* was there before included, unless a merge has replaced a row.
RecoveryMeansReplicated ==
    overwritten \/ \A h \in healed : IsPrefix(SubSeq(chain[h.node], 1, h.upTo), chain[h.from])

\* What is left of append-only beside insert_raw_event, which replaces rows at
\* the ids the provider uses: no step removes a row, and none replaces a row of
\* the default tenant that the merge saw when it compared.  A row recorded since
\* then, or one of another tenant, it may replace.
LedgerAppendOnly ==
    [][\A n \in Replicas :
         /\ Len(chain[n]) <= Len(chain'[n])
         /\ \A i \in 1..Len(chain[n]) :
              \/ chain'[n][i] = chain[n][i]
              \/ daemon[n].at = "merge" /\ i \notin daemon[n].read]_chain

\* What the ledger says it is, "immutable": it does not hold, as a merge
\* replaces rows recorded since it compared, and rows of other tenants.
RecordsAreImmutable == [][\A n \in Replicas : IsPrefix(chain[n], chain'[n])]_chain
-----------------------------------------------------------------------------
(* The Merkle tree and its inclusion proofs.                              *)

Hashed(x) == <<"leaf", x>>
Combined(left, right) == <<"node", left, right>>

\* One level up; the last element of an odd level is paired with itself.
ParentLevel(level) ==
    [i \in 1..((Len(level) + 1) \div 2) |->
        Combined(level[2*i - 1], IF 2*i <= Len(level) THEN level[2*i] ELSE level[2*i - 1])]

\* Levels[k] is the k-th level, the leaves being level 0; the root repeats.
TreeLevels(leaves) ==
    LET lev[k \in 0..Len(leaves)] ==
          IF k = 0 THEN [i \in 1..Len(leaves) |-> Hashed(leaves[i])]
          ELSE LET below == lev[k-1]
               IN  IF Len(below) > 1 THEN ParentLevel(below) ELSE below
    IN  lev

\* MerkleTree.root; no leaves have the hash of zeros.
TreeRoot(leaves) ==
    IF leaves = <<>> THEN <<"zeros">> ELSE TreeLevels(leaves)[Len(leaves)][1]

\* Mutant: an odd level's last element has no sibling in the proof.
ProofStepNoSelf(level, i) ==
    IF i % 2 = 1
      THEN [hash |-> IF i + 1 <= Len(level) THEN level[i + 1] ELSE <<"zeros">>, position |-> "right"]
      ELSE [hash |-> level[i - 1], position |-> "left"]

\* The sibling of element i of a level, and its side.
ProofStep(level, i) ==
    IF i % 2 = 1
      THEN [hash |-> IF i + 1 <= Len(level) THEN level[i + 1] ELSE level[i], position |-> "right"]
      ELSE [hash |-> level[i - 1], position |-> "left"]

\* generate_merkle_proof for the record at position i.
MerkleProof(leaves, i) ==
    LET lev == TreeLevels(leaves)
        index[k \in 0..Len(leaves)] == IF k = 0 THEN i ELSE (index[k-1] + 1) \div 2
        inner == {k \in 0..Len(leaves) : Len(lev[k]) > 1}
    IN  [k \in 1..Cardinality(inner) |-> ProofStep(lev[k-1], index[k-1])]

\* verify_merkle_proof.
VerifyMerkleProof(hash, proof, root) ==
    LET up[k \in 0..Len(proof)] ==
          IF k = 0 THEN Hashed(hash)
          ELSE IF proof[k].position = "left" THEN Combined(proof[k].hash, up[k-1])
          ELSE Combined(up[k-1], proof[k].hash)
    IN  up[Len(proof)] = root
-----------------------------------------------------------------------------
MerkleInit == ledgerHashes = <<>>

\* record_event adds a row with a hash that no other row has.
AddLeaf ==
    /\ Len(ledgerHashes) < MaxLeaves
    /\ ledgerHashes' = Append(ledgerHashes, Len(ledgerHashes) + 1)

\* The proof handed out for an event (generate_merkle_proof) verifies against
\* the root that MerkleTree computes, for a ledger of any length and at odd
\* levels too, and it proves no other event of that ledger.
InclusionProofsSound ==
    \A i, j \in 1..Len(ledgerHashes) :
        VerifyMerkleProof(ledgerHashes[j], MerkleProof(ledgerHashes, i), TreeRoot(ledgerHashes)) <=> i = j
=============================================================================
