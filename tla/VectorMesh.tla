----------------------------- MODULE VectorMesh -----------------------------
(***************************************************************************)
(* The federated vector memory (core/vector_memory.py), synchronised by    *)
(* sync_vector_memory of core/federated_mesh.py under the fault rules of   *)
(* core/chaos.py.  An entry is an id and a version, named by the timestamp *)
(* of the write; a content hash covers the id and the content, so it names *)
(* the same pair.  The Merkle root of the sorted hashes stands for their   *)
(* set.  Embeddings and similarity decide nothing that is stored.          *)
(***************************************************************************)
EXTENDS Naturals, FiniteSets

CONSTANTS
    VmNodes,
    VmIds,         \* entry ids
    VmUnattested,  \* peers strict attestation refuses
    MaxWrites,     \* bound: versions written
    MaxRules       \* bound: no fault is added to that many rules

ASSUME VectorMeshAssumption ==
    VmUnattested \subseteq VmNodes /\ MaxWrites \in Nat /\ MaxRules \in Nat

VARIABLES
    vmEntries,  \* per node: id -> version, 0 if there is none
    vmRoot,     \* per node: _cached_merkle_root
    vmDirty,    \* per node: _is_dirty
    vmPackets,  \* exported payloads somebody may still deliver
    vmClock,    \* the last timestamp
    vmRules,    \* active chaos rules
    vmSeen,     \* history: per node, the <<id, version>> it stored or was sent
    vmThrough   \* history: the last synchronisation and the rules it passed

vmVars == <<vmEntries, vmRoot, vmDirty, vmPackets, vmClock, vmRules, vmSeen, vmThrough>>

Root(entries) == {<<i, entries[i]>> : i \in {j \in VmIds : entries[j] # 0}}

VmInit ==
    /\ vmEntries = [n \in VmNodes |-> [i \in VmIds |-> 0]]
    /\ vmRoot = [n \in VmNodes |-> {}]
    /\ vmDirty = [n \in VmNodes |-> TRUE]
    /\ vmPackets = {} /\ vmClock = 0 /\ vmRules = {}
    /\ vmSeen = [n \in VmNodes |-> {}]
    /\ vmThrough = << >>
-----------------------------------------------------------------------------
\* compute_merkle_root
Reported(n) == IF vmDirty[n] THEN Root(vmEntries[n]) ELSE vmRoot[n]

\* store and distill_self_healing_pattern; store_vector_memory then asks for the root.
StoreEntry(n, i) ==
    /\ vmClock < MaxWrites
    /\ vmClock' = vmClock + 1
    /\ vmEntries' = [vmEntries EXCEPT ![n][i] = vmClock + 1]
    /\ vmDirty' = [vmDirty EXCEPT ![n] = TRUE]
    /\ vmSeen' = [vmSeen EXCEPT ![n] = @ \cup {<<i, vmClock + 1>>}]
    /\ UNCHANGED <<vmRoot, vmPackets, vmRules, vmThrough>>

\* get_manifest, get_stats and the route that returns the root: all compute it and cache it.
ReadRoot(n) ==
    /\ vmRoot' = [vmRoot EXCEPT ![n] = Reported(n)]
    /\ vmDirty' = [vmDirty EXCEPT ![n] = FALSE]
    /\ UNCHANGED <<vmEntries, vmPackets, vmClock, vmRules, vmSeen, vmThrough>>

\* export_entries, or get_entries_by_ids of what reconcile_delta found missing at m.
ExportEntries(n, m) ==
    /\ Root(vmEntries[n]) # {}
    /\ \E delta \in {{i \in VmIds : vmEntries[n][i] # 0},
                     {i \in VmIds : vmEntries[n][i] \notin {0, vmEntries[m][i]}}} :
         vmPackets' = vmPackets \cup
           {[from |-> n, entries |-> [i \in VmIds |-> IF i \in delta THEN vmEntries[n][i] ELSE 0]]}
    /\ UNCHANGED <<vmEntries, vmRoot, vmDirty, vmClock, vmRules, vmSeen, vmThrough>>
-----------------------------------------------------------------------------
\* Mutant: the first version of an id stays.
NewerNever(mine, theirs) == theirs # 0 /\ mine = 0

\* merge_entries: last write wins; an equal hash changes nothing.
Newer(mine, theirs) == theirs > mine

\* Mutant: an updated entry does not mark the root dirty.
MergeDirtyIfAdded(n, entries) ==
    vmDirty' = [vmDirty EXCEPT ![n] =
        @ \/ \E i \in VmIds : vmEntries[n][i] = 0 /\ entries[i] # 0]

MergeDirty(n, entries) ==
    vmDirty' = [vmDirty EXCEPT ![n] = @ \/ \E i \in VmIds : Newer(vmEntries[n][i], entries[i])]

MergeEntries(n, entries) ==
    /\ vmEntries' = [vmEntries EXCEPT ![n] =
          [i \in VmIds |-> IF Newer(@[i], entries[i]) THEN entries[i] ELSE @[i]]]
    /\ MergeDirty(n, entries)
    /\ vmSeen' = [vmSeen EXCEPT ![n] = @ \cup Root(entries)]

\* Mutant: an isolated node is cut off as a source only.
MatchesSource(rule, source, target) == rule.source = source /\ rule.target \in {"all", target}

\* evaluate_traffic: an empty target list is all; an isolated node is cut off as a target, too.
Matches(rule, source, target) ==
    /\ rule.source = source \/ (rule.type = "isolation" /\ rule.source = target)
    /\ rule.target \in {"all", target}

Blocking(rule, source, target) ==
    rule.type \in {"partition", "isolation", "drop"} /\ Matches(rule, source, target)

\* Packet drops are a matter of chance; the other two have probability 1.
MayPass(source, target) ==
    \A r \in vmRules : Blocking(r, source, target) => r.type = "drop"

\* sync_vector_memory at n with a payload of peer p.from; latency delays, tampering is ignored.
SyncVectorMemory(n, p) ==
    /\ n # p.from
    /\ MayPass(n, p.from)
    /\ p.from \notin VmUnattested
    /\ MergeEntries(n, p.entries)
    /\ vmThrough' = [at |-> n, peer |-> p.from, rules |-> vmRules]
    /\ UNCHANGED <<vmRoot, vmPackets, vmClock, vmRules>>
-----------------------------------------------------------------------------
\* inject_fault, and isolate_node with its empty list of targets.
InjectFault(rule) ==
    /\ Cardinality(vmRules) < MaxRules
    /\ vmRules' = vmRules \cup {rule}
    /\ UNCHANGED <<vmEntries, vmRoot, vmDirty, vmPackets, vmClock, vmSeen, vmThrough>>

\* create_partition: one rule for each direction.
CreatePartition(a, b) ==
    /\ a # b /\ Cardinality(vmRules) < MaxRules
    /\ vmRules' = vmRules \cup {[type |-> "partition", source |-> a, target |-> b],
                                [type |-> "partition", source |-> b, target |-> a]}
    /\ UNCHANGED <<vmEntries, vmRoot, vmDirty, vmPackets, vmClock, vmSeen, vmThrough>>

\* clear_fault, or a rule that has expired and is pruned by list_active_faults.
ClearFault(rule) ==
    /\ vmRules' = vmRules \ {rule}
    /\ UNCHANGED <<vmEntries, vmRoot, vmDirty, vmPackets, vmClock, vmSeen, vmThrough>>

ClearAllFaults ==
    /\ vmRules # {} /\ vmRules' = {}
    /\ UNCHANGED <<vmEntries, vmRoot, vmDirty, vmPackets, vmClock, vmSeen, vmThrough>>

Injected == {[type |-> "isolation", source |-> n, target |-> "all"] : n \in VmNodes}
              \cup {[type |-> "drop", source |-> n, target |-> "all"] : n \in VmNodes}

VmNext ==
    \/ \E n \in VmNodes, i \in VmIds : StoreEntry(n, i)
    \/ \E n \in VmNodes : ReadRoot(n)
    \/ \E n, m \in VmNodes : ExportEntries(n, m) \/ CreatePartition(n, m)
    \/ \E n \in VmNodes, p \in vmPackets : SyncVectorMemory(n, p)
    \/ \E r \in Injected : InjectFault(r)
    \/ \E r \in vmRules : ClearFault(r)
    \/ ClearAllFaults

VmSpec == VmInit /\ [][VmNext]_vmVars
-----------------------------------------------------------------------------
\* Two nodes that were given the same versions hold the same entries and report the same
\* root, in whatever order, how often and from whatever old export the versions came.
VectorsConverge ==
    \A n, m \in VmNodes : vmSeen[n] = vmSeen[m] =>
        vmEntries[n] = vmEntries[m] /\ Reported(n) = Reported(m)

\* A cached Merkle root is the root of the entries it is reported for.
CachedRootIsCurrent == \A n \in VmNodes : ~vmDirty[n] => vmRoot[n] = Root(vmEntries[n])

\* Nothing is synchronised with a node while it is isolated, nor across a partition, whoever
\* starts the exchange and however old the payload is.
IsolationHolds ==
    vmThrough # << >> =>
        /\ \A r \in vmThrough.rules : r.type = "isolation" => r.source \notin {vmThrough.at, vmThrough.peer}
        /\ \A r \in vmThrough.rules :
               r.type = "partition" => {r.source, r.target} # {vmThrough.at, vmThrough.peer}
                   \/ [r EXCEPT !.source = r.target, !.target = r.source] \notin vmThrough.rules
=============================================================================
