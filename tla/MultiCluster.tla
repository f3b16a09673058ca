---------------------------- MODULE MultiCluster ----------------------------
(***************************************************************************)
(* The cross-region federation of core/mesh_tunnel/multi_cluster_raft.py:  *)
(* one object drives the CommitteeRaftNodes (RaftNode) of every region.    *)
(* Its coroutines await before every peer, and nothing keeps a second one  *)
(* from running then.                                                      *)
(***************************************************************************)
EXTENDS RaftNode

CONSTANTS
    RegionOf,      \* node -> region
    Coroutines,    \* elections and replications in progress at a time
    Unrestricted,  \* TRUE: nodes may be registered after the first election, and inactive
                   \* ones may stand, as the code allows and no caller of it does
    MaxTerms,      \* bound: elections a node starts
    MaxEntries     \* bound: entries

ASSUME MultiClusterAssumption ==
    /\ DOMAIN RegionOf = Nodes /\ Unrestricted \in BOOLEAN
    /\ MaxTerms \in Nat /\ MaxEntries \in Nat

VARIABLES
    mcMembers,  \* registered nodes
    mcActive,   \* those with is_active
    mcNodes,    \* the Raft nodes
    mcLeader,   \* current_cross_cluster_leader, or NoVote
    mcCalls     \* per coroutine: << >>, or its call and the peer it awaits

mcVars == <<mcMembers, mcActive, mcNodes, mcLeader, mcCalls>>

McInit ==
    /\ mcMembers = {} /\ mcActive = {}
    /\ mcNodes = [n \in Nodes |-> NewNode]
    /\ mcLeader = NoVote
    /\ mcCalls = [c \in Coroutines |-> << >>]

RegionsOf(nodes) == {RegionOf[n] : n \in nodes}

\* register_regional_node, between two calls.
RegisterRegionalNode(n) ==
    /\ n \notin mcMembers /\ \A c \in Coroutines : mcCalls[c] = << >>
    /\ Unrestricted \/ \A m \in Nodes : mcNodes[m].term = 0
    /\ mcMembers' = mcMembers \cup {n} /\ mcActive' = mcActive \cup {n}
    /\ UNCHANGED <<mcNodes, mcLeader, mcCalls>>
-----------------------------------------------------------------------------
\* A call awaits before it asks an active peer, and goes on at once when none is left
\* (peer is NoVote): then it keeps the event loop and no other call moves.  A peer that was
\* passed over stays inactive.
Awaiting(call, active) ==
    IF call.todo \cap active = {} THEN {[call EXCEPT !.peer = NoVote]}
    ELSE {[call EXCEPT !.peer = p, !.todo = @ \ {p}] : p \in call.todo \cap active}

Running(c) == mcCalls[c] # << >> /\ mcCalls[c].peer = NoVote
HasLoop(c) == \A d \in Coroutines \ {c} : ~Running(d)

\* elect_cross_cluster_leader up to its first await.
Election(n, entry) ==
    [kind |-> "election", node |-> n, todo |-> mcMembers \ {n}, peer |-> NoVote, acks |-> {n},
     args |-> VoteRequest(BecomeCandidate(mcNodes[n], n), n), index |-> 0, entry |-> entry]

BeginElection(c, n, entry) ==
    /\ mcNodes[n].term < MaxTerms
    /\ mcNodes' = [mcNodes EXCEPT ![n] = BecomeCandidate(@, n)]
    /\ \E call \in Awaiting(Election(n, entry), mcActive) : mcCalls' = [mcCalls EXCEPT ![c] = call]

Elect(c, n) ==
    /\ mcCalls[c] = << >> /\ n \in mcMembers
    /\ Unrestricted \/ n \in mcActive
    /\ BeginElection(c, n, NoVote)
    /\ UNCHANGED <<mcMembers, mcActive, mcLeader>>

\* Mutant: the entry is sent as if it were the first one.
ReplicationStale(n, value) ==
    LET log == AppendLocally(mcNodes[n], value).log
    IN [kind |-> "entry", node |-> n, todo |-> mcMembers \ {n}, peer |-> NoVote, acks |-> {n},
        args |-> [kind |-> "append", term |-> mcNodes[n].term, leader |-> n,
                  prev |-> 0, prevTerm |-> 0,
                  entries |-> <<log[Len(log)]>>, commit |-> mcNodes[n].commit],
        index |-> Len(log), entry |-> value]

\* The first half of replicate_cross_region_entry: append on the leader, whatever its role is.
Replication(n, value) ==
    LET log == AppendLocally(mcNodes[n], value).log
    IN [kind |-> "entry", node |-> n, todo |-> mcMembers \ {n}, peer |-> NoVote, acks |-> {n},
        args |-> [kind |-> "append", term |-> mcNodes[n].term, leader |-> n,
                  prev |-> Len(log) - 1, prevTerm |-> TermAt(log, Len(log) - 1),
                  entries |-> <<log[Len(log)]>>, commit |-> mcNodes[n].commit],
        index |-> Len(log), entry |-> value]

BeginReplication(c, n, value) ==
    /\ Len(mcNodes[n].log) < MaxEntries
    /\ mcNodes' = [mcNodes EXCEPT ![n] = AppendLocally(@, value)]
    /\ \E call \in Awaiting(Replication(n, value), mcActive) : mcCalls' = [mcCalls EXCEPT ![c] = call]

\* replicate_cross_region_entry elects the first active member if there is no leader.
Replicate(c, value) ==
    /\ mcCalls[c] = << >> /\ mcActive # {}
    /\ IF mcLeader = NoVote
       THEN \E n \in mcActive : BeginElection(c, n, value)
       ELSE BeginReplication(c, mcLeader, value)
    /\ UNCHANGED <<mcMembers, mcActive, mcLeader>>

\* The peer is asked after the await, whatever happened to it meanwhile.
AskPeer(c) ==
    LET call == mcCalls[c]
        p == call.peer
        vote == HandleRequestVote(mcNodes[p], call.args, mcMembers)
        append == HandleAppendEntries(mcNodes[p], call.args, mcMembers)
        election == call.kind = "election"
        yes == IF election THEN vote.reply.granted ELSE append.reply.success
        asked == [call EXCEPT !.acks = IF yes THEN @ \cup {p} ELSE @]
    IN /\ call # << >> /\ p # NoVote
       /\ mcNodes' = [mcNodes EXCEPT ![p] = IF election THEN vote.node ELSE append.node]
       /\ \E next \in Awaiting(asked, mcActive) : mcCalls' = [mcCalls EXCEPT ![c] = next]
       /\ UNCHANGED <<mcMembers, mcActive, mcLeader>>
-----------------------------------------------------------------------------
MajorityActive(acks) == Cardinality(acks) > Cardinality(mcActive) \div 2

\* A majority of the active nodes, and two regions if there are two.
Elected(acks) ==
    /\ MajorityActive(acks)
    /\ Cardinality(RegionsOf(acks)) >= Smaller(2, Cardinality(RegionsOf(mcActive)))

\* The candidate's term is not looked at again.  A replication that was waiting goes on with
\* whatever leader there is; without one it ends with a KeyError.
EndElection(c) ==
    LET call == mcCalls[c]
        n == call.node
        won == Elected(call.acks)
    IN /\ Running(c) /\ call.kind = "election"
       /\ mcNodes' = [mcNodes EXCEPT ![n].role = IF won THEN "leader" ELSE "follower"]
       /\ mcLeader' = IF won THEN n ELSE mcLeader
       /\ mcCalls' = [mcCalls EXCEPT ![c] = IF call.entry # NoVote /\ mcLeader' # NoVote
                                             THEN [call EXCEPT !.kind = "elected"] ELSE << >>]
       /\ UNCHANGED <<mcMembers, mcActive>>

ContinueReplication(c) ==
    /\ Running(c) /\ mcCalls[c].kind = "elected"
    /\ BeginReplication(c, mcLeader, mcCalls[c].entry)
    /\ UNCHANGED <<mcMembers, mcActive, mcLeader>>

\* Mutant: followers that are not active are told, too.
ToldAll(n) == mcMembers

Told(n) == mcActive \cup {n}

\* On success the commit index of the leader and of every active follower is set.
EndReplication(c) ==
    LET call == mcCalls[c]
        committed == IF MajorityActive(call.acks) THEN Told(call.node) ELSE {}
    IN /\ Running(c) /\ call.kind = "entry"
       /\ mcNodes' = [n \in Nodes |-> IF n \in committed THEN CommitAt(mcNodes[n], call.index)
                                      ELSE mcNodes[n]]
       /\ mcCalls' = [mcCalls EXCEPT ![c] = << >>]
       /\ UNCHANGED <<mcMembers, mcActive, mcLeader>>

\* handle_regional_partition: the region never comes back.
LoseRegion(c, region) ==
    LET dark == {n \in mcMembers : RegionOf[n] = region}
        left == mcActive \ dark
        stopped == [n \in Nodes |-> IF n \in dark THEN [mcNodes[n] EXCEPT !.role = "follower"]
                                    ELSE mcNodes[n]]
    IN /\ mcCalls[c] = << >> /\ dark # {}
       /\ mcActive' = left
       /\ mcLeader' = IF left = {} THEN NoVote ELSE mcLeader
       /\ IF left # {} /\ mcLeader \in dark
          THEN \E n \in left :
                 /\ mcNodes[n].term < MaxTerms
                 /\ mcNodes' = [stopped EXCEPT ![n] = BecomeCandidate(@, n)]
                 /\ \E call \in Awaiting(Election(n, NoVote), left) : mcCalls' = [mcCalls EXCEPT ![c] = call]
          ELSE mcNodes' = stopped /\ UNCHANGED mcCalls
       /\ UNCHANGED mcMembers

McNext ==
    \/ \E n \in Nodes : RegisterRegionalNode(n)
    \/ \E c \in Coroutines : HasLoop(c) /\
        (\/ \E n \in Nodes : Elect(c, n)
         \/ \E v \in Values : Replicate(c, v)
         \/ AskPeer(c) \/ EndElection(c) \/ ContinueReplication(c) \/ EndReplication(c)
         \/ \E n \in Nodes : LoseRegion(c, RegionOf[n]))

McSpec == McInit /\ [][McNext]_mcVars
-----------------------------------------------------------------------------
\* No two replicas applied different entries at the same position: elections, lost regions
\* and replications in any order keep the state machines of all regions in step.
RegionsApplyTheSame ==
    \A m, n \in Nodes : \A i \in 1 .. Smaller(Len(mcNodes[m].machine), Len(mcNodes[n].machine)) :
        mcNodes[m].machine[i] = mcNodes[n].machine[i]

\* Every entry counted as applied was applied: no index is skipped because the log lacked it.
AppliedWasThere == \A n \in Nodes : Len(mcNodes[n].machine) = mcNodes[n].applied
=============================================================================
