--------------------------- MODULE CommitteeRaft ---------------------------
(***************************************************************************)
(* A cluster of CommitteeRaftNodes: start_election and propose_entry with   *)
(* the RPCs they make one after the other (core/raft_consensus.py), and the *)
(* attestation that decides who counts (core/federated_mesh.py).            *)
(*                                                                          *)
(* A call of start_election or propose_entry occupies a thread.  It sends   *)
(* to one verified peer at a time and waits: Deliver is what happens at the *)
(* peer, Receive what the caller does with the reply, up to its next        *)
(* request.  What runs between two such points is one step.  With a single  *)
(* thread every call runs to its end before the next starts, as in the      *)
(* in-process cluster of core/cluster_demo.py; with several, the routes of  *)
(* routes/mesh.py run in a thread pool and calls interleave.                *)
(*                                                                          *)
(* Nothing in the code starts an election by itself: no timer reads the     *)
(* heartbeat, so an election is a request like any other.                   *)
(***************************************************************************)
EXTENDS RaftNode

CONSTANTS
  Threads,          \* threads that serve elect and propose requests
  OneCallPerNode,   \* TRUE: a node serves one such request at a time
  InitiallyVerified,\* the peers each node has verified at the start
  MaxTerm,          \* bound of the model: no election beyond this term
  MaxLog,           \* bound of the model: no log grows beyond this length
  NoReply,          \* the RPC failed: the sender gets None
  Idle              \* the thread serves no request

ASSUME ClusterAssumption ==
  /\ IsFiniteSet(Nodes)
  /\ InitiallyVerified \in [Nodes -> SUBSET Nodes]
  /\ OneCallPerNode \in BOOLEAN
  /\ MaxTerm \in Nat /\ MaxLog \in Nat

VARIABLES
  nodes,      \* the state of every node
  verified,   \* per node: the peers whose attestation status is VERIFIED
  calls,      \* per thread: the request in progress, or Idle
  elected     \* history: who became leader in which term

vars == <<nodes, verified, calls, elected>>

Init ==
  /\ nodes = [n \in Nodes |-> NewNode]
  /\ verified = InitiallyVerified
  /\ calls = [t \in Threads |-> Idle]
  /\ elected = {}

Peers(n) == verified[n] \ {n}

\* is_peer_attested_for_raft: the node itself always passes.
Attests(n) == verified[n] \cup {n}

\* verify_attestation_proof succeeds for a proof of p at n.
VerifyAttestation(n, p) ==
  /\ n # p /\ p \notin verified[n]
  /\ verified' = [verified EXCEPT ![n] = @ \cup {p}]
  /\ UNCHANGED <<nodes, calls, elected>>

-----------------------------------------------------------------------------
(* A call in progress: todo are the peers not asked yet, at the peer being  *)
(* asked, request what it is sent; answered says that reply has come; acks  *)
(* are those that granted or acknowledged, the caller included.             *)

Free(n) == OneCallPerNode =>
  \A t \in Threads : calls[t] # Idle => calls[t].node # n

\* The loops of start_election and propose_entry go on to the next peer.  A
\* vote request is built once, an append request anew for each peer.
Ask(call, p, node) ==
  [call EXCEPT !.todo = @ \ {p}, !.at = p, !.answered = FALSE, !.reply = NoReply,
     !.request = IF call.kind = "election" THEN call.request
                 ELSE AppendRequest(node, call.node, p)]

\* When all have been asked the election is lost, the proposal counted.
Finish(call, node) ==
  IF call.kind = "proposal" /\ Cardinality(call.acks) >= call.quorum
  THEN CommitAt(node, call.index) ELSE node

Continue(t, call, node) ==
  IF call.todo = {}
  THEN /\ nodes' = [nodes EXCEPT ![call.node] = Finish(call, node)]
       /\ calls' = [calls EXCEPT ![t] = Idle]
  ELSE /\ nodes' = [nodes EXCEPT ![call.node] = node]
       /\ \E p \in call.todo : calls' = [calls EXCEPT ![t] = Ask(call, p, node)]

NewCall(kind, n, index, request) ==
  [kind |-> kind, node |-> n, index |-> index, quorum |-> Quorum(verified[n], n),
   todo |-> Peers(n), acks |-> {n}, at |-> n, request |-> request,
   answered |-> FALSE, reply |-> NoReply]

\* The node becomes leader when the call has its quorum.
Win(t, n, node) ==
  /\ nodes' = [nodes EXCEPT ![n] = BecomeLeader(node)]
  /\ calls' = [calls EXCEPT ![t] = Idle]
  /\ elected' = elected \cup {<<n, node.term>>}

StartElection(t, n) ==
  LET node == BecomeCandidate(nodes[n], n)
      call == NewCall("election", n, 0, VoteRequest(node, n))
  IN /\ calls[t] = Idle /\ Free(n)
     /\ nodes[n].term < MaxTerm
     /\ UNCHANGED verified
     /\ \/ call.quorum <= 1 /\ Win(t, n, node)
        \/ call.quorum > 1 /\ Continue(t, call, node) /\ UNCHANGED elected

\* propose_entry refuses on a node that is not the leader: no step.
StartProposal(t, n, value) ==
  LET node == AppendLocally(nodes[n], value)
      call == NewCall("proposal", n, Len(node.log), NoReply)
  IN /\ calls[t] = Idle /\ Free(n)
     /\ nodes[n].role = "leader"
     /\ Len(nodes[n].log) < MaxLog
     /\ Continue(t, call, node)
     /\ UNCHANGED <<verified, elected>>

-----------------------------------------------------------------------------
Handle(p, request) ==
  IF request.kind = "vote" THEN HandleRequestVote(nodes[p], request, Attests(p))
  ELSE HandleAppendEntries(nodes[p], request, Attests(p))

\* The answer of a peer whose chaos rule blocks the request: it looks at
\* nothing but its term.
Blocked(p, request) ==
  IF request.kind = "vote" THEN VoteReply(nodes[p], FALSE)
  ELSE AppendReply(nodes[p], FALSE, 0)

Answer(t, reply) ==
  calls' = [calls EXCEPT ![t].answered = TRUE, ![t].reply = reply]

Waiting(t) == calls[t] # Idle /\ ~calls[t].answered

\* The peer handles the request, and its reply arrives or is lost.
DeliverHandled(t) ==
  /\ Waiting(t)
  /\ LET result == Handle(calls[t].at, calls[t].request)
     IN /\ nodes' = [nodes EXCEPT ![calls[t].at] = result.node]
        /\ \E reply \in {result.reply, NoReply} : Answer(t, reply)
  /\ UNCHANGED <<verified, elected>>

\* The request is dropped on the way, or blocked at the peer.
DeliverBlocked(t) ==
  /\ Waiting(t)
  /\ \E reply \in {Blocked(calls[t].at, calls[t].request), NoReply} : Answer(t, reply)
  /\ UNCHANGED <<nodes, verified, elected>>

\* A reply of a later term ends the call.
ReceiveDeposed(t) ==
  LET call == calls[t] IN
  /\ call # Idle /\ call.answered /\ call.reply # NoReply
  /\ call.reply.term > nodes[call.node].term
  /\ nodes' = [nodes EXCEPT ![call.node] = StepDown(@, call.reply.term)]
  /\ calls' = [calls EXCEPT ![t] = Idle]
  /\ UNCHANGED <<verified, elected>>

Current(call) ==
  call.reply # NoReply => call.reply.term <= nodes[call.node].term

\* Mutant: the last vote makes a leader of a node that has stepped down.
ReceiveVoteAnyRole(t) ==
  LET call  == calls[t]
      node  == nodes[call.node]
      granted == call.reply # NoReply /\ call.reply.granted
      votes == call.acks \cup (IF granted THEN {call.at} ELSE {})
      won   == granted /\ Cardinality(votes) >= call.quorum
  IN /\ call # Idle /\ call.kind = "election" /\ call.answered /\ Current(call)
     /\ \/ won /\ Win(t, call.node, node)
        \/ ~won /\ Continue(t, [call EXCEPT !.acks = votes], node) /\ UNCHANGED elected
     /\ UNCHANGED verified

\* The loop body of start_election.  The vote that completes the quorum makes
\* a leader only of a node that is still a candidate; its term is not looked at.
ReceiveVote(t) ==
  LET call  == calls[t]
      node  == nodes[call.node]
      granted == call.reply # NoReply /\ call.reply.granted
      votes == call.acks \cup (IF granted THEN {call.at} ELSE {})
      won   == granted /\ Cardinality(votes) >= call.quorum /\ node.role = "candidate"
  IN /\ call # Idle /\ call.kind = "election" /\ call.answered /\ Current(call)
     /\ \/ won /\ Win(t, call.node, node)
        \/ ~won /\ Continue(t, [call EXCEPT !.acks = votes], node) /\ UNCHANGED elected
     /\ UNCHANGED verified

\* The loop body of propose_entry.
ReceiveAppend(t) ==
  LET call == calls[t]
      node == nodes[call.node]
  IN /\ call # Idle /\ call.kind = "proposal" /\ call.answered /\ Current(call)
     /\ \/ call.reply = NoReply /\ Continue(t, call, node)
        \/ /\ call.reply # NoReply
           /\ Continue(t, [call EXCEPT !.acks = @ \cup (IF call.reply.success THEN {call.at} ELSE {})],
                       RecordReply(node, call.at, call.reply))
     /\ UNCHANGED <<verified, elected>>

Next ==
  \/ \E n, p \in Nodes : VerifyAttestation(n, p)
  \/ \E t \in Threads, n \in Nodes : StartElection(t, n)
  \/ \E t \in Threads, n \in Nodes, v \in Values : StartProposal(t, n, v)
  \/ \E t \in Threads :
       \/ DeliverHandled(t)
       \/ DeliverBlocked(t)
       \/ ReceiveDeposed(t)
       \/ ReceiveVote(t)
       \/ ReceiveAppend(t)

Spec == Init /\ [][Next]_vars

-----------------------------------------------------------------------------
(* Properties.                                                              *)

ElectionCalls ==
  [kind : {"election"}, node : Nodes, index : Nat, quorum : Nat, todo : SUBSET Nodes,
   acks : SUBSET Nodes, at : Nodes, request : VoteRequests, answered : BOOLEAN,
   reply : VoteReplies \cup {NoReply}]

ProposalCalls ==
  [kind : {"proposal"}, node : Nodes, index : Nat, quorum : Nat, todo : SUBSET Nodes,
   acks : SUBSET Nodes, at : Nodes, request : AppendRequests, answered : BOOLEAN,
   reply : AppendReplies \cup {NoReply}]

\* Type invariant: every node, call and record of a leader is well formed; an
\* election only ever sees votes and a proposal only ever sees append replies.
TypeOK ==
  /\ nodes \in [Nodes -> RaftNodes]
  /\ verified \in [Nodes -> SUBSET Nodes]
  /\ calls \in [Threads -> ElectionCalls \cup ProposalCalls \cup {Idle}]
  /\ elected \subseteq Nodes \X Nat

\* Two nodes never win the election of the same term (start_election): votes
\* of interleaved and failed rounds are never counted for two of them.
ElectionSafety ==
  \A a, b \in elected : a[2] = b[2] => a[1] = b[1]

\* An entry of the same index and term in two logs is the same entry after
\* the same prefix, whatever was truncated on the way (handle_append_entries).
LogMatching ==
  \A a, b \in Nodes : \A i \in DOMAIN nodes[a].log \cap DOMAIN nodes[b].log :
    nodes[a].log[i].term = nodes[b].log[i].term =>
      SubSeq(nodes[a].log, 1, i) = SubSeq(nodes[b].log, 1, i)

IsPrefixOf(s, u) == Len(s) <= Len(u) /\ s = SubSeq(u, 1, Len(s))

\* The state machines of two nodes have applied the same entries in the same
\* order, one perhaps fewer than the other (_apply_committed_entries).
StateMachineSafety ==
  \A a, b \in Nodes : \/ IsPrefixOf(nodes[a].machine, nodes[b].machine)
                      \/ IsPrefixOf(nodes[b].machine, nodes[a].machine)

\* A leader has every entry that a node of its term or of an earlier one has
\* applied: the vote of handle_request_vote keeps out a shorter log.
LeaderCompleteness ==
  \A l, n \in Nodes :
    nodes[l].role = "leader" /\ nodes[n].term <= nodes[l].term =>
      IsPrefixOf(nodes[n].machine, nodes[l].log)

\* What a node has applied stays in the logs of a majority (propose_entry
\* counts acknowledgements, later truncations never undo them).
AppliedIsReplicated ==
  \A n \in Nodes :
    2 * Cardinality({m \in Nodes : IsPrefixOf(nodes[n].machine, nodes[m].log)})
      > Cardinality(Nodes)

\* Together: committed work is where the next leader will find it, in the log
\* of every leader to come and in the logs of a majority.
CommittedIsReplicated == LeaderCompleteness /\ AppliedIsReplicated

\* No step takes back a commit: the commit index never decreases, and the
\* committed entries of a log are neither truncated nor overwritten.
CommitsAreFinal ==
  [][\A n \in Nodes :
       /\ nodes'[n].commit >= nodes[n].commit
       /\ IsPrefixOf(SubSeq(nodes[n].log, 1, nodes[n].commit), nodes'[n].log)]_vars

=============================================================================
