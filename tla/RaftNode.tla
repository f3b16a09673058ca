------------------------------ MODULE RaftNode ------------------------------
(***************************************************************************)
(* One CommitteeRaftNode (core/raft_consensus.py) as a value: its fields,   *)
(* the two RPC handlers and the local parts of an election and a proposal.  *)
(*                                                                          *)
(* The genesis slot 0 of the Python list is left out: log[i] is the entry   *)
(* of index i, and index 0 has term 0.  match_index and leader_id are       *)
(* written and never read by a decision, so they are left out, as are the   *)
(* heartbeat time and the timeouts, which no code reads to start anything.  *)
(***************************************************************************)
EXTENDS Naturals, Sequences, FiniteSets

CONSTANTS
  Nodes,      \* the members of the cluster
  Values,     \* payloads a client may propose
  NoVote      \* voted_for is None

ASSUME RaftNodeAssumption == NoVote \notin Nodes

Roles == {"follower", "candidate", "leader"}

Entries == [term : Nat, value : Values]

RaftNodes ==
  [term : Nat, vote : Nodes \cup {NoVote}, role : Roles, log : Seq(Entries),
   commit : Nat, applied : Nat, machine : Seq(Entries), next : [Nodes -> Nat \ {0}]]

NewNode ==
  [term |-> 0, vote |-> NoVote, role |-> "follower", log |-> <<>>,
   commit |-> 0, applied |-> 0, machine |-> <<>>, next |-> [p \in Nodes |-> 1]]

(* The messages of the two RPCs.                                            *)

VoteRequests ==
  [kind : {"vote"}, term : Nat, candidate : Nodes, lastIndex : Nat, lastTerm : Nat]

AppendRequests ==
  [kind : {"append"}, term : Nat, leader : Nodes, prev : Nat, prevTerm : Nat,
   entries : Seq(Entries), commit : Nat]

VoteReplies == [term : Nat, granted : BOOLEAN]

AppendReplies == [term : Nat, success : BOOLEAN, match : Nat]

Smaller(a, b) == IF a < b THEN a ELSE b
Larger(a, b) == IF a < b THEN b ELSE a

TermAt(log, i) == IF i \in DOMAIN log THEN log[i].term ELSE 0

LastTerm(n) == TermAt(n.log, Len(n.log))

StepDown(n, term) ==
  [n EXCEPT !.term = term, !.role = "follower", !.vote = NoVote]

\* apply_entry is a function of the machine and the entry, so the sequence of
\* applied entries stands for the machine.
ApplyEntries(machine, entries) == machine \o entries

\* An index past the end of the log is skipped, not waited for.
ApplyCommitted(n) ==
  [n EXCEPT
     !.applied = Larger(n.applied, n.commit),
     !.machine = ApplyEntries(n.machine,
                   SubSeq(n.log, n.applied + 1, Smaller(n.commit, Len(n.log))))]

\* Mutant: half of the verified nodes, rounded down.
QuorumHalf(verified, self) == (Cardinality(verified \ {self}) + 1) \div 2

Quorum(verified, self) == ((Cardinality(verified \ {self}) + 1) \div 2) + 1

-----------------------------------------------------------------------------
(* The RPC handlers: the node after the call, and the reply.                *)

VoteReply(n, granted) == [term |-> n.term, granted |-> granted]

\* Mutant: the length of the list without its genesis slot, minus one again.
AppendReplyOffByOne(n, success, match) ==
  [term |-> n.term, success |-> success, match |-> match - 1]

AppendReply(n, success, match) ==
  [term |-> n.term, success |-> success, match |-> match]

\* Mutant: any log will do.
AnyLog(n, args) == TRUE

\* Mutant: the lengths are compared, the last terms are not.
LogAtLeastAsLong(n, args) == args.lastIndex >= Len(n.log)

\* The candidate's log is at least as up to date as the voter's.
LogUpToDate(n, args) ==
  \/ args.lastTerm > LastTerm(n)
  \/ args.lastTerm = LastTerm(n) /\ args.lastIndex >= Len(n.log)

\* Hearing of a later term, the voter steps down into it.
HearCandidate(n, args) ==
  IF args.term > n.term THEN StepDown(n, args.term) ELSE n

HandleRequestVote(n, args, verified) ==
  LET m == HearCandidate(n, args)
      canVote == /\ args.term = m.term
                 /\ m.vote \in {NoVote, args.candidate}
                 /\ LogUpToDate(m, args)
  IN CASE args.candidate \notin verified ->
            [node |-> n, reply |-> VoteReply(n, FALSE)]
       [] args.candidate \in verified /\ ~canVote ->
            [node |-> m, reply |-> VoteReply(m, FALSE)]
       [] OTHER ->
            [node  |-> [m EXCEPT !.vote = args.candidate],
             reply |-> VoteReply(m, TRUE)]

\* Mutant: entries of another term are kept.
MergeKeepsConflicts(log, prev, entries) ==
  log \o SubSeq(entries, Len(log) - prev + 1, Len(entries))

\* Entries already present are kept; the first one of another term cuts the
\* log, and the rest of the message is appended.
Merge(log, prev, entries) ==
  LET conflicts == {i \in 1 .. Len(entries) :
                      prev + i \in DOMAIN log /\ log[prev + i].term # entries[i].term}
      first == CHOOSE i \in conflicts : \A j \in conflicts : i <= j
  IN IF conflicts # {}
     THEN SubSeq(log, 1, prev + first - 1) \o SubSeq(entries, first, Len(entries))
     ELSE log \o SubSeq(entries, Len(log) - prev + 1, Len(entries))

\* Mutant: the commit index follows the leader's, even backwards.
FollowCommit(n, leaderCommit) ==
  ApplyCommitted([n EXCEPT !.commit = Smaller(leaderCommit, Len(n.log))])

AdvanceCommit(n, leaderCommit) ==
  IF leaderCommit > n.commit
  THEN ApplyCommitted([n EXCEPT !.commit = Smaller(leaderCommit, Len(n.log))])
  ELSE n

\* Hearing of a leader of its own term, a candidate or leader steps down too.
HearLeader(n, args) ==
  IF args.term > n.term \/ (args.term = n.term /\ n.role # "follower")
  THEN StepDown(n, args.term) ELSE n

\* The entry before the new ones is of another term: it and what follows go.
CutLog(n, prev) == [n EXCEPT !.log = SubSeq(n.log, 1, prev - 1)]

TakeEntries(n, args) ==
  AdvanceCommit([n EXCEPT !.log = Merge(n.log, args.prev, args.entries)], args.commit)

HandleAppendEntries(n, args, verified) ==
  LET m == HearLeader(n, args)
      cut == CutLog(m, args.prev)
      merged == TakeEntries(m, args)
  IN CASE args.leader \notin verified ->
            [node |-> n, reply |-> AppendReply(n, FALSE, 0)]
       [] args.leader \in verified /\ args.term < m.term ->
            [node |-> m, reply |-> AppendReply(m, FALSE, 0)]
       [] args.leader \in verified /\ args.term = m.term /\ args.prev > Len(m.log) ->
            [node |-> m, reply |-> AppendReply(m, FALSE, Len(m.log))]
       [] args.leader \in verified /\ args.term = m.term /\ args.prev <= Len(m.log)
            /\ TermAt(m.log, args.prev) # args.prevTerm ->
            [node |-> cut, reply |-> AppendReply(cut, FALSE, Len(cut.log))]
       [] OTHER ->
            [node |-> merged, reply |-> AppendReply(merged, TRUE, Len(merged.log))]

-----------------------------------------------------------------------------
(* The caller's side.                                                       *)

BecomeCandidate(n, self) ==
  [n EXCEPT !.term = n.term + 1, !.role = "candidate", !.vote = self]

VoteRequest(n, self) ==
  [kind |-> "vote", term |-> n.term, candidate |-> self,
   lastIndex |-> Len(n.log), lastTerm |-> LastTerm(n)]

\* _become_leader: next_index of every peer, attested or not.
BecomeLeader(n) ==
  [n EXCEPT !.role = "leader", !.next = [p \in Nodes |-> Len(n.log) + 1]]

AppendLocally(n, value) ==
  [n EXCEPT !.log = Append(n.log, [term |-> n.term, value |-> value])]

\* The message for peer p, from the state the node is in when it is built.
AppendRequest(n, self, p) ==
  LET prev == n.next[p] - 1
  IN [kind |-> "append", term |-> n.term, leader |-> self, prev |-> prev,
      prevTerm |-> TermAt(n.log, prev),
      entries |-> SubSeq(n.log, prev + 1, Len(n.log)), commit |-> n.commit]

\* next_index after a reply: past what the peer holds, or one step back.
RecordReply(n, p, reply) ==
  [n EXCEPT !.next[p] = IF reply.success THEN reply.match + 1
                        ELSE Larger(1, n.next[p] - 1)]

CommitAt(n, index) == ApplyCommitted([n EXCEPT !.commit = index])

=============================================================================
