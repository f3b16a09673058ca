------------------------------- MODULE MCRaft -------------------------------
(* Instances of CommitteeRaft for TLC.                                       *)
EXTENDS CommitteeRaft, TLC

\* Everyone has verified everyone.
AllVerified == [n \in Nodes |-> Nodes \ {n}]

\* Every node has verified one peer, around a ring.  In a cluster of three its
\* quorum is already a majority.
Ring ==
  LET next == CHOOSE f \in [Nodes -> Nodes] :
                /\ \A n \in Nodes : f[n] # n
                /\ \A m, n \in Nodes : f[m] = f[n] => m = n
  IN [n \in Nodes |-> {next[n]}]

\* Nobody has verified anybody.
NoneVerified == [n \in Nodes |-> {}]

\* Sound when every node has verified the same peers as any other.
NodeSymmetry == Permutations(Nodes) \cup Permutations(Values) \cup Permutations(Threads)

ThreadSymmetry == Permutations(Threads)
=============================================================================
