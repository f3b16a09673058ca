------------------------ MODULE CommitteeRaftProofs ------------------------
(***************************************************************************)
(* Proofs about the committee Raft.  Types hold for every interleaving.    *)
(* The rest holds when the nodes serve one request at a time and every     *)
(* quorum is a majority of all nodes; the invariant IInv relates the nodes *)
(* to the elections won so far, to each other's logs and to the votes and  *)
(* acknowledgements that the call in progress has counted.                 *)
(***************************************************************************)
EXTENDS CommitteeRaft, FiniteSetTheorems, SequenceTheorems, TLAPS

-----------------------------------------------------------------------------
(* What the operators of RaftNode compute, for every log and message: the   *)
(* handlers keep nodes well formed, and a merge of a leader's entries gives *)
(* either the follower's log or the leader's.                               *)

\* A set of indices has a smallest one: the conflict Merge cuts at exists.
LEMMA SmallestIndex ==
  ASSUME NEW S \in SUBSET Nat, S # {}
  PROVE  \E x \in S : \A y \in S : x <= y
<1>1. PICK x \in S : \A y \in S : ~(<<y, x>> \in OpToRel(<, Nat))
  BY NatLessThanWellFounded, WFMin
<1>2. \A y \in S : ~(y < x)
  BY <1>1 DEF OpToRel
<1> QED BY <1>2

\* Sequences by their elements: a slice.
LEMMA SliceElements ==
  ASSUME NEW S, NEW s \in Seq(S), NEW m \in Nat \ {0}, NEW n \in Int, n <= Len(s)
  PROVE  /\ SubSeq(s, m, n) \in Seq(S)
         /\ Len(SubSeq(s, m, n)) = IF n < m THEN 0 ELSE n - m + 1
         /\ \A i \in 1 .. Len(SubSeq(s, m, n)) : SubSeq(s, m, n)[i] = s[m + i - 1]
BY SubSeqProperties

\* Two sequences joined, element by element.
LEMMA JoinElements ==
  ASSUME NEW S, NEW s \in Seq(S), NEW u \in Seq(S)
  PROVE  /\ s \o u \in Seq(S)
         /\ Len(s \o u) = Len(s) + Len(u)
         /\ \A i \in 1 .. Len(s) : (s \o u)[i] = s[i]
         /\ \A i \in Len(s) + 1 .. Len(s) + Len(u) : (s \o u)[i] = u[i - Len(s)]
BY ConcatProperties

\* s is a prefix of u, element by element.
Pre(s, u) == Len(s) <= Len(u) /\ \A i \in 1 .. Len(s) : s[i] = u[i]

\* The indices at which Merge finds an entry of another term.
Conflicts(log, prev, entries) ==
  {i \in 1 .. Len(entries) : prev + i \in DOMAIN log /\ log[prev + i].term # entries[i].term}

\* Merge cuts the log at the first conflict; without one it appends what is new.
LEMMA MergeCases ==
  ASSUME NEW log \in Seq(Entries), NEW entries \in Seq(Entries), NEW prev \in Nat
  PROVE  \/ /\ Conflicts(log, prev, entries) = {}
            /\ Merge(log, prev, entries)
                 = log \o SubSeq(entries, Len(log) - prev + 1, Len(entries))
         \/ \E first \in Conflicts(log, prev, entries) :
              /\ \A j \in Conflicts(log, prev, entries) : first <= j
              /\ Merge(log, prev, entries)
                   = SubSeq(log, 1, prev + first - 1) \o SubSeq(entries, first, Len(entries))
<1> DEFINE C == Conflicts(log, prev, entries)
<1> DEFINE f == CHOOSE i \in C : \A j \in C : i <= j
<1>1. C \in SUBSET Nat
  BY DEF Conflicts
<1>2. CASE C = {}
  BY <1>2 DEF Conflicts, Merge
<1>3. CASE C # {}
  <2>1. \E x \in C : \A y \in C : x <= y
    BY <1>1, <1>3, SmallestIndex
  <2>2. f \in C /\ \A j \in C : f <= j
    BY <2>1
  <2>3. Merge(log, prev, entries)
          = SubSeq(log, 1, prev + f - 1) \o SubSeq(entries, f, Len(entries))
    BY <1>3 DEF Conflicts, Merge
  <2> QED BY <2>2, <2>3
<1> QED BY <1>2, <1>3

\* The merged log is a log (handle_append_entries, after the prefix check).
LEMMA MergeType ==
  ASSUME NEW log \in Seq(Entries), NEW entries \in Seq(Entries), NEW prev \in Nat,
         prev <= Len(log)
  PROVE  Merge(log, prev, entries) \in Seq(Entries)
<1>1. CASE Merge(log, prev, entries)
             = log \o SubSeq(entries, Len(log) - prev + 1, Len(entries))
  <2>1. SubSeq(entries, Len(log) - prev + 1, Len(entries)) \in Seq(Entries)
    BY SliceElements
  <2> QED BY <1>1, <2>1, JoinElements
<1>2. ASSUME NEW f \in Conflicts(log, prev, entries),
             Merge(log, prev, entries)
               = SubSeq(log, 1, prev + f - 1) \o SubSeq(entries, f, Len(entries))
      PROVE  Merge(log, prev, entries) \in Seq(Entries)
  <2>1. f \in 1 .. Len(entries) /\ prev + f <= Len(log)
    BY <1>2 DEF Conflicts
  <2>2. SubSeq(log, 1, prev + f - 1) \in Seq(Entries)
    BY <2>1, SliceElements
  <2>3. SubSeq(entries, f, Len(entries)) \in Seq(Entries)
    BY <2>1, SliceElements
  <2> QED BY <1>2, <2>2, <2>3, JoinElements
<1> QED BY <1>1, <1>2, MergeCases

\* A sequence is its first k elements and the rest.
LEMMA JoinRest ==
  ASSUME NEW S, NEW L \in Seq(S), NEW A \in Seq(S), NEW B \in Seq(S),
         Len(A) <= Len(L), Len(B) = Len(L) - Len(A),
         \A i \in 1 .. Len(A) : A[i] = L[i],
         \A i \in 1 .. Len(B) : B[i] = L[Len(A) + i]
  PROVE  A \o B = L
<1>1. /\ A \o B \in Seq(S) /\ Len(A \o B) = Len(L)
      /\ \A i \in 1 .. Len(A) : (A \o B)[i] = A[i]
      /\ \A i \in Len(A) + 1 .. Len(A) + Len(B) : (A \o B)[i] = B[i - Len(A)]
  BY JoinElements
<1>2. ASSUME NEW i \in Len(A) + 1 .. Len(L)
      PROVE  (A \o B)[i] = L[i]
  <2>1. i - Len(A) \in 1 .. Len(B) /\ Len(A) + (i - Len(A)) = i
    OBVIOUS
  <2> QED BY <2>1, <1>1
<1>3. \A i \in 1 .. Len(L) : (A \o B)[i] = L[i]
  BY <1>1, <1>2
<1> QED BY <1>1, <1>3, SeqEqual

\* What follows the first prev elements of a sequence.
LEMMA RestElements ==
  ASSUME NEW S, NEW L \in Seq(S), NEW prev \in Nat, prev <= Len(L)
  PROVE  /\ SubSeq(L, prev + 1, Len(L)) \in Seq(S)
         /\ Len(SubSeq(L, prev + 1, Len(L))) = Len(L) - prev
         /\ \A i \in 1 .. Len(L) - prev : SubSeq(L, prev + 1, Len(L))[i] = L[prev + i]
<1> DEFINE E == SubSeq(L, prev + 1, Len(L))
<1>1. /\ E \in Seq(S) /\ Len(E) = IF Len(L) < prev + 1 THEN 0 ELSE Len(L) - (prev + 1) + 1
      /\ \A i \in 1 .. Len(E) : E[i] = L[prev + 1 + i - 1]
  BY SliceElements
<1> HIDE DEF E
<1>2. /\ E \in Seq(S) /\ Len(E) = Len(L) - prev
      /\ \A i \in 1 .. Len(L) - prev : E[i] = L[prev + i]
  BY <1>1
<1> QED BY <1>2 DEF E

\* The rest of such a rest.
LEMMA RestOfRest ==
  ASSUME NEW S, NEW L \in Seq(S), NEW prev \in Nat, prev <= Len(L),
         NEW E \in Seq(S), Len(E) = Len(L) - prev,
         \A i \in 1 .. Len(L) - prev : E[i] = L[prev + i],
         NEW m \in Nat \ {0}
  PROVE  /\ SubSeq(E, m, Len(E)) \in Seq(S)
         /\ Len(SubSeq(E, m, Len(E))) = IF Len(E) < m THEN 0 ELSE Len(E) - m + 1
         /\ \A i \in 1 .. Len(SubSeq(E, m, Len(E))) :
              SubSeq(E, m, Len(E))[i] = L[prev + m - 1 + i]
<1> DEFINE B == SubSeq(E, m, Len(E))
<1>1. /\ B \in Seq(S) /\ Len(B) = IF Len(E) < m THEN 0 ELSE Len(E) - m + 1
      /\ \A i \in 1 .. Len(B) : B[i] = E[m + i - 1]
  BY SliceElements
<1> HIDE DEF B
<1>2. ASSUME NEW i \in 1 .. Len(B)
      PROVE  B[i] = L[prev + m - 1 + i]
  <2>1. m + i - 1 \in 1 .. Len(L) - prev /\ prev + (m + i - 1) = prev + m - 1 + i
    BY <1>1
  <2> QED BY <2>1, <1>1
<1> QED BY <1>1, <1>2 DEF B

\* Two logs agree wherever their terms do.
Agreeing(log, L) ==
  \A i \in 1 .. Len(log) : i <= Len(L) /\ log[i].term = L[i].term =>
    \A j \in 1 .. i : log[j] = L[j]

\* Below a bound without conflict the two logs are the same.
LEMMA NoConflictBelow ==
  ASSUME NEW log \in Seq(Entries), NEW L \in Seq(Entries), NEW prev \in Nat, NEW b \in Nat,
         b <= Len(log), b <= Len(L), prev <= Len(log), prev <= Len(L),
         prev > 0 => log[prev].term = L[prev].term,
         Agreeing(log, L),
         \A i \in 1 .. Len(L) - prev : prev + i <= b =>
           i \notin Conflicts(log, prev, SubSeq(L, prev + 1, Len(L)))
  PROVE  \A j \in 1 .. b : log[j] = L[j]
<1> DEFINE E == SubSeq(L, prev + 1, Len(L))
<1>1. Len(E) = Len(L) - prev /\ \A i \in 1 .. Len(E) : E[i] = L[prev + i]
  BY RestElements
<1> HIDE DEF E
<1>2. ASSUME b > prev
      PROVE  log[b].term = L[b].term
  <2>1. b - prev \in 1 .. Len(E) /\ prev + (b - prev) = b /\ b \in DOMAIN log
    BY <1>1, <1>2
  <2>2. b - prev \notin Conflicts(log, prev, E)
    BY <2>1, <1>1 DEF E
  <2>3. log[b].term = E[b - prev].term
    BY <2>1, <2>2 DEF Conflicts
  <2> QED BY <2>1, <2>3, <1>1
<1>3. CASE b > prev
  BY <1>2, <1>3 DEF Agreeing
<1>4. CASE b <= prev
  BY <1>4 DEF Agreeing
<1> QED BY <1>3, <1>4

\* When two logs agree wherever their terms do, merging the rest of one of
\* them (L, the leader's) into the other gives one of the two, and L is a
\* prefix of it: no third log ever arises from handle_append_entries.
LEMMA MergeOfLeaderLog ==
  ASSUME NEW log \in Seq(Entries), NEW L \in Seq(Entries), NEW prev \in Nat,
         prev <= Len(log), prev <= Len(L),
         prev > 0 => log[prev].term = L[prev].term,
         Agreeing(log, L)
  PROVE  LET M == Merge(log, prev, SubSeq(L, prev + 1, Len(L)))
         IN M \in {log, L} /\ Pre(L, M)
<1> DEFINE E == SubSeq(L, prev + 1, Len(L))
<1> DEFINE M == Merge(log, prev, E)
<1>1. /\ E \in Seq(Entries) /\ Len(E) = Len(L) - prev
      /\ \A i \in 1 .. Len(L) - prev : E[i] = L[prev + i]
  BY RestElements
<1>5. \/ Conflicts(log, prev, E) = {} /\ M = log \o SubSeq(E, Len(log) - prev + 1, Len(E))
      \/ \E first \in Conflicts(log, prev, E) :
            /\ \A j \in Conflicts(log, prev, E) : first <= j
            /\ M = SubSeq(log, 1, prev + first - 1) \o SubSeq(E, first, Len(E))
  BY <1>1, MergeCases
<1>6. \A i : i \in Conflicts(log, prev, E)
          <=> i \in Conflicts(log, prev, SubSeq(L, prev + 1, Len(L)))
  OBVIOUS
<1> HIDE DEF M, E
<1>2. ASSUME Conflicts(log, prev, E) = {},
             M = log \o SubSeq(E, Len(log) - prev + 1, Len(E))
      PROVE  M \in {log, L} /\ Pre(L, M)
  <2> DEFINE R == SubSeq(E, Len(log) - prev + 1, Len(E))
  <2>1. Len(log) - prev + 1 \in Nat \ {0}
    OBVIOUS
  <2>2. /\ R \in Seq(Entries)
        /\ Len(R) = IF Len(L) - prev < Len(log) - prev + 1 THEN 0
                    ELSE Len(L) - prev - (Len(log) - prev + 1) + 1
        /\ \A i \in 1 .. Len(R) : R[i] = L[prev + (Len(log) - prev + 1) - 1 + i]
    BY <2>1, <1>1, RestOfRest
  <2>3. M = log \o R
    BY <1>2
  <2>4. \A i \in 1 .. Len(L) - prev : i \notin Conflicts(log, prev, SubSeq(L, prev + 1, Len(L)))
    BY <1>2, <1>6
  <2> HIDE DEF R
  <2>5. CASE Len(L) <= Len(log)
    <3>1. \A i \in 1 .. Len(L) : log[i] = L[i]
      BY <2>4, <2>5, NoConflictBelow
    <3>2. Len(R) = 0
      BY <2>2, <2>5
    <3>3. R = <<>>
      BY <3>2, <2>2, EmptySeq
    <3>4. M = log
      BY <3>3, <2>3, ConcatEmptySeq
    <3> QED BY <3>1, <3>4, <2>5 DEF Pre
  <2>6. CASE Len(L) > Len(log)
    <3>1. \A i \in 1 .. Len(log) : log[i] = L[i]
      BY <2>4, <2>6, NoConflictBelow
    <3>2. Len(R) = Len(L) - Len(log) /\ \A i \in 1 .. Len(R) : R[i] = L[Len(log) + i]
      BY <2>2, <2>6
    <3>3. log \o R = L
      <4>1. Len(log) <= Len(L) /\ R \in Seq(Entries)
        BY <2>2, <2>6
      <4> QED BY <3>1, <3>2, <4>1, JoinRest
    <3> QED BY <3>3, <2>3 DEF Pre
  <2> QED BY <2>5, <2>6
<1>3. ASSUME NEW f \in Conflicts(log, prev, E),
             \A j \in Conflicts(log, prev, E) : f <= j,
             M = SubSeq(log, 1, prev + f - 1) \o SubSeq(E, f, Len(E))
      PROVE  M = L
  <2> DEFINE A == SubSeq(log, 1, prev + f - 1)
  <2> DEFINE B == SubSeq(E, f, Len(E))
  <2>1. f \in 1 .. Len(E) /\ prev + f <= Len(log) /\ prev + f <= Len(L)
    BY <1>1 DEF Conflicts
  <2>2. \A i \in 1 .. Len(L) - prev : prev + i <= prev + f - 1 =>
          i \notin Conflicts(log, prev, SubSeq(L, prev + 1, Len(L)))
    BY <1>3, <1>6, <2>1
  <2>3. \A i \in 1 .. prev + f - 1 : log[i] = L[i]
    <3>1. prev + f - 1 \in Nat /\ prev + f - 1 <= Len(log) /\ prev + f - 1 <= Len(L)
      BY <2>1
    <3> QED BY <3>1, <2>2, NoConflictBelow
  <2>4. /\ A \in Seq(Entries) /\ Len(A) = prev + f - 1
        /\ \A i \in 1 .. Len(A) : A[i] = log[i]
    <3>1. /\ A \in Seq(Entries) /\ Len(A) = IF prev + f - 1 < 1 THEN 0 ELSE prev + f - 1 - 1 + 1
          /\ \A i \in 1 .. Len(A) : A[i] = log[1 + i - 1]
      BY <2>1, SliceElements
    <3> HIDE DEF A
    <3> QED BY <3>1, <2>1
  <2>5. /\ B \in Seq(Entries)
        /\ Len(B) = IF Len(L) - prev < f THEN 0 ELSE Len(L) - prev - f + 1
        /\ \A i \in 1 .. Len(B) : B[i] = L[prev + f - 1 + i]
    <3>1. f \in Nat \ {0}
      BY <2>1
    <3>2. /\ B \in Seq(Entries) /\ Len(B) = IF Len(E) < f THEN 0 ELSE Len(E) - f + 1
          /\ \A i \in 1 .. Len(B) : B[i] = L[prev + f - 1 + i]
      BY <3>1, <1>1, RestOfRest
    <3> QED BY <3>2, <1>1
  <2>6. M = A \o B
    BY <1>3
  <2> HIDE DEF A, B
  <2>7. Len(A) <= Len(L) /\ Len(B) = Len(L) - Len(A)
    <3>1. /\ Len(B) = IF Len(L) - prev < f THEN 0 ELSE Len(L) - prev - f + 1
          /\ Len(A) = prev + f - 1
      BY <2>4, <2>5
    <3> QED BY <3>1, <2>1
  <2>8. \A i \in 1 .. Len(A) : A[i] = L[i]
    BY <2>3, <2>4
  <2>9. \A i \in 1 .. Len(B) : B[i] = L[Len(A) + i]
    BY <2>4, <2>5
  <2> QED BY <2>4, <2>5, <2>6, <2>7, <2>8, <2>9, JoinRest
<1>4. Pre(L, L)
  BY DEF Pre
<1>7. M \in {log, L} /\ Pre(L, M)
  BY <1>2, <1>3, <1>4, <1>5
<1> QED BY <1>7 DEF M, E

-----------------------------------------------------------------------------
(* Nodes stay nodes, messages stay messages.                                *)

LEMMA StepDownType ==
  ASSUME NEW n \in RaftNodes, NEW term \in Nat
  PROVE  StepDown(n, term) \in RaftNodes
BY DEF StepDown, RaftNodes, Roles

LEMMA ApplyCommittedType ==
  ASSUME NEW n \in RaftNodes
  PROVE  ApplyCommitted(n) \in RaftNodes
<1> DEFINE s == SubSeq(n.log, n.applied + 1, Smaller(n.commit, Len(n.log)))
<1>1. n.log \in Seq(Entries) /\ n.machine \in Seq(Entries) /\ n.applied \in Nat /\ n.commit \in Nat
  BY DEF RaftNodes
<1>2. Smaller(n.commit, Len(n.log)) \in Nat /\ Smaller(n.commit, Len(n.log)) <= Len(n.log)
  BY <1>1 DEF Smaller
<1>3. s \in Seq(Entries)
  BY <1>1, <1>2, SliceElements
<1>4. n.machine \o s \in Seq(Entries)
  BY <1>1, <1>3, JoinElements
<1>5. Larger(n.applied, n.commit) \in Nat
  BY <1>1 DEF Larger
<1> QED BY <1>4, <1>5 DEF ApplyCommitted, ApplyEntries, RaftNodes

LEMMA CommitAtType ==
  ASSUME NEW n \in RaftNodes, NEW c \in Nat
  PROVE  CommitAt(n, c) \in RaftNodes
<1>1. [n EXCEPT !.commit = c] \in RaftNodes
  BY DEF RaftNodes
<1> QED BY <1>1, ApplyCommittedType DEF CommitAt

LEMMA AdvanceCommitType ==
  ASSUME NEW n \in RaftNodes, NEW c \in Nat
  PROVE  AdvanceCommit(n, c) \in RaftNodes
<1>1. Smaller(c, Len(n.log)) \in Nat
  BY DEF Smaller, RaftNodes
<1>2. [n EXCEPT !.commit = Smaller(c, Len(n.log))] \in RaftNodes
  BY <1>1 DEF RaftNodes
<1> QED BY <1>2, ApplyCommittedType DEF AdvanceCommit

LEMMA TermAtType ==
  ASSUME NEW log \in Seq(Entries), NEW i
  PROVE  TermAt(log, i) \in Nat
<1>1. i \in DOMAIN log => log[i] \in Entries
  BY LenProperties
<1> QED BY <1>1 DEF TermAt, Entries

LEMMA HearType ==
  ASSUME NEW n \in RaftNodes, NEW args, args.term \in Nat
  PROVE  /\ HearCandidate(n, args) \in RaftNodes
         /\ HearLeader(n, args) \in RaftNodes
         /\ args.term <= HearCandidate(n, args).term
         /\ args.term <= HearLeader(n, args).term
<1>1. StepDown(n, args.term) \in RaftNodes /\ StepDown(n, args.term).term = args.term
  BY StepDownType DEF StepDown, RaftNodes
<1>2. n.term \in Nat
  BY DEF RaftNodes
<1> QED BY <1>1, <1>2 DEF HearCandidate, HearLeader

\* handle_request_vote: what becomes of the node, case by case.
LEMMA HandleRequestVoteCases ==
  ASSUME NEW n, NEW args, NEW V, NEW m, m = HearCandidate(n, args),
         NEW r, r = HandleRequestVote(n, args, V)
  PROVE  \/ r.node = n /\ r.reply = VoteReply(n, FALSE)
         \/ r.node = m /\ r.reply = VoteReply(m, FALSE)
         \/ /\ args.term = m.term /\ m.vote \in {NoVote, args.candidate} /\ LogUpToDate(m, args)
            /\ r.node = [m EXCEPT !.vote = args.candidate] /\ r.reply = VoteReply(m, TRUE)
<1> DEFINE can == args.term = m.term /\ m.vote \in {NoVote, args.candidate} /\ LogUpToDate(m, args)
<1>1. CASE args.candidate \notin V
  BY <1>1 DEF HandleRequestVote
<1>2. CASE args.candidate \in V /\ ~can
  BY <1>2 DEF HandleRequestVote
<1>3. CASE args.candidate \in V /\ can
  BY <1>3 DEF HandleRequestVote
<1> QED BY <1>1, <1>2, <1>3

LEMMA HandleRequestVoteType ==
  ASSUME NEW n \in RaftNodes, NEW args \in VoteRequests, NEW V
  PROVE  /\ HandleRequestVote(n, args, V).node \in RaftNodes
         /\ HandleRequestVote(n, args, V).reply \in VoteReplies
<1>1. PICK m : m = HearCandidate(n, args)
  OBVIOUS
<1>2. PICK x : x = [m EXCEPT !.vote = args.candidate]
  OBVIOUS
<1>3. m \in RaftNodes /\ args.candidate \in Nodes
  BY <1>1, HearType DEF VoteRequests
<1>4. x \in RaftNodes
  BY <1>2, <1>3 DEF RaftNodes
<1>5. \A y \in RaftNodes : \A b \in BOOLEAN : VoteReply(y, b) \in VoteReplies
  BY DEF VoteReply, VoteReplies, RaftNodes
<1>7. PICK r : r = HandleRequestVote(n, args, V)
  OBVIOUS
<1>6. \/ r.node = n /\ r.reply = VoteReply(n, FALSE)
      \/ r.node = m /\ r.reply = VoteReply(m, FALSE)
      \/ r.node = x /\ r.reply = VoteReply(m, TRUE)
  BY HandleRequestVoteCases, <1>1, <1>2, <1>7 DEF VoteReply
<1>8. r.node \in RaftNodes /\ r.reply \in VoteReplies
  BY <1>3, <1>4, <1>5, <1>6
<1> QED BY <1>7, <1>8

\* handle_append_entries: what becomes of the node, case by case.
LEMMA HandleAppendEntriesCases ==
  ASSUME NEW n \in RaftNodes, NEW args \in AppendRequests, NEW V,
         NEW m, m = HearLeader(n, args),
         NEW cut, cut = CutLog(m, args.prev),
         NEW merged, merged = TakeEntries(m, args),
         NEW r, r = HandleAppendEntries(n, args, V)
  PROVE  \/ r.node = n /\ r.reply = AppendReply(n, FALSE, 0)
         \/ r.node = m /\ r.reply = AppendReply(m, FALSE, 0)
         \/ r.node = m /\ r.reply = AppendReply(m, FALSE, Len(m.log))
         \/ /\ args.term = m.term /\ args.prev <= Len(m.log)
            /\ TermAt(m.log, args.prev) # args.prevTerm
            /\ r.node = cut /\ r.reply = AppendReply(cut, FALSE, Len(cut.log))
         \/ /\ args.term = m.term /\ args.prev <= Len(m.log)
            /\ TermAt(m.log, args.prev) = args.prevTerm
            /\ r.node = merged /\ r.reply = AppendReply(merged, TRUE, Len(merged.log))
<1>1. /\ m.term \in Nat /\ args.term \in Nat /\ args.term <= m.term
      /\ args.prev \in Nat /\ Len(m.log) \in Nat
  <2>1. args.term \in Nat /\ args.prev \in Nat
    BY DEF AppendRequests
  <2>2. m \in RaftNodes /\ args.term <= m.term
    BY <2>1, HearType
  <2> QED BY <2>1, <2>2 DEF RaftNodes
<1>2. CASE args.leader \notin V
  BY <1>2 DEF HandleAppendEntries
<1>3. CASE args.leader \in V /\ args.term < m.term
  <2>1. args.term # m.term
    BY <1>1, <1>3
  <2> QED BY <1>3, <2>1 DEF HandleAppendEntries
<1>4. CASE args.leader \in V /\ args.term = m.term /\ args.prev > Len(m.log)
  <2>1. ~(args.term < m.term) /\ ~(args.prev <= Len(m.log))
    BY <1>1, <1>4
  <2> QED BY <1>4, <2>1 DEF HandleAppendEntries
<1>5. CASE /\ args.leader \in V /\ args.term = m.term /\ args.prev <= Len(m.log)
           /\ TermAt(m.log, args.prev) # args.prevTerm
  <2>1. ~(args.term < m.term) /\ ~(args.prev > Len(m.log))
    BY <1>1, <1>5
  <2> QED BY <1>5, <2>1 DEF HandleAppendEntries
<1>6. CASE /\ args.leader \in V /\ args.term = m.term /\ args.prev <= Len(m.log)
           /\ TermAt(m.log, args.prev) = args.prevTerm
  <2>1. ~(args.term < m.term) /\ ~(args.prev > Len(m.log))
    BY <1>1, <1>6
  <2> QED BY <1>6, <2>1 DEF HandleAppendEntries
<1>7. \/ args.leader \notin V
      \/ args.leader \in V /\ args.term < m.term
      \/ args.leader \in V /\ args.term = m.term /\ args.prev > Len(m.log)
      \/ args.leader \in V /\ args.term = m.term /\ args.prev <= Len(m.log)
  BY <1>1
<1> QED BY <1>2, <1>3, <1>4, <1>5, <1>6, <1>7

LEMMA CutLogType ==
  ASSUME NEW n \in RaftNodes, NEW prev \in Nat, prev <= Len(n.log)
  PROVE  CutLog(n, prev) \in RaftNodes
<1>1. SubSeq(n.log, 1, prev - 1) \in Seq(Entries)
  BY SliceElements DEF RaftNodes
<1> QED BY <1>1 DEF CutLog, RaftNodes

LEMMA TakeEntriesType ==
  ASSUME NEW n \in RaftNodes, NEW args \in AppendRequests, args.prev <= Len(n.log)
  PROVE  TakeEntries(n, args) \in RaftNodes
<1>1. args.prev \in Nat /\ args.entries \in Seq(Entries) /\ args.commit \in Nat
      /\ n.log \in Seq(Entries)
  BY DEF AppendRequests, RaftNodes
<1>2. Merge(n.log, args.prev, args.entries) \in Seq(Entries)
  BY <1>1, MergeType
<1>3. [n EXCEPT !.log = Merge(n.log, args.prev, args.entries)] \in RaftNodes
  BY <1>2 DEF RaftNodes
<1> QED BY <1>1, <1>3, AdvanceCommitType DEF TakeEntries

LEMMA HandleAppendEntriesType ==
  ASSUME NEW n \in RaftNodes, NEW args \in AppendRequests, NEW V
  PROVE  /\ HandleAppendEntries(n, args, V).node \in RaftNodes
         /\ HandleAppendEntries(n, args, V).reply \in AppendReplies
<1>1. PICK m : m = HearLeader(n, args)
  OBVIOUS
<1>2. PICK cut : cut = CutLog(m, args.prev)
  OBVIOUS
<1>3. PICK merged : merged = TakeEntries(m, args)
  OBVIOUS
<1>4. m \in RaftNodes /\ args.prev \in Nat
  BY <1>1, HearType DEF AppendRequests
<1>5. args.prev <= Len(m.log) => cut \in RaftNodes /\ merged \in RaftNodes
  BY <1>2, <1>3, <1>4, CutLogType, TakeEntriesType
<1>6. \A x \in RaftNodes : \A b \in BOOLEAN :
        AppendReply(x, b, Len(x.log)) \in AppendReplies /\ AppendReply(x, b, 0) \in AppendReplies
  BY DEF AppendReply, AppendReplies, RaftNodes
<1>7. PICK r : r = HandleAppendEntries(n, args, V)
  OBVIOUS
<1>8. \/ r.node = n /\ r.reply = AppendReply(n, FALSE, 0)
      \/ r.node = m /\ r.reply = AppendReply(m, FALSE, 0)
      \/ r.node = m /\ r.reply = AppendReply(m, FALSE, Len(m.log))
      \/ args.prev <= Len(m.log) /\ r.node = cut /\ r.reply = AppendReply(cut, FALSE, Len(cut.log))
      \/ args.prev <= Len(m.log) /\ r.node = merged /\ r.reply = AppendReply(merged, TRUE, Len(merged.log))
  BY HandleAppendEntriesCases, <1>1, <1>2, <1>3, <1>7 DEF AppendReply
<1>9. r.node \in RaftNodes /\ r.reply \in AppendReplies
  BY <1>4, <1>5, <1>6, <1>8
<1> QED BY <1>7, <1>9

\* The caller's side.
LEMMA BecomeCandidateType ==
  ASSUME NEW n \in RaftNodes, NEW self \in Nodes
  PROVE  /\ BecomeCandidate(n, self) \in RaftNodes
         /\ BecomeLeader(n) \in RaftNodes
         /\ VoteRequest(n, self) \in VoteRequests
<1>1. LastTerm(n) \in Nat /\ Len(n.log) \in Nat
  BY TermAtType DEF LastTerm, RaftNodes
<1>2. BecomeCandidate(n, self) \in RaftNodes
  <2>1. n.term + 1 \in Nat
    BY DEF RaftNodes
  <2> QED BY <2>1 DEF BecomeCandidate, RaftNodes, Roles
<1>3. BecomeLeader(n) \in RaftNodes
  <2>1. [p \in Nodes |-> Len(n.log) + 1] \in [Nodes -> Nat \ {0}]
    BY <1>1
  <2> QED BY <2>1 DEF BecomeLeader, RaftNodes, Roles
<1> QED BY <1>1, <1>2, <1>3 DEF VoteRequest, VoteRequests, RaftNodes

LEMMA AppendLocallyType ==
  ASSUME NEW n \in RaftNodes, NEW v \in Values
  PROVE  AppendLocally(n, v) \in RaftNodes
<1>1. [term |-> n.term, value |-> v] \in Entries
  BY DEF Entries, RaftNodes
<1>2. Append(n.log, [term |-> n.term, value |-> v]) \in Seq(Entries)
  BY <1>1, AppendProperties DEF RaftNodes
<1> QED BY <1>2 DEF AppendLocally, RaftNodes

LEMMA AppendRequestType ==
  ASSUME NEW n \in RaftNodes, NEW self \in Nodes, NEW p \in Nodes
  PROVE  AppendRequest(n, self, p) \in AppendRequests
<1> DEFINE prev == n.next[p] - 1
<1>1. prev \in Nat /\ n.log \in Seq(Entries) /\ n.term \in Nat /\ n.commit \in Nat
  BY DEF RaftNodes
<1> HIDE DEF prev
<1>2. TermAt(n.log, prev) \in Nat
  BY <1>1, TermAtType
<1>3. SubSeq(n.log, prev + 1, Len(n.log)) \in Seq(Entries)
  BY <1>1, SliceElements
<1> QED BY <1>1, <1>2, <1>3 DEF AppendRequest, AppendRequests, prev

LEMMA RecordReplyType ==
  ASSUME NEW n \in RaftNodes, NEW p \in Nodes, NEW reply \in AppendReplies
  PROVE  RecordReply(n, p, reply) \in RaftNodes
<1> DEFINE x == IF reply.success THEN reply.match + 1 ELSE Larger(1, n.next[p] - 1)
<1>1. x \in Nat \ {0}
  BY DEF AppendReplies, RaftNodes, Larger
<1> HIDE DEF x
<1>2. RecordReply(n, p, reply) = [n EXCEPT !.next[p] = x]
  BY DEF RecordReply, x
<1>3. [n.next EXCEPT ![p] = x] \in [Nodes -> Nat \ {0}]
  BY <1>1 DEF RaftNodes
<1> QED BY <1>2, <1>3 DEF RaftNodes

\* Applying up to the commit index makes the machine the prefix of the log of
\* that length: no committed entry is applied twice or skipped.
LEMMA ApplyCommittedGives ==
  ASSUME NEW n \in RaftNodes, NEW S \in Seq(Entries), Pre(S, n.log), n.commit = Len(S),
         n.applied = Len(n.machine), Pre(n.machine, n.log), n.applied <= n.commit
  PROVE  /\ ApplyCommitted(n).machine = S
         /\ ApplyCommitted(n).applied = Len(S) /\ ApplyCommitted(n).commit = Len(S)
         /\ ApplyCommitted(n).log = n.log /\ ApplyCommitted(n).term = n.term
         /\ ApplyCommitted(n).role = n.role /\ ApplyCommitted(n).vote = n.vote
<1> DEFINE B == SubSeq(n.log, n.applied + 1, Smaller(n.commit, Len(n.log)))
<1>1. n.log \in Seq(Entries) /\ n.machine \in Seq(Entries) /\ n.applied \in Nat /\ n.commit \in Nat
  BY DEF RaftNodes
<1>2. Smaller(n.commit, Len(n.log)) = Len(S)
  BY <1>1 DEF Smaller, Pre
<1>3. Larger(n.applied, n.commit) = Len(S)
  BY <1>1 DEF Larger
<1>4. /\ B \in Seq(Entries)
      /\ Len(B) = IF Len(S) < n.applied + 1 THEN 0 ELSE Len(S) - (n.applied + 1) + 1
      /\ \A i \in 1 .. Len(B) : B[i] = n.log[n.applied + 1 + i - 1]
  <2>1. n.applied + 1 \in Nat \ {0} /\ Len(S) \in Int /\ Len(S) <= Len(n.log)
    BY <1>1 DEF Pre
  <2>2. B = SubSeq(n.log, n.applied + 1, Len(S))
    BY <1>2
  <2> HIDE DEF B
  <2> QED BY <1>1, <2>1, <2>2, SliceElements
<1> HIDE DEF B
<1>5. Len(B) = Len(S) - Len(n.machine) /\ Len(n.machine) <= Len(S)
  <2>1. Len(B) = IF Len(S) < n.applied + 1 THEN 0 ELSE Len(S) - (n.applied + 1) + 1
    BY <1>4
  <2>2. Len(S) \in Nat /\ n.applied \in Nat /\ n.applied <= Len(S)
    BY <1>1
  <2>3. \A a, b \in Nat : a <= b => (IF b < a + 1 THEN 0 ELSE b - (a + 1) + 1) = b - a
    OBVIOUS
  <2>4. Len(B) = Len(S) - n.applied
    BY <2>1, <2>2, <2>3
  <2> QED BY <2>2, <2>4
<1>6. \A i \in 1 .. Len(n.machine) : n.machine[i] = S[i]
  BY <1>1, <1>5 DEF Pre
<1>7. ASSUME NEW i \in 1 .. Len(B)
      PROVE  B[i] = S[Len(n.machine) + i]
  <2>1. B[i] = n.log[Len(n.machine) + i]
    BY <1>1, <1>4
  <2>2. Len(n.machine) + i \in 1 .. Len(S)
    BY <1>1, <1>5
  <2> QED BY <2>1, <2>2 DEF Pre
<1>8. n.machine \o B = S
  BY <1>1, <1>4, <1>5, <1>6, <1>7, JoinRest
<1>9. ApplyCommitted(n) = [n EXCEPT !.applied = Len(S), !.machine = S]
  BY <1>3, <1>8 DEF ApplyCommitted, ApplyEntries, B
<1> QED BY <1>9 DEF RaftNodes

-----------------------------------------------------------------------------
(* Type correctness, for any threads and any interleaving of calls.         *)

\* A proposal before its first request is built.
DraftProposals ==
  [kind : {"proposal"}, node : Nodes, index : Nat, quorum : Nat, todo : SUBSET Nodes,
   acks : SUBSET Nodes, at : Nodes, request : AppendRequests \cup {NoReply},
   answered : BOOLEAN, reply : AppendReplies \cup {NoReply}]

LEMMA QuorumType ==
  ASSUME NEW V \in SUBSET Nodes, NEW n
  PROVE  Quorum(V, n) \in Nat
<1>1. IsFiniteSet(V \ {n})
  BY ClusterAssumption, FS_Subset
<1>2. Cardinality(V \ {n}) \in Nat
  BY <1>1, FS_CardinalityType
<1> QED BY <1>2 DEF Quorum

LEMMA AskType ==
  ASSUME NEW call \in ElectionCalls \cup DraftProposals, NEW p \in Nodes, NEW node \in RaftNodes
  PROVE  Ask(call, p, node) \in ElectionCalls \cup ProposalCalls
<1>1. CASE call \in ElectionCalls
  BY <1>1 DEF Ask, ElectionCalls
<1>2. CASE call \in DraftProposals
  <2>1. call.node \in Nodes
    BY <1>2 DEF DraftProposals
  <2>2. AppendRequest(node, call.node, p) \in AppendRequests
    BY <2>1, AppendRequestType
  <2> QED BY <1>2, <2>2 DEF Ask, DraftProposals, ProposalCalls
<1> QED BY <1>1, <1>2

LEMMA ContinueType ==
  ASSUME TypeOK, NEW t \in Threads, NEW call \in ElectionCalls \cup DraftProposals,
         NEW node \in RaftNodes, Continue(t, call, node)
  PROVE  /\ nodes' \in [Nodes -> RaftNodes]
         /\ calls' \in [Threads -> ElectionCalls \cup ProposalCalls \cup {Idle}]
<1>1. call.node \in Nodes /\ call.index \in Nat /\ call.todo \in SUBSET Nodes
  BY DEF ElectionCalls, DraftProposals
<1>2. Finish(call, node) \in RaftNodes
  BY <1>1, CommitAtType DEF Finish
<1>3. \A p \in call.todo : Ask(call, p, node) \in ElectionCalls \cup ProposalCalls
  BY <1>1, AskType
<1>4. CASE call.todo = {}
  BY <1>2, <1>4 DEF Continue, TypeOK
<1>5. CASE call.todo # {}
  <2>1. PICK p \in call.todo : calls' = [calls EXCEPT ![t] = Ask(call, p, node)]
    BY <1>5 DEF Continue
  <2>2. calls' \in [Threads -> ElectionCalls \cup ProposalCalls \cup {Idle}]
    BY <2>1, <1>3 DEF TypeOK
  <2>3. nodes' \in [Nodes -> RaftNodes]
    BY <1>5 DEF Continue, TypeOK
  <2> QED BY <2>2, <2>3
<1> QED BY <1>4, <1>5

LEMMA NewCallType ==
  ASSUME TypeOK, NEW n \in Nodes, NEW index \in Nat
  PROVE  /\ \A r \in VoteRequests : NewCall("election", n, index, r) \in ElectionCalls
         /\ NewCall("proposal", n, index, NoReply) \in DraftProposals
<1>1. Quorum(verified[n], n) \in Nat
  BY QuorumType DEF TypeOK
<1>2. Peers(n) \in SUBSET Nodes
  BY DEF Peers, TypeOK
<1> QED BY <1>1, <1>2 DEF NewCall, ElectionCalls, DraftProposals

LEMMA AnswerType ==
  ASSUME TypeOK, NEW t \in Threads, calls[t] # Idle, NEW reply, Answer(t, reply),
         calls[t].kind = "election" => reply \in VoteReplies \cup {NoReply},
         calls[t].kind = "proposal" => reply \in AppendReplies \cup {NoReply}
  PROVE  calls' \in [Threads -> ElectionCalls \cup ProposalCalls \cup {Idle}]
<1> DEFINE c == [calls[t] EXCEPT !.answered = TRUE, !.reply = reply]
<1>1. calls[t] \in ElectionCalls \cup ProposalCalls
  BY DEF TypeOK
<1>2. c \in ElectionCalls \cup ProposalCalls
  <2>1. CASE calls[t] \in ElectionCalls
    <3>1. reply \in VoteReplies \cup {NoReply}
      BY <2>1 DEF ElectionCalls
    <3> QED BY <2>1, <3>1 DEF ElectionCalls
  <2>2. CASE calls[t] \in ProposalCalls
    <3>1. reply \in AppendReplies \cup {NoReply}
      BY <2>2 DEF ProposalCalls
    <3> QED BY <2>2, <3>1 DEF ProposalCalls
  <2> QED BY <1>1, <2>1, <2>2
<1>3. calls' = [calls EXCEPT ![t] = c]
  BY DEF Answer, TypeOK
<1> HIDE DEF c
<1> QED BY <1>2, <1>3 DEF TypeOK

LEMMA TypeStep ==
  ASSUME TypeOK, Next
  PROVE  TypeOK'
<1> USE DEF TypeOK
<1>1. ASSUME NEW n \in Nodes, NEW p \in Nodes, VerifyAttestation(n, p)
      PROVE  TypeOK'
  BY <1>1 DEF VerifyAttestation
<1>2. ASSUME NEW t \in Threads, NEW n \in Nodes, StartElection(t, n)
      PROVE  TypeOK'
  <2> DEFINE node == BecomeCandidate(nodes[n], n)
  <2> DEFINE call == NewCall("election", n, 0, VoteRequest(node, n))
  <2>1. nodes[n] \in RaftNodes
    OBVIOUS
  <2>2. node \in RaftNodes /\ BecomeLeader(node) \in RaftNodes /\ VoteRequest(node, n) \in VoteRequests
    BY <2>1, BecomeCandidateType
  <2>3. node.term \in Nat
    BY <2>2 DEF RaftNodes
  <2>4. call \in ElectionCalls
    BY <2>2, NewCallType
  <2>5. CASE Win(t, n, node) /\ UNCHANGED verified
    BY <2>2, <2>3, <2>5 DEF Win
  <2>6. CASE Continue(t, call, node) /\ UNCHANGED <<verified, elected>>
    <3> HIDE DEF node, call, TypeOK
    <3>1. /\ nodes' \in [Nodes -> RaftNodes]
          /\ calls' \in [Threads -> ElectionCalls \cup ProposalCalls \cup {Idle}]
      BY <2>2, <2>4, <2>6, ContinueType
    <3> QED BY <3>1, <2>6 DEF TypeOK
  <2> QED BY <1>2, <2>5, <2>6 DEF StartElection
<1>3. ASSUME NEW t \in Threads, NEW n \in Nodes, NEW v \in Values, StartProposal(t, n, v)
      PROVE  TypeOK'
  <2> DEFINE node == AppendLocally(nodes[n], v)
  <2> DEFINE call == NewCall("proposal", n, Len(node.log), NoReply)
  <2>1. node \in RaftNodes
    BY AppendLocallyType
  <2>2. Len(node.log) \in Nat
    BY <2>1 DEF RaftNodes
  <2>3. call \in DraftProposals
    BY <2>2, NewCallType
  <2>4. Continue(t, call, node) /\ UNCHANGED <<verified, elected>>
    BY <1>3 DEF StartProposal
  <2> HIDE DEF node, call, TypeOK
  <2>5. /\ nodes' \in [Nodes -> RaftNodes]
        /\ calls' \in [Threads -> ElectionCalls \cup ProposalCalls \cup {Idle}]
    BY <2>1, <2>3, <2>4, ContinueType
  <2> QED BY <2>4, <2>5 DEF TypeOK
<1>4. ASSUME NEW t \in Threads, DeliverHandled(t)
      PROVE  TypeOK'
  <2>0. PICK r : r = Handle(calls[t].at, calls[t].request)
    OBVIOUS
  <2>1. calls[t] # Idle /\ calls[t] \in ElectionCalls \cup ProposalCalls
    BY <1>4 DEF DeliverHandled, Waiting
  <2>2. nodes[calls[t].at] \in RaftNodes /\ calls[t].at \in Nodes
    BY <2>1 DEF ElectionCalls, ProposalCalls
  <2>3. /\ r.node \in RaftNodes
        /\ calls[t].kind = "election" => r.reply \in VoteReplies
        /\ calls[t].kind = "proposal" => r.reply \in AppendReplies
    <3>1. CASE calls[t] \in ElectionCalls
      <4>1. calls[t].kind = "election" /\ calls[t].request \in VoteRequests
        BY <3>1 DEF ElectionCalls
      <4>2. r = HandleRequestVote(nodes[calls[t].at], calls[t].request, Attests(calls[t].at))
        BY <4>1, <2>0 DEF Handle, VoteRequests
      <4> QED BY <4>1, <4>2, <2>2, HandleRequestVoteType
    <3>2. CASE calls[t] \in ProposalCalls
      <4>1. calls[t].kind = "proposal" /\ calls[t].request \in AppendRequests
        BY <3>2 DEF ProposalCalls
      <4>2. r = HandleAppendEntries(nodes[calls[t].at], calls[t].request, Attests(calls[t].at))
        BY <4>1, <2>0 DEF Handle, AppendRequests
      <4> QED BY <4>1, <4>2, <2>2, HandleAppendEntriesType
    <3> QED BY <2>1, <3>1, <3>2
  <2>4. nodes' \in [Nodes -> RaftNodes]
    BY <1>4, <2>0, <2>3 DEF DeliverHandled
  <2>5. PICK reply \in {r.reply, NoReply} : Answer(t, reply)
    BY <1>4, <2>0 DEF DeliverHandled
  <2>6. calls' \in [Threads -> ElectionCalls \cup ProposalCalls \cup {Idle}]
    BY <2>1, <2>3, <2>5, AnswerType
  <2> QED BY <1>4, <2>4, <2>6 DEF DeliverHandled
<1>5. ASSUME NEW t \in Threads, DeliverBlocked(t)
      PROVE  TypeOK'
  <2>1. calls[t] # Idle /\ calls[t] \in ElectionCalls \cup ProposalCalls
    BY <1>5 DEF DeliverBlocked, Waiting
  <2>2. nodes[calls[t].at] \in RaftNodes
    BY <2>1 DEF ElectionCalls, ProposalCalls
  <2>3. PICK b : b = Blocked(calls[t].at, calls[t].request)
    OBVIOUS
  <2>4. /\ calls[t].kind = "election" => b \in VoteReplies
        /\ calls[t].kind = "proposal" => b \in AppendReplies
    <3>1. CASE calls[t] \in ElectionCalls
      BY <3>1, <2>2, <2>3 DEF ElectionCalls, VoteRequests, Blocked, VoteReply, VoteReplies, RaftNodes
    <3>2. CASE calls[t] \in ProposalCalls
      BY <3>2, <2>2, <2>3 DEF ProposalCalls, AppendRequests, Blocked, AppendReply, AppendReplies, RaftNodes
    <3> QED BY <2>1, <3>1, <3>2
  <2>5. PICK reply \in {b, NoReply} : Answer(t, reply)
    BY <1>5, <2>3 DEF DeliverBlocked
  <2>6. calls' \in [Threads -> ElectionCalls \cup ProposalCalls \cup {Idle}]
    BY <2>1, <2>4, <2>5, AnswerType
  <2> QED BY <1>5, <2>6 DEF DeliverBlocked
<1>6. ASSUME NEW t \in Threads, ReceiveDeposed(t)
      PROVE  TypeOK'
  <2>1. calls[t] \in ElectionCalls \cup ProposalCalls /\ calls[t].reply # NoReply
    BY <1>6 DEF ReceiveDeposed
  <2>2. calls[t].reply.term \in Nat /\ calls[t].node \in Nodes
    BY <2>1 DEF ElectionCalls, ProposalCalls, VoteReplies, AppendReplies
  <2>3. StepDown(nodes[calls[t].node], calls[t].reply.term) \in RaftNodes
    BY <2>2, StepDownType
  <2> QED BY <1>6, <2>3 DEF ReceiveDeposed
<1>7. ASSUME NEW t \in Threads, ReceiveVote(t)
      PROVE  TypeOK'
  <2> DEFINE granted == calls[t].reply # NoReply /\ calls[t].reply.granted
  <2> DEFINE votes == calls[t].acks \cup (IF granted THEN {calls[t].at} ELSE {})
  <2> DEFINE call == [calls[t] EXCEPT !.acks = votes]
  <2> DEFINE node == nodes[calls[t].node]
  <2>1. calls[t] \in ElectionCalls
    BY <1>7 DEF ReceiveVote, ProposalCalls
  <2>2. votes \in SUBSET Nodes
    BY <2>1 DEF ElectionCalls
  <2>3. call \in ElectionCalls
    <3> HIDE DEF votes
    <3> QED BY <2>1, <2>2 DEF ElectionCalls
  <2>4. node \in RaftNodes /\ calls[t].node \in Nodes
    BY <2>1 DEF ElectionCalls
  <2>5. CASE Win(t, calls[t].node, node) /\ UNCHANGED verified
    <3>1. BecomeLeader(node) \in RaftNodes /\ node.term \in Nat
      BY <2>4, BecomeCandidateType DEF RaftNodes
    <3> QED BY <2>4, <2>5, <3>1 DEF Win
  <2>6. CASE Continue(t, call, node) /\ UNCHANGED <<verified, elected>>
    <3> HIDE DEF call, node, TypeOK
    <3>1. /\ nodes' \in [Nodes -> RaftNodes]
          /\ calls' \in [Threads -> ElectionCalls \cup ProposalCalls \cup {Idle}]
      BY <2>3, <2>4, <2>6, ContinueType
    <3> QED BY <3>1, <2>6 DEF TypeOK
  <2> QED BY <1>7, <2>5, <2>6 DEF ReceiveVote
<1>8. ASSUME NEW t \in Threads, ReceiveAppend(t)
      PROVE  TypeOK'
  <2> DEFINE c == calls[t]
  <2> DEFINE acks == c.acks \cup (IF c.reply.success THEN {c.at} ELSE {})
  <2> DEFINE call == [c EXCEPT !.acks = acks]
  <2> DEFINE node == nodes[c.node]
  <2>1. c \in ProposalCalls
    BY <1>8 DEF ReceiveAppend, ElectionCalls
  <2>2. c \in DraftProposals /\ call \in DraftProposals
    <3>1. acks \in SUBSET Nodes
      BY <2>1 DEF ProposalCalls
    <3> HIDE DEF acks
    <3> QED BY <2>1, <3>1 DEF ProposalCalls, DraftProposals
  <2>3. node \in RaftNodes /\ c.at \in Nodes
    BY <2>1 DEF ProposalCalls
  <2>4. CASE Continue(t, c, node) /\ UNCHANGED <<verified, elected>>
    <3> HIDE DEF c, node, TypeOK
    <3>1. /\ nodes' \in [Nodes -> RaftNodes]
          /\ calls' \in [Threads -> ElectionCalls \cup ProposalCalls \cup {Idle}]
      BY <2>2, <2>3, <2>4, ContinueType
    <3> QED BY <3>1, <2>4 DEF TypeOK
  <2>5. CASE /\ c.reply # NoReply /\ UNCHANGED <<verified, elected>>
             /\ Continue(t, call, RecordReply(node, c.at, c.reply))
    <3>1. c.reply \in AppendReplies
      BY <2>1, <2>5 DEF ProposalCalls
    <3> HIDE DEF c, call, node, TypeOK
    <3>2. RecordReply(node, c.at, c.reply) \in RaftNodes
      BY <2>3, <3>1, RecordReplyType
    <3>3. /\ nodes' \in [Nodes -> RaftNodes]
          /\ calls' \in [Threads -> ElectionCalls \cup ProposalCalls \cup {Idle}]
      BY <2>2, <2>5, <3>2, ContinueType
    <3> QED BY <3>3, <2>5 DEF TypeOK
  <2> QED BY <1>8, <2>4, <2>5 DEF ReceiveAppend
<1> QED
  BY <1>1, <1>2, <1>3, <1>4, <1>5, <1>6, <1>7, <1>8 DEF Next

\* Whatever interleaving of calls, lost and blocked messages: a node, a call in
\* progress and the record of the elections stay well formed.
THEOREM RaftTypeCorrect == Spec => []TypeOK
<1>1. Init => TypeOK
  BY ClusterAssumption DEF Init, TypeOK, NewNode, RaftNodes, Roles
<1>2. TypeOK /\ UNCHANGED vars => TypeOK'
  BY DEF TypeOK, vars
<1> QED
  BY <1>1, <1>2, TypeStep, PTL DEF Spec

\* The term of the last entry a machine has applied.
Applied(m) == TermAt(m, Len(m))

Majority(Q) == 2 * Cardinality(Q) > Cardinality(Nodes)

VotesFor(N, e, v) == N[v].term > e[2] \/ (N[v].term = e[2] /\ N[v].vote = e[1])

(* Elections: N the nodes, E the elections won.  A candidate and a leader   *)
(* have their own vote, who leads has won, and every winner had a majority  *)
(* whose votes still name it or whose terms have moved on.                  *)
SelfVote(N) == \A n \in Nodes : N[n].role # "follower" => N[n].vote = n
LeadersWon(N, E) == \A n \in Nodes : N[n].role = "leader" => <<n, N[n].term>> \in E
WonLead(N, E) ==
  \A e \in E : /\ e[2] >= 1 /\ e[2] <= N[e[1]].term
               /\ e[2] = N[e[1]].term => N[e[1]].role = "leader"
WonByMajority(N, E) ==
  \A e \in E : \E Q \in SUBSET Nodes : Majority(Q) /\ \A v \in Q : VotesFor(N, e, v)
OneWinner(E) == \A a, b \in E : a[2] = b[2] => a[1] = b[1]

ElectionInv(N, E) ==
  SelfVote(N) /\ LeadersWon(N, E) /\ WonLead(N, E) /\ WonByMajority(N, E) /\ OneWinner(E)

(* Logs: every entry is from a leader elected in its term, terms do not     *)
(* fall along a log, a leader has all entries of its own term, and logs     *)
(* that agree on the term of an entry agree up to it.                       *)
EntriesWon(N, E) ==
  \A n \in Nodes : \A i \in 1 .. Len(N[n].log) :
    /\ N[n].log[i].term <= N[n].term
    /\ \E l \in Nodes : <<l, N[n].log[i].term>> \in E
Sorted(N) ==
  \A n \in Nodes : \A j \in 1 .. Len(N[n].log) : \A i \in 1 .. j :
    N[n].log[i].term <= N[n].log[j].term
LeaderHasAll(N) ==
  \A l, n \in Nodes : \A i \in 1 .. Len(N[n].log) :
    N[l].role = "leader" /\ N[n].log[i].term = N[l].term =>
      i <= Len(N[l].log) /\ N[l].log[i].term = N[l].term
TermsAlign(N) ==
  \A a, b \in Nodes : \A i \in 1 .. Len(N[a].log) : \A j \in 1 .. Len(N[b].log) :
    i <= j /\ N[a].log[i].term = N[b].log[j].term => N[b].log[i].term = N[a].log[i].term
Matching(N) ==
  \A a, b \in Nodes : \A i \in 1 .. Len(N[a].log) :
    i <= Len(N[b].log) /\ N[a].log[i].term = N[b].log[i].term =>
      \A j \in 1 .. i : N[a].log[j] = N[b].log[j]

LogInv(N, E) ==
  EntriesWon(N, E) /\ Sorted(N) /\ LeaderHasAll(N) /\ TermsAlign(N) /\ Matching(N)

(* Machines: what a node has applied is the committed part of its log, is   *)
(* in the logs of a majority, and in those of the leaders of the term of    *)
(* its last entry and later ones, as in any log with an entry of a later    *)
(* term.                                                                    *)
MachineIsLog(N) ==
  \A n \in Nodes : /\ N[n].commit = Len(N[n].machine) /\ N[n].applied = Len(N[n].machine)
                   /\ Pre(N[n].machine, N[n].log)
MajorityHolds(N) ==
  \A n \in Nodes : \E Q \in SUBSET Nodes : Majority(Q) /\ \A v \in Q : Pre(N[n].machine, N[v].log)
LeadersHold(N) ==
  \A n, l \in Nodes : N[l].role = "leader" /\ N[l].term >= Applied(N[n].machine) =>
    Pre(N[n].machine, N[l].log)
LaterLogsHold(N) ==
  \A n, v \in Nodes : \A i \in 1 .. Len(N[v].log) :
    N[v].log[i].term > Applied(N[n].machine) => Pre(N[n].machine, N[v].log)

MachineInv(N) == MachineIsLog(N) /\ MajorityHolds(N) /\ LeadersHold(N) /\ LaterLogsHold(N)

(* The call: what it has counted so far is so at the nodes.                 *)
Voted(N, n, v) ==
  N[v].term = N[n].term /\ N[v].vote = n /\ LogUpToDate(N[v], VoteRequest(N[n], n))
Holds(N, n, v) == N[v].term = N[n].term /\ Pre(N[n].log, N[v].log)

\* The votes and acknowledgements counted so far are real.
CallCore(N, c) ==
  /\ 2 * c.quorum > Cardinality(Nodes)
  /\ c.node \notin c.todo /\ c.acks \cap c.todo = {}
  /\ c.kind = "election" =>
       /\ N[c.node].role = "candidate" /\ N[c.node].term >= 1
       /\ c.request = VoteRequest(N[c.node], c.node)
       /\ \A v \in c.acks : Voted(N, c.node, v)
  /\ c.kind = "proposal" =>
       /\ N[c.node].role = "leader"
       /\ c.index = Len(N[c.node].log) /\ c.index > 0
       /\ N[c.node].log[c.index].term = N[c.node].term
       /\ \A v \in c.acks : Holds(N, c.node, v)

\* So is the request on its way, and the reply that has come.
CallInv(N, c) ==
  /\ CallCore(N, c)
  /\ c.at # c.node /\ c.at \notin c.todo /\ c.at \notin c.acks
  /\ c.kind = "election" =>
       (c.reply # NoReply /\ c.reply.granted => Voted(N, c.node, c.at))
  /\ c.kind = "proposal" =>
       /\ ~c.answered => c.request = AppendRequest(N[c.node], c.node, c.at)
       /\ c.reply # NoReply /\ c.reply.success => Holds(N, c.node, c.at)

NodesInv(N, E) == ElectionInv(N, E) /\ LogInv(N, E) /\ MachineInv(N)

CallsInv(N, C) == \A t \in Threads : C[t] # Idle => CallInv(N, C[t])

VerifiedGrows == \A n \in Nodes : InitiallyVerified[n] \subseteq verified[n]

IInv == VerifiedGrows /\ NodesInv(nodes, elected) /\ CallsInv(nodes, calls)

-----------------------------------------------------------------------------
(* Steps that change no log and no machine.                                 *)

Cluster == [Nodes -> RaftNodes]

\* Logs stay, terms do not fall and nobody becomes a leader.
SameLogs(N, M) ==
  \A n \in Nodes :
    /\ M[n].log = N[n].log /\ M[n].term >= N[n].term
    /\ M[n].role = "leader" => N[n].role = "leader" /\ M[n].term = N[n].term

SameMachines(N, M) ==
  \A n \in Nodes : /\ M[n].machine = N[n].machine
                    /\ M[n].commit = N[n].commit /\ M[n].applied = N[n].applied

LEMMA NodeFields ==
  ASSUME NEW N \in Cluster, NEW n \in Nodes
  PROVE  /\ N[n] \in RaftNodes
         /\ N[n].term \in Nat /\ N[n].vote \in Nodes \cup {NoVote} /\ N[n].role \in Roles
         /\ N[n].log \in Seq(Entries) /\ N[n].machine \in Seq(Entries)
         /\ N[n].commit \in Nat /\ N[n].applied \in Nat
         /\ \A i \in 1 .. Len(N[n].log) : N[n].log[i] \in Entries /\ N[n].log[i].term \in Nat
         /\ Applied(N[n].machine) \in Nat
<1>1. N[n] \in RaftNodes
  BY DEF Cluster
<1>2. /\ N[n].term \in Nat /\ N[n].vote \in Nodes \cup {NoVote} /\ N[n].role \in Roles
      /\ N[n].log \in Seq(Entries) /\ N[n].machine \in Seq(Entries)
      /\ N[n].commit \in Nat /\ N[n].applied \in Nat
  BY <1>1 DEF RaftNodes
<1>3. \A i \in 1 .. Len(N[n].log) : N[n].log[i] \in Entries
  BY <1>2
<1>4. \A e \in Entries : e.term \in Nat
  BY DEF Entries
<1>5. Applied(N[n].machine) \in Nat
  BY <1>2, TermAtType DEF Applied
<1> QED BY <1>1, <1>2, <1>3, <1>4, <1>5

LEMMA QuietLogs ==
  ASSUME NEW N \in Cluster, NEW M \in Cluster, NEW E, SameLogs(N, M), LogInv(N, E)
  PROVE  LogInv(M, E)
<1>1. EntriesWon(M, E)
  <2> SUFFICES ASSUME NEW n \in Nodes, NEW i \in 1 .. Len(M[n].log)
               PROVE  M[n].log[i].term <= M[n].term /\ \E l \in Nodes : <<l, M[n].log[i].term>> \in E
    BY DEF EntriesWon
  <2>1. M[n].log = N[n].log /\ M[n].term >= N[n].term
    BY DEF SameLogs
  <2>2. N[n].log[i].term \in Nat /\ N[n].term \in Nat /\ M[n].term \in Nat
    BY <2>1, NodeFields
  <2>3. N[n].log[i].term <= N[n].term /\ \E l \in Nodes : <<l, N[n].log[i].term>> \in E
    BY <2>1 DEF LogInv, EntriesWon
  <2> QED BY <2>1, <2>2, <2>3
<1>2. Sorted(M)
  BY DEF SameLogs, LogInv, Sorted
<1>3. LeaderHasAll(M)
  BY DEF SameLogs, LogInv, LeaderHasAll
<1>4. TermsAlign(M)
  <2> SUFFICES ASSUME NEW a \in Nodes, NEW b \in Nodes,
                      NEW i \in 1 .. Len(M[a].log), NEW j \in 1 .. Len(M[b].log),
                      i <= j, M[a].log[i].term = M[b].log[j].term
               PROVE  M[b].log[i].term = M[a].log[i].term
    BY DEF TermsAlign
  <2>1. M[a].log = N[a].log /\ M[b].log = N[b].log
    BY DEF SameLogs
  <2> QED BY <2>1 DEF LogInv, TermsAlign
<1>5. Matching(M)
  <2> SUFFICES ASSUME NEW a \in Nodes, NEW b \in Nodes, NEW i \in 1 .. Len(M[a].log),
                      i <= Len(M[b].log), M[a].log[i].term = M[b].log[i].term
               PROVE  \A j \in 1 .. i : M[a].log[j] = M[b].log[j]
    BY DEF Matching
  <2>1. M[a].log = N[a].log /\ M[b].log = N[b].log
    BY DEF SameLogs
  <2> QED BY <2>1 DEF LogInv, Matching
<1> QED BY <1>1, <1>2, <1>3, <1>4, <1>5 DEF LogInv

LEMMA QuietMachines ==
  ASSUME NEW N \in Cluster, NEW M \in Cluster, SameLogs(N, M), SameMachines(N, M), MachineInv(N)
  PROVE  MachineInv(M)
<1>1. MachineIsLog(M)
  BY DEF SameLogs, SameMachines, MachineInv, MachineIsLog
<1>2. MajorityHolds(M)
  <2> SUFFICES ASSUME NEW n \in Nodes
               PROVE  \E Q \in SUBSET Nodes : Majority(Q) /\ \A v \in Q : Pre(M[n].machine, M[v].log)
    BY DEF MajorityHolds
  <2>1. PICK Q \in SUBSET Nodes : Majority(Q) /\ \A v \in Q : Pre(N[n].machine, N[v].log)
    BY DEF MachineInv, MajorityHolds
  <2>2. \A v \in Q : Pre(M[n].machine, M[v].log)
    BY <2>1 DEF SameLogs, SameMachines
  <2> QED BY <2>1, <2>2
<1>3. LeadersHold(M)
  BY DEF SameLogs, SameMachines, MachineInv, LeadersHold
<1>4. LaterLogsHold(M)
  BY DEF SameLogs, SameMachines, MachineInv, LaterLogsHold
<1> QED BY <1>1, <1>2, <1>3, <1>4 DEF MachineInv

\* One node changes its term, vote or role: the elections won stay won.
LEMMA QuietElections ==
  ASSUME NEW N \in Cluster, NEW E \in SUBSET (Nodes \X Nat), NEW p \in Nodes, NEW y \in RaftNodes,
         ElectionInv(N, E),
         y.role # "follower" => y.vote = p,
         y.role = "leader" => N[p].role = "leader" /\ y.term = N[p].term,
         y.term >= N[p].term,
         y.term = N[p].term =>
           /\ N[p].role = "leader" => y.role = "leader"
           /\ y.vote = N[p].vote \/ \A e \in E : e[2] = N[p].term => e[1] # N[p].vote
  PROVE  ElectionInv([N EXCEPT ![p] = y], E)
<1> DEFINE M == [N EXCEPT ![p] = y]
<1>1. M \in Cluster /\ M[p] = y /\ \A n \in Nodes : n # p => M[n] = N[n]
  BY DEF Cluster
<1>2. \A n \in Nodes : N[n].term \in Nat /\ M[n].term \in Nat
  BY <1>1, NodeFields
<1>3. \A e \in E : e[1] \in Nodes /\ e[2] \in Nat
  OBVIOUS
<1> HIDE DEF M
<1>4. SelfVote(M)
  BY <1>1 DEF ElectionInv, SelfVote
<1>5. LeadersWon(M, E)
  BY <1>1 DEF ElectionInv, LeadersWon
<1>6. WonLead(M, E)
  <2> SUFFICES ASSUME NEW e \in E
               PROVE  /\ e[2] >= 1 /\ e[2] <= M[e[1]].term
                      /\ e[2] = M[e[1]].term => M[e[1]].role = "leader"
    BY DEF WonLead
  <2>1. /\ e[2] >= 1 /\ e[2] <= N[e[1]].term
        /\ e[2] = N[e[1]].term => N[e[1]].role = "leader"
    BY DEF ElectionInv, WonLead
  <2>2. CASE e[1] = p
    BY <1>1, <1>2, <1>3, <2>1, <2>2
  <2>3. CASE e[1] # p
    BY <1>1, <1>3, <2>1, <2>3
  <2> QED BY <2>2, <2>3
<1>7. WonByMajority(M, E)
  <2> SUFFICES ASSUME NEW e \in E
               PROVE  \E Q \in SUBSET Nodes : Majority(Q) /\ \A v \in Q : VotesFor(M, e, v)
    BY DEF WonByMajority
  <2>1. PICK Q \in SUBSET Nodes : Majority(Q) /\ \A v \in Q : VotesFor(N, e, v)
    BY DEF ElectionInv, WonByMajority
  <2>2. ASSUME NEW v \in Q
        PROVE  VotesFor(M, e, v)
    <3>1. VotesFor(N, e, v)
      BY <2>1
    <3>2. CASE v # p
      BY <1>1, <3>1, <3>2 DEF VotesFor
    <3>3. CASE v = p
      BY <1>1, <1>2, <1>3, <3>1, <3>3 DEF VotesFor
    <3> QED BY <3>2, <3>3
  <2> QED BY <2>1, <2>2
<1>8. OneWinner(E)
  BY DEF ElectionInv
<1> QED BY <1>4, <1>5, <1>6, <1>7, <1>8 DEF ElectionInv, M

-----------------------------------------------------------------------------
(* A candidate with the votes of a majority becomes leader.                 *)

LEMMA MajoritiesMeet ==
  ASSUME NEW Q \in SUBSET Nodes, NEW R \in SUBSET Nodes, Majority(Q), Majority(R)
  PROVE  \E v \in Nodes : v \in Q /\ v \in R
<1>1. IsFiniteSet(Q) /\ IsFiniteSet(R)
  BY ClusterAssumption, FS_Subset
<1>2. Cardinality(Q) \in Nat /\ Cardinality(R) \in Nat /\ Cardinality(Nodes) \in Nat
  BY <1>1, ClusterAssumption, FS_CardinalityType
<1>3. Cardinality(Q) + Cardinality(R) > Cardinality(Nodes)
  BY <1>2 DEF Majority
<1>4. Q \cap R # {}
  BY <1>3, ClusterAssumption, FS_MajoritiesIntersect
<1> QED BY <1>4

LEMMA PreTransitive ==
  ASSUME NEW s \in Seq(Entries), NEW u \in Seq(Entries), NEW w \in Seq(Entries),
         Pre(s, u), Pre(u, w)
  PROVE  Pre(s, w)
BY DEF Pre

\* An entry's term was won, so it is not the term 0 of a new node.
LEMMA EntryTermPositive ==
  ASSUME NEW N \in Cluster, NEW E \in SUBSET (Nodes \X Nat), ElectionInv(N, E), LogInv(N, E),
         NEW n \in Nodes, NEW i \in 1 .. Len(N[n].log)
  PROVE  N[n].log[i].term \in Nat /\ N[n].log[i].term >= 1 /\ N[n].log[i].term <= N[n].term
<1>1. PICK l \in Nodes : <<l, N[n].log[i].term>> \in E
  BY DEF LogInv, EntriesWon
<1>2. N[n].log[i].term >= 1
  BY <1>1 DEF ElectionInv, WonLead
<1> QED BY <1>2, NodeFields DEF LogInv, EntriesWon

\* The last applied entry, and the term it has in every log that holds it.
LEMMA AppliedEntry ==
  ASSUME NEW N \in Cluster, NEW n \in Nodes, NEW v \in Nodes, Pre(N[n].machine, N[v].log),
         N[n].machine # <<>>
  PROVE  /\ Len(N[n].machine) \in 1 .. Len(N[v].log)
         /\ Applied(N[n].machine) = N[v].log[Len(N[n].machine)].term
<1>1. N[n].machine \in Seq(Entries) /\ N[v].log \in Seq(Entries)
  BY NodeFields
<1>2. Len(N[n].machine) \in 1 .. Len(N[n].machine) /\ Len(N[n].machine) <= Len(N[v].log)
  BY <1>1, EmptySeq DEF Pre
<1>3. N[n].machine[Len(N[n].machine)] = N[v].log[Len(N[n].machine)]
  BY <1>2 DEF Pre
<1>4. DOMAIN N[n].machine = 1 .. Len(N[n].machine)
  BY <1>1
<1> QED BY <1>1, <1>2, <1>3, <1>4 DEF Applied, TermAt

\* The test of handle_request_vote keeps out a log that lacks applied entries:
\* what the voter holds of a machine, the candidate holds too.
LEMMA UpToDateLogHolds ==
  ASSUME NEW N \in Cluster, NEW E \in SUBSET (Nodes \X Nat),
         ElectionInv(N, E), LogInv(N, E), MachineInv(N),
         NEW n \in Nodes, NEW v \in Nodes, NEW k \in Nodes,
         Pre(N[n].machine, N[v].log), LogUpToDate(N[v], VoteRequest(N[k], k))
  PROVE  Pre(N[n].machine, N[k].log)
<1> DEFINE s == N[n].machine
<1> DEFINE u == N[v].log
<1> DEFINE w == N[k].log
<1>0. s \in Seq(Entries) /\ u \in Seq(Entries) /\ w \in Seq(Entries)
  BY NodeFields
<1>1. CASE s = <<>>
  BY <1>0, <1>1, EmptySeq DEF Pre
<1>2. CASE s # <<>>
  <2>1. Len(s) \in 1 .. Len(u) /\ Applied(s) = u[Len(s)].term
    BY <1>2, AppliedEntry
  <2>2. Len(u) \in 1 .. Len(u) /\ LastTerm(N[v]) = u[Len(u)].term
    BY <1>0, <2>1 DEF LastTerm, TermAt
  <2>3. u[Len(u)].term \in Nat /\ u[Len(u)].term >= 1
    BY <2>2, EntryTermPositive
  <2>4. u[Len(s)].term <= u[Len(u)].term
    BY <2>1, <2>2 DEF LogInv, Sorted
  <2>5. \/ LastTerm(N[k]) > LastTerm(N[v])
        \/ LastTerm(N[k]) = LastTerm(N[v]) /\ Len(w) >= Len(u)
    BY DEF LogUpToDate, VoteRequest
  <2>6. Len(w) \in 1 .. Len(w) /\ LastTerm(N[k]) = w[Len(w)].term
    BY <1>0, <2>2, <2>3, <2>5 DEF LastTerm, TermAt
  <2>7. w[Len(w)].term \in Nat /\ u[Len(s)].term \in Nat
    BY <2>1, <2>6, EntryTermPositive
  <2>8. CASE LastTerm(N[k]) > LastTerm(N[v])
    <3>1. w[Len(w)].term > Applied(s)
      BY <2>1, <2>2, <2>3, <2>4, <2>6, <2>7, <2>8
    <3> QED BY <3>1, <2>6 DEF MachineInv, LaterLogsHold
  <2>9. CASE LastTerm(N[k]) = LastTerm(N[v]) /\ Len(w) >= Len(u)
    <3>1. w[Len(u)].term = u[Len(u)].term
      <4>1. u[Len(u)].term = w[Len(w)].term
        BY <2>2, <2>6, <2>9
      <4> QED BY <2>2, <2>6, <2>9, <4>1 DEF LogInv, TermsAlign
    <3>2. \A j \in 1 .. Len(u) : u[j] = w[j]
      BY <2>2, <2>9, <3>1 DEF LogInv, Matching
    <3>3. Pre(u, w)
      BY <3>2, <2>9 DEF Pre
    <3> QED BY <1>0, <3>3, PreTransitive
  <2> QED BY <2>5, <2>8, <2>9
<1> QED BY <1>1, <1>2

\* The term a candidate wins was won by nobody before.
LEMMA WinIsNew ==
  ASSUME NEW N \in Cluster, NEW E \in SUBSET (Nodes \X Nat), ElectionInv(N, E),
         NEW n \in Nodes, N[n].role # "leader",
         NEW A \in SUBSET Nodes, Majority(A),
         \A v \in A : N[v].term = N[n].term /\ N[v].vote = n
  PROVE  \A e \in E : e[2] # N[n].term
<1> SUFFICES ASSUME NEW e \in E, e[2] = N[n].term
             PROVE  FALSE
  OBVIOUS
<1>1. PICK Q \in SUBSET Nodes : Majority(Q) /\ \A v \in Q : VotesFor(N, e, v)
  BY DEF ElectionInv, WonByMajority
<1>2. PICK v \in Nodes : v \in Q /\ v \in A
  BY <1>1, MajoritiesMeet
<1>3. VotesFor(N, e, v) /\ N[v].term = N[n].term /\ N[v].vote = n
  BY <1>1, <1>2
<1>4. N[n].term \in Nat
  BY NodeFields
<1>5. e[1] = n
  BY <1>3, <1>4 DEF VotesFor
<1> QED BY <1>5 DEF ElectionInv, WonLead

LEMMA WinKeeps ==
  ASSUME NEW N \in Cluster, NEW E \in SUBSET (Nodes \X Nat),
         ElectionInv(N, E), LogInv(N, E), MachineInv(N),
         NEW n \in Nodes, N[n].role = "candidate", N[n].term >= 1,
         NEW A \in SUBSET Nodes, Majority(A), \A v \in A : Voted(N, n, v)
  PROVE  LET M == [N EXCEPT ![n] = BecomeLeader(N[n])]
             F == E \cup {<<n, N[n].term>>}
         IN ElectionInv(M, F) /\ LogInv(M, F) /\ MachineInv(M)
<1> DEFINE M == [N EXCEPT ![n] = BecomeLeader(N[n])]
<1> DEFINE F == E \cup {<<n, N[n].term>>}
<1>1. N[n] \in RaftNodes /\ BecomeLeader(N[n]) \in RaftNodes
  BY NodeFields, BecomeCandidateType
<1>2. /\ M \in Cluster
      /\ M[n].term = N[n].term /\ M[n].vote = N[n].vote /\ M[n].log = N[n].log
      /\ M[n].machine = N[n].machine /\ M[n].commit = N[n].commit /\ M[n].applied = N[n].applied
      /\ M[n].role = "leader"
      /\ \A k \in Nodes : k # n => M[k] = N[k]
  BY <1>1 DEF Cluster, BecomeLeader, RaftNodes
<1>3. \A k \in Nodes : /\ M[k].term = N[k].term /\ M[k].vote = N[k].vote /\ M[k].log = N[k].log
                       /\ M[k].machine = N[k].machine /\ M[k].commit = N[k].commit
                       /\ M[k].applied = N[k].applied
  BY <1>2
<1>4. \A v \in A : N[v].term = N[n].term /\ N[v].vote = n
  BY DEF Voted
<1>5. \A e \in E : e[2] # N[n].term
  BY <1>4, WinIsNew
<1>6. \A k \in Nodes : N[k].term \in Nat
  BY NodeFields
<1>7. \A e \in E : e[1] \in Nodes /\ e[2] \in Nat
  OBVIOUS
<1>8. \A e \in F : e \in E \/ (e[1] = n /\ e[2] = N[n].term)
  OBVIOUS
<1>9. <<n, N[n].term>> \in F /\ E \subseteq F
  OBVIOUS
<1> HIDE DEF M, F
<1>10. ElectionInv(M, F)
  <2>1. SelfVote(M)
    <3>1. N[n].vote = n
      BY DEF ElectionInv, SelfVote
    <3> QED BY <1>2, <3>1 DEF ElectionInv, SelfVote
  <2>2. LeadersWon(M, F)
    BY <1>2, <1>9 DEF ElectionInv, LeadersWon
  <2>3. WonLead(M, F)
    <3> SUFFICES ASSUME NEW e \in F
                 PROVE  /\ e[2] >= 1 /\ e[2] <= M[e[1]].term
                        /\ e[2] = M[e[1]].term => M[e[1]].role = "leader"
      BY DEF WonLead
    <3>1. CASE e \in E
      <4>1. /\ e[2] >= 1 /\ e[2] <= N[e[1]].term
            /\ e[2] = N[e[1]].term => N[e[1]].role = "leader"
        BY <3>1 DEF ElectionInv, WonLead
      <4> QED BY <3>1, <4>1, <1>2, <1>7
    <3>2. CASE e[1] = n /\ e[2] = N[n].term
      BY <1>2, <1>6, <3>2
    <3> QED BY <1>8, <3>1, <3>2
  <2>4. WonByMajority(M, F)
    <3> SUFFICES ASSUME NEW e \in F
                 PROVE  \E Q \in SUBSET Nodes : Majority(Q) /\ \A v \in Q : VotesFor(M, e, v)
      BY DEF WonByMajority
    <3>1. CASE e \in E
      <4>1. PICK Q \in SUBSET Nodes : Majority(Q) /\ \A v \in Q : VotesFor(N, e, v)
        BY <3>1 DEF ElectionInv, WonByMajority
      <4>2. \A v \in Q : VotesFor(M, e, v)
        BY <4>1, <1>3 DEF VotesFor
      <4> QED BY <4>1, <4>2
    <3>2. CASE e[1] = n /\ e[2] = N[n].term
      <4>1. \A v \in A : VotesFor(M, e, v)
        BY <3>2, <1>3, <1>4 DEF VotesFor
      <4> QED BY <4>1
    <3> QED BY <1>8, <3>1, <3>2
  <2>5. OneWinner(F)
    <3> SUFFICES ASSUME NEW a \in F, NEW b \in F, a[2] = b[2]
                 PROVE  a[1] = b[1]
      BY DEF OneWinner
    <3> QED BY <1>5, <1>8 DEF ElectionInv, OneWinner
  <2> QED BY <2>1, <2>2, <2>3, <2>4, <2>5 DEF ElectionInv
<1>11. LogInv(M, F)
  <2>1. EntriesWon(M, F)
    <3> SUFFICES ASSUME NEW k \in Nodes, NEW i \in 1 .. Len(M[k].log)
                 PROVE  M[k].log[i].term <= M[k].term /\ \E l \in Nodes : <<l, M[k].log[i].term>> \in F
      BY DEF EntriesWon
    <3>1. i \in 1 .. Len(N[k].log)
      BY <1>3
    <3>2. N[k].log[i].term <= N[k].term /\ \E l \in Nodes : <<l, N[k].log[i].term>> \in E
      BY <3>1 DEF LogInv, EntriesWon
    <3> QED BY <3>2, <1>3, <1>9
  <2>2. Sorted(M)
    BY <1>3 DEF LogInv, Sorted
  <2>3. LeaderHasAll(M)
    <3> SUFFICES ASSUME NEW l \in Nodes, NEW k \in Nodes, NEW i \in 1 .. Len(M[k].log),
                        M[l].role = "leader", M[k].log[i].term = M[l].term
                 PROVE  i <= Len(M[l].log) /\ M[l].log[i].term = M[l].term
      BY DEF LeaderHasAll
    <3>1. i \in 1 .. Len(N[k].log) /\ N[k].log[i].term = N[l].term
      BY <1>3
    <3>2. CASE l = n
      <4>1. PICK w \in Nodes : <<w, N[k].log[i].term>> \in E
        BY <3>1 DEF LogInv, EntriesWon
      <4> QED BY <3>1, <3>2, <4>1, <1>5
    <3>3. CASE l # n
      <4>1. N[l].role = "leader"
        BY <1>2, <3>3
      <4> QED BY <3>1, <4>1, <1>3 DEF LogInv, LeaderHasAll
    <3> QED BY <3>2, <3>3
  <2>4. TermsAlign(M)
    <3> SUFFICES ASSUME NEW a \in Nodes, NEW b \in Nodes,
                        NEW i \in 1 .. Len(M[a].log), NEW j \in 1 .. Len(M[b].log),
                        i <= j, M[a].log[i].term = M[b].log[j].term
                 PROVE  M[b].log[i].term = M[a].log[i].term
      BY DEF TermsAlign
    <3>1. M[a].log = N[a].log /\ M[b].log = N[b].log
      BY <1>3
    <3> QED BY <3>1 DEF LogInv, TermsAlign
  <2>5. Matching(M)
    <3> SUFFICES ASSUME NEW a \in Nodes, NEW b \in Nodes, NEW i \in 1 .. Len(M[a].log),
                        i <= Len(M[b].log), M[a].log[i].term = M[b].log[i].term
                 PROVE  \A j \in 1 .. i : M[a].log[j] = M[b].log[j]
      BY DEF Matching
    <3>1. M[a].log = N[a].log /\ M[b].log = N[b].log
      BY <1>3
    <3> QED BY <3>1 DEF LogInv, Matching
  <2> QED BY <2>1, <2>2, <2>3, <2>4, <2>5 DEF LogInv
<1>12. MachineInv(M)
  <2>1. MachineIsLog(M)
    BY <1>3 DEF MachineInv, MachineIsLog
  <2>2. MajorityHolds(M)
    <3> SUFFICES ASSUME NEW k \in Nodes
                 PROVE  \E Q \in SUBSET Nodes : Majority(Q) /\ \A v \in Q : Pre(M[k].machine, M[v].log)
      BY DEF MajorityHolds
    <3>1. PICK Q \in SUBSET Nodes : Majority(Q) /\ \A v \in Q : Pre(N[k].machine, N[v].log)
      BY DEF MachineInv, MajorityHolds
    <3> QED BY <3>1, <1>3
  <2>3. LeadersHold(M)
    <3> SUFFICES ASSUME NEW k \in Nodes, NEW l \in Nodes, M[l].role = "leader",
                        M[l].term >= Applied(M[k].machine)
                 PROVE  Pre(M[k].machine, M[l].log)
      BY DEF LeadersHold
    <3>1. CASE l # n
      BY <3>1, <1>2, <1>3 DEF MachineInv, LeadersHold
    <3>2. CASE l = n
      <4>1. PICK Q \in SUBSET Nodes : Majority(Q) /\ \A v \in Q : Pre(N[k].machine, N[v].log)
        BY DEF MachineInv, MajorityHolds
      <4>2. PICK v \in Nodes : v \in Q /\ v \in A
        BY <4>1, MajoritiesMeet
      <4>3. Pre(N[k].machine, N[v].log) /\ LogUpToDate(N[v], VoteRequest(N[n], n))
        BY <4>1, <4>2 DEF Voted
      <4>4. Pre(N[k].machine, N[n].log)
        BY <4>3, UpToDateLogHolds
      <4> QED BY <4>4, <3>2, <1>3
    <3> QED BY <3>1, <3>2
  <2>4. LaterLogsHold(M)
    BY <1>3 DEF MachineInv, LaterLogsHold
  <2> QED BY <2>1, <2>2, <2>3, <2>4 DEF MachineInv
<1> QED BY <1>10, <1>11, <1>12 DEF M, F

-----------------------------------------------------------------------------
(* A leader appends an entry of its term to its own log.                    *)

LEMMA AppendKeeps ==
  ASSUME NEW N \in Cluster, NEW E \in SUBSET (Nodes \X Nat),
         ElectionInv(N, E), LogInv(N, E), MachineInv(N),
         NEW n \in Nodes, N[n].role = "leader", NEW value \in Values
  PROVE  LET M == [N EXCEPT ![n] = AppendLocally(N[n], value)]
         IN ElectionInv(M, E) /\ LogInv(M, E) /\ MachineInv(M)
<1> DEFINE y == AppendLocally(N[n], value)
<1> DEFINE M == [N EXCEPT ![n] = y]
<1> DEFINE k == Len(N[n].log) + 1
<1> DEFINE T == N[n].term
<1>1. N[n] \in RaftNodes /\ y \in RaftNodes /\ N[n].log \in Seq(Entries) /\ T \in Nat
  BY NodeFields, AppendLocallyType
<1>2. /\ y.term = T /\ y.vote = N[n].vote /\ y.role = "leader"
      /\ y.machine = N[n].machine /\ y.commit = N[n].commit /\ y.applied = N[n].applied
      /\ y.log = Append(N[n].log, [term |-> T, value |-> value])
  BY <1>1 DEF AppendLocally, RaftNodes
<1>3. M \in Cluster /\ M[n] = y /\ \A a \in Nodes : a # n => M[a] = N[a]
  BY <1>1 DEF Cluster
<1>4. [term |-> T, value |-> value] \in Entries /\ [term |-> T, value |-> value].term = T
  BY <1>1 DEF Entries
<1>5. /\ Len(y.log) = k /\ k \in Nat
      /\ \A i \in 1 .. Len(N[n].log) : y.log[i] = N[n].log[i]
      /\ y.log[k].term = T
  BY <1>1, <1>2, <1>4, AppendProperties
<1>6. ElectionInv(M, E)
  <2>1. y.vote = n
    BY <1>2 DEF ElectionInv, SelfVote
  <2>2. y.term >= N[n].term
    BY <1>1, <1>2
  <2> HIDE DEF y
  <2> QED BY <1>1, <1>2, <2>1, <2>2, QuietElections
<1> HIDE DEF M, y
<1>7. \A a \in Nodes : /\ M[a].term = N[a].term /\ M[a].role = N[a].role
                       /\ M[a].machine = N[a].machine /\ M[a].commit = N[a].commit
                       /\ M[a].applied = N[a].applied /\ Pre(N[a].log, M[a].log)
  <2>1. Pre(N[n].log, M[n].log)
    BY <1>1, <1>3, <1>5 DEF Pre
  <2>2. \A a \in Nodes : Pre(N[a].log, N[a].log)
    BY NodeFields DEF Pre
  <2> QED BY <1>2, <1>3, <2>1, <2>2
<1>8. ASSUME NEW a \in Nodes, NEW i \in 1 .. Len(M[a].log)
      PROVE  \/ i \in 1 .. Len(N[a].log) /\ M[a].log[i] = N[a].log[i]
             \/ a = n /\ i = k /\ M[a].log[i].term = T
  <2>1. CASE a # n
    BY <2>1, <1>3
  <2>2. CASE a = n
    <3>1. i \in 1 .. k
      BY <2>2, <1>3, <1>5
    <3>2. CASE i = k
      BY <2>2, <3>2, <1>3, <1>5
    <3>3. CASE i # k
      <4>1. i \in 1 .. Len(N[n].log)
        BY <1>1, <3>1, <3>3
      <4> QED BY <2>2, <4>1, <1>3, <1>5
    <3> QED BY <3>2, <3>3
  <2> QED BY <2>1, <2>2
<1>9. \A a \in Nodes : \A i \in 1 .. Len(N[a].log) : N[a].log[i].term = T =>
        i <= Len(N[n].log) /\ N[n].log[i].term = T
  BY DEF LogInv, LeaderHasAll
<1>10. \A a \in Nodes : N[a].log \in Seq(Entries) /\ M[a].log \in Seq(Entries)
  BY <1>3, NodeFields
<1> HIDE DEF T
<1>11. LogInv(M, E)
  <2>1. EntriesWon(M, E)
    <3> SUFFICES ASSUME NEW a \in Nodes, NEW i \in 1 .. Len(M[a].log)
                 PROVE  M[a].log[i].term <= M[a].term /\ \E l \in Nodes : <<l, M[a].log[i].term>> \in E
      BY DEF EntriesWon
    <3>1. CASE i \in 1 .. Len(N[a].log) /\ M[a].log[i] = N[a].log[i]
      BY <3>1, <1>7 DEF LogInv, EntriesWon
    <3>2. CASE a = n /\ i = k /\ M[a].log[i].term = T
      <4>1. <<n, T>> \in E
        BY DEF ElectionInv, LeadersWon, T
      <4>2. T <= M[n].term
        BY <1>7, <1>1 DEF T
      <4> QED BY <3>2, <4>1, <4>2
    <3> QED BY <1>8, <3>1, <3>2
  <2>2. Sorted(M)
    <3> SUFFICES ASSUME NEW a \in Nodes, NEW j \in 1 .. Len(M[a].log), NEW i \in 1 .. j
                 PROVE  M[a].log[i].term <= M[a].log[j].term
      BY DEF Sorted
    <3>1. i \in 1 .. Len(M[a].log)
      BY <1>10
    <3>2. CASE j \in 1 .. Len(N[a].log) /\ M[a].log[j] = N[a].log[j]
      <4>1. i \in 1 .. Len(N[a].log) /\ M[a].log[i] = N[a].log[i]
        BY <3>2, <1>7, <1>10 DEF Pre
      <4> QED BY <3>2, <4>1 DEF LogInv, Sorted
    <3>3. CASE a = n /\ j = k /\ M[a].log[j].term = T
      <4>1. CASE i \in 1 .. Len(N[a].log) /\ M[a].log[i] = N[a].log[i]
        BY <3>3, <4>1 DEF LogInv, EntriesWon, T
      <4>2. CASE i = k
        BY <3>3, <4>2, <1>1
      <4> QED BY <1>8, <3>1, <4>1, <4>2
    <3> QED BY <1>8, <3>2, <3>3
  <2>3. LeaderHasAll(M)
    <3> SUFFICES ASSUME NEW l \in Nodes, NEW a \in Nodes, NEW i \in 1 .. Len(M[a].log),
                        M[l].role = "leader", M[a].log[i].term = M[l].term
                 PROVE  i <= Len(M[l].log) /\ M[l].log[i].term = M[l].term
      BY DEF LeaderHasAll
    <3>1. N[l].role = "leader" /\ M[l].term = N[l].term
      BY <1>7
    <3>2. CASE i \in 1 .. Len(N[a].log) /\ M[a].log[i] = N[a].log[i]
      <4>1. i <= Len(N[l].log) /\ N[l].log[i].term = N[l].term
        BY <3>1, <3>2 DEF LogInv, LeaderHasAll
      <4>2. i \in 1 .. Len(N[l].log)
        BY <3>2, <4>1, <1>10
      <4>3. i <= Len(M[l].log) /\ M[l].log[i] = N[l].log[i]
        BY <4>2, <1>7, <1>10 DEF Pre
      <4> QED BY <3>1, <4>1, <4>3
    <3>3. CASE a = n /\ i = k /\ M[a].log[i].term = T
      <4>1. <<l, T>> \in E /\ <<n, T>> \in E
        BY <3>1, <3>3 DEF ElectionInv, LeadersWon, T
      <4>2. l = n
        BY <4>1 DEF ElectionInv, OneWinner
      <4> QED BY <3>3, <4>2, <1>10
    <3> QED BY <1>8, <3>2, <3>3
  <2>4. TermsAlign(M)
    <3> SUFFICES ASSUME NEW a \in Nodes, NEW b \in Nodes,
                        NEW i \in 1 .. Len(M[a].log), NEW j \in 1 .. Len(M[b].log),
                        i <= j, M[a].log[i].term = M[b].log[j].term
                 PROVE  M[b].log[i].term = M[a].log[i].term
      BY DEF TermsAlign
    <3>1. CASE /\ i \in 1 .. Len(N[a].log) /\ M[a].log[i] = N[a].log[i]
               /\ j \in 1 .. Len(N[b].log) /\ M[b].log[j] = N[b].log[j]
      <4>1. N[b].log[i].term = N[a].log[i].term
        BY <3>1 DEF LogInv, TermsAlign
      <4>2. i \in 1 .. Len(N[b].log)
        BY <3>1, <1>10
      <4> QED BY <3>1, <4>1, <4>2, <1>7 DEF Pre
    <3>2. CASE /\ i \in 1 .. Len(N[a].log) /\ M[a].log[i] = N[a].log[i]
               /\ b = n /\ j = k /\ M[b].log[j].term = T
      <4>1. i <= Len(N[n].log) /\ N[n].log[i].term = T
        BY <3>2, <1>9
      <4>2. M[n].log[i] = N[n].log[i]
        BY <3>2, <4>1, <1>7, <1>10 DEF Pre
      <4> QED BY <3>2, <4>1, <4>2
    <3>3. CASE /\ a = n /\ i = k /\ M[a].log[i].term = T
               /\ j \in 1 .. Len(N[b].log) /\ M[b].log[j] = N[b].log[j]
      <4>1. j <= Len(N[n].log)
        BY <3>3, <1>9
      <4> QED BY <3>3, <4>1, <1>5, <1>10
    <3>4. CASE a = n /\ i = k /\ b = n /\ j = k
      BY <3>4
    <3> QED BY <1>8, <3>1, <3>2, <3>3, <3>4
  <2>5. Matching(M)
    <3> SUFFICES ASSUME NEW a \in Nodes, NEW b \in Nodes, NEW i \in 1 .. Len(M[a].log),
                        i <= Len(M[b].log), M[a].log[i].term = M[b].log[i].term
                 PROVE  \A j \in 1 .. i : M[a].log[j] = M[b].log[j]
      BY DEF Matching
    <3>0. i \in 1 .. Len(M[b].log)
      BY <1>10
    <3>1. CASE /\ i \in 1 .. Len(N[a].log) /\ M[a].log[i] = N[a].log[i]
               /\ i \in 1 .. Len(N[b].log) /\ M[b].log[i] = N[b].log[i]
      <4>1. \A j \in 1 .. i : N[a].log[j] = N[b].log[j]
        BY <3>1, <1>10 DEF LogInv, Matching
      <4>2. \A j \in 1 .. i : M[a].log[j] = N[a].log[j] /\ M[b].log[j] = N[b].log[j]
        BY <3>1, <1>7, <1>10 DEF Pre
      <4> QED BY <4>1, <4>2
    <3>2. CASE /\ i \in 1 .. Len(N[a].log) /\ M[a].log[i] = N[a].log[i]
               /\ b = n /\ i = k /\ M[b].log[i].term = T
      <4>1. i <= Len(N[n].log)
        BY <3>2, <1>9
      <4> QED BY <3>2, <4>1, <1>5, <1>10
    <3>3. CASE /\ a = n /\ i = k /\ M[a].log[i].term = T
               /\ i \in 1 .. Len(N[b].log) /\ M[b].log[i] = N[b].log[i]
      <4>1. i <= Len(N[n].log)
        BY <3>3, <1>9
      <4> QED BY <3>3, <4>1, <1>5, <1>10
    <3>4. CASE a = n /\ b = n
      BY <3>4
    <3> QED BY <1>8, <3>0, <3>1, <3>2, <3>3, <3>4
  <2> QED BY <2>1, <2>2, <2>3, <2>4, <2>5 DEF LogInv
<1>12. \A a, v \in Nodes : Pre(N[a].machine, N[v].log) => Pre(M[a].machine, M[v].log)
  BY <1>7, <1>10, PreTransitive, NodeFields
<1>13. MachineInv(M)
  <2>1. MachineIsLog(M)
    BY <1>7, <1>12 DEF MachineInv, MachineIsLog
  <2>2. MajorityHolds(M)
    <3> SUFFICES ASSUME NEW a \in Nodes
                 PROVE  \E Q \in SUBSET Nodes : Majority(Q) /\ \A v \in Q : Pre(M[a].machine, M[v].log)
      BY DEF MajorityHolds
    <3>1. PICK Q \in SUBSET Nodes : Majority(Q) /\ \A v \in Q : Pre(N[a].machine, N[v].log)
      BY DEF MachineInv, MajorityHolds
    <3> QED BY <3>1, <1>12
  <2>3. LeadersHold(M)
    BY <1>7, <1>12 DEF MachineInv, LeadersHold
  <2>4. LaterLogsHold(M)
    <3> SUFFICES ASSUME NEW a \in Nodes, NEW v \in Nodes, NEW i \in 1 .. Len(M[v].log),
                        M[v].log[i].term > Applied(M[a].machine)
                 PROVE  Pre(M[a].machine, M[v].log)
      BY DEF LaterLogsHold
    <3>1. CASE i \in 1 .. Len(N[v].log) /\ M[v].log[i] = N[v].log[i]
      BY <3>1, <1>7, <1>12 DEF MachineInv, LaterLogsHold
    <3>2. CASE v = n /\ i = k /\ M[v].log[i].term = T
      <4>1. N[n].term >= Applied(N[a].machine)
        BY <3>2, <1>7, NodeFields DEF T
      <4>2. Pre(N[a].machine, N[n].log)
        BY <4>1 DEF MachineInv, LeadersHold
      <4> QED BY <3>2, <4>2, <1>12
    <3> QED BY <1>8, <3>1, <3>2
  <2> QED BY <2>1, <2>2, <2>3, <2>4 DEF MachineInv
<1> QED BY <1>6, <1>11, <1>13 DEF M, y

-----------------------------------------------------------------------------
(* A follower's log becomes a prefix of a log there was: cut, kept, or the  *)
(* leader's.                                                                *)

LEMMA PrefixLogsKeep ==
  ASSUME NEW N \in Cluster, NEW E, LogInv(N, E),
         NEW p \in Nodes, NEW q \in Nodes, NEW y \in RaftNodes,
         N[p].role # "leader", y.role = N[p].role, y.term = N[p].term,
         N[q].term <= N[p].term, Pre(y.log, N[q].log)
  PROVE  LogInv([N EXCEPT ![p] = y], E)
<1> DEFINE M == [N EXCEPT ![p] = y]
<1> DEFINE src(a) == IF a = p THEN q ELSE a
<1>1. M \in Cluster /\ M[p] = y /\ \A a \in Nodes : a # p => M[a] = N[a]
  BY DEF Cluster
<1>2. \A a \in Nodes : N[a].log \in Seq(Entries) /\ M[a].log \in Seq(Entries)
                       /\ N[a].term \in Nat /\ M[a].term \in Nat
  BY <1>1, NodeFields
<1>3. \A a \in Nodes : src(a) \in Nodes /\ Pre(M[a].log, N[src(a)].log) /\ N[src(a)].term <= M[a].term
  BY <1>1, <1>2 DEF Pre
<1>4. \A a \in Nodes : M[a].role = "leader" =>
        N[a].role = "leader" /\ M[a].log = N[a].log /\ M[a].term = N[a].term
  BY <1>1
<1> HIDE DEF M, src
<1>5. \A a \in Nodes : \A i \in 1 .. Len(M[a].log) :
        i \in 1 .. Len(N[src(a)].log) /\ M[a].log[i] = N[src(a)].log[i]
  BY <1>2, <1>3 DEF Pre
<1>6. EntriesWon(M, E)
  <2> SUFFICES ASSUME NEW a \in Nodes, NEW i \in 1 .. Len(M[a].log)
               PROVE  M[a].log[i].term <= M[a].term /\ \E l \in Nodes : <<l, M[a].log[i].term>> \in E
    BY DEF EntriesWon
  <2>1. i \in 1 .. Len(N[src(a)].log) /\ M[a].log[i] = N[src(a)].log[i] /\ src(a) \in Nodes
    BY <1>3, <1>5
  <2>2. N[src(a)].log[i].term <= N[src(a)].term /\ \E l \in Nodes : <<l, N[src(a)].log[i].term>> \in E
    BY <2>1 DEF LogInv, EntriesWon
  <2>3. N[src(a)].log[i].term \in Nat /\ N[src(a)].term \in Nat /\ M[a].term \in Nat
        /\ N[src(a)].term <= M[a].term
    BY <2>1, <1>2, <1>3, NodeFields
  <2> QED BY <2>1, <2>2, <2>3
<1>7. Sorted(M)
  <2> SUFFICES ASSUME NEW a \in Nodes, NEW j \in 1 .. Len(M[a].log), NEW i \in 1 .. j
               PROVE  M[a].log[i].term <= M[a].log[j].term
    BY DEF Sorted
  <2>1. i \in 1 .. Len(M[a].log)
    BY <1>2
  <2>2. /\ src(a) \in Nodes /\ j \in 1 .. Len(N[src(a)].log) /\ M[a].log[j] = N[src(a)].log[j]
        /\ M[a].log[i] = N[src(a)].log[i]
    BY <2>1, <1>3, <1>5
  <2> QED BY <2>2 DEF LogInv, Sorted
<1>8. LeaderHasAll(M)
  <2> SUFFICES ASSUME NEW l \in Nodes, NEW a \in Nodes, NEW i \in 1 .. Len(M[a].log),
                      M[l].role = "leader", M[a].log[i].term = M[l].term
               PROVE  i <= Len(M[l].log) /\ M[l].log[i].term = M[l].term
    BY DEF LeaderHasAll
  <2>1. src(a) \in Nodes /\ i \in 1 .. Len(N[src(a)].log) /\ M[a].log[i] = N[src(a)].log[i]
    BY <1>3, <1>5
  <2>2. N[l].role = "leader" /\ M[l].log = N[l].log /\ M[l].term = N[l].term
    BY <1>4
  <2> QED BY <2>1, <2>2 DEF LogInv, LeaderHasAll
<1>9. TermsAlign(M)
  <2> SUFFICES ASSUME NEW a \in Nodes, NEW b \in Nodes,
                      NEW i \in 1 .. Len(M[a].log), NEW j \in 1 .. Len(M[b].log),
                      i <= j, M[a].log[i].term = M[b].log[j].term
               PROVE  M[b].log[i].term = M[a].log[i].term
    BY DEF TermsAlign
  <2>1. i \in 1 .. Len(M[b].log)
    BY <1>2
  <2>2. /\ src(a) \in Nodes /\ i \in 1 .. Len(N[src(a)].log) /\ M[a].log[i] = N[src(a)].log[i]
        /\ src(b) \in Nodes /\ j \in 1 .. Len(N[src(b)].log) /\ M[b].log[j] = N[src(b)].log[j]
        /\ M[b].log[i] = N[src(b)].log[i]
    BY <2>1, <1>3, <1>5
  <2> QED BY <2>2 DEF LogInv, TermsAlign
<1>10. Matching(M)
  <2> SUFFICES ASSUME NEW a \in Nodes, NEW b \in Nodes, NEW i \in 1 .. Len(M[a].log),
                      i <= Len(M[b].log), M[a].log[i].term = M[b].log[i].term,
                      NEW j \in 1 .. i
               PROVE  M[a].log[j] = M[b].log[j]
    BY DEF Matching
  <2>1. i \in 1 .. Len(M[b].log) /\ j \in 1 .. Len(M[a].log) /\ j \in 1 .. Len(M[b].log)
    BY <1>2
  <2>2. /\ src(a) \in Nodes /\ i \in 1 .. Len(N[src(a)].log) /\ M[a].log[i] = N[src(a)].log[i]
        /\ src(b) \in Nodes /\ i \in 1 .. Len(N[src(b)].log) /\ M[b].log[i] = N[src(b)].log[i]
        /\ M[a].log[j] = N[src(a)].log[j] /\ M[b].log[j] = N[src(b)].log[j]
    BY <2>1, <1>3, <1>5
  <2>3. i <= Len(N[src(b)].log)
    BY <2>2
  <2> QED BY <2>2, <2>3 DEF LogInv, Matching
<1> QED BY <1>6, <1>7, <1>8, <1>9, <1>10 DEF LogInv, M

\* What holds of a node's term, vote and role alone survives a change of log.
LEMMA LogChangeKeepsElections ==
  ASSUME NEW N \in Cluster, NEW E \in SUBSET (Nodes \X Nat), ElectionInv(N, E),
         NEW p \in Nodes, NEW y \in RaftNodes,
         y.role = N[p].role, y.term = N[p].term, y.vote = N[p].vote
  PROVE  ElectionInv([N EXCEPT ![p] = y], E)
<1>1. N[p].term \in Nat
  BY NodeFields
<1>2. y.role # "follower" => y.vote = p
  BY DEF ElectionInv, SelfVote
<1>3. y.term >= N[p].term
  BY <1>1
<1> QED BY <1>2, <1>3, QuietElections

\* handle_append_entries finds an entry of another term where the leader's
\* entries begin, and drops it with what follows: nothing applied is lost.
LEMMA CutKeeps ==
  ASSUME NEW N \in Cluster, NEW E \in SUBSET (Nodes \X Nat),
         ElectionInv(N, E), LogInv(N, E), MachineInv(N),
         NEW p \in Nodes, N[p].role # "leader",
         NEW l \in Nodes, N[l].role = "leader", N[l].term = N[p].term,
         NEW prev \in Nat, prev <= Len(N[p].log),
         TermAt(N[p].log, prev) # TermAt(N[l].log, prev)
  PROVE  LET M == [N EXCEPT ![p] = CutLog(N[p], prev)]
         IN ElectionInv(M, E) /\ LogInv(M, E) /\ MachineInv(M)
<1> DEFINE y == CutLog(N[p], prev)
<1> DEFINE M == [N EXCEPT ![p] = y]
<1>1. N[p] \in RaftNodes /\ y \in RaftNodes /\ N[p].log \in Seq(Entries) /\ N[l].log \in Seq(Entries)
      /\ N[p].term \in Nat
  BY NodeFields, CutLogType
<1>2. /\ y.term = N[p].term /\ y.vote = N[p].vote /\ y.role = N[p].role
      /\ y.machine = N[p].machine /\ y.commit = N[p].commit /\ y.applied = N[p].applied
      /\ y.log = SubSeq(N[p].log, 1, prev - 1)
  BY <1>1 DEF CutLog, RaftNodes
<1>3. prev >= 1
  BY <1>1 DEF TermAt
<1>4. Len(y.log) = prev - 1 /\ \A i \in 1 .. Len(y.log) : y.log[i] = N[p].log[i]
  <2>1. /\ Len(y.log) = IF prev - 1 < 1 THEN 0 ELSE prev - 1 - 1 + 1
        /\ \A i \in 1 .. Len(y.log) : y.log[i] = N[p].log[1 + i - 1]
    BY <1>1, <1>2, SliceElements
  <2> QED BY <1>3, <2>1
<1> HIDE DEF y
<1>5. Pre(y.log, N[p].log)
  BY <1>1, <1>4 DEF Pre
<1>6. M \in Cluster /\ M[p] = y /\ \A a \in Nodes : a # p => M[a] = N[a]
  BY <1>1 DEF Cluster
<1>7. ElectionInv(M, E)
  BY <1>1, <1>2, LogChangeKeepsElections
<1>8. LogInv(M, E)
  <2>1. N[p].term <= N[p].term
    BY <1>1
  <2> QED BY <1>1, <1>2, <1>5, <2>1, PrefixLogsKeep
<1> HIDE DEF M
<1>9. ASSUME NEW n \in Nodes, Pre(N[n].machine, N[p].log)
      PROVE  Pre(N[n].machine, y.log)
  <2>0. N[n].machine \in Seq(Entries)
    BY NodeFields
  <2>1. CASE N[n].machine = <<>>
    BY <2>0, <2>1, <1>1, <1>4, EmptySeq DEF Pre
  <2>2. CASE N[n].machine # <<>>
    <3>1. /\ Len(N[n].machine) \in 1 .. Len(N[p].log)
          /\ Applied(N[n].machine) = N[p].log[Len(N[n].machine)].term
      BY <2>2, <1>9, AppliedEntry
    <3>2. N[l].term >= Applied(N[n].machine)
      BY <3>1, EntryTermPositive, <1>1
    <3>3. Pre(N[n].machine, N[l].log)
      BY <3>2 DEF MachineInv, LeadersHold
    <3>4. Len(N[n].machine) < prev
      <4> SUFFICES ASSUME Len(N[n].machine) >= prev
                   PROVE  FALSE
        BY <2>0
      <4>1. prev \in 1 .. Len(N[n].machine)
        BY <2>0, <1>3
      <4>2. N[p].log[prev] = N[l].log[prev] /\ prev <= Len(N[l].log)
        BY <4>1, <3>3, <1>9, <2>0, <1>1 DEF Pre
      <4>3. prev \in DOMAIN N[p].log /\ prev \in DOMAIN N[l].log
        BY <4>2, <1>1, <1>3
      <4> QED BY <4>2, <4>3 DEF TermAt
    <3> QED BY <3>4, <2>0, <1>4, <1>9, <1>1 DEF Pre
  <2> QED BY <2>1, <2>2
<1>10. \A a \in Nodes : M[a].machine = N[a].machine /\ M[a].commit = N[a].commit
                        /\ M[a].applied = N[a].applied
                        /\ M[a].role = N[a].role /\ M[a].term = N[a].term
  BY <1>2, <1>6
<1>11. \A a, v \in Nodes : Pre(N[a].machine, N[v].log) => Pre(M[a].machine, M[v].log)
  BY <1>6, <1>9, <1>10
<1>12. MachineInv(M)
  <2>1. MachineIsLog(M)
    BY <1>10, <1>11 DEF MachineInv, MachineIsLog
  <2>2. MajorityHolds(M)
    <3> SUFFICES ASSUME NEW a \in Nodes
                 PROVE  \E Q \in SUBSET Nodes : Majority(Q) /\ \A v \in Q : Pre(M[a].machine, M[v].log)
      BY DEF MajorityHolds
    <3>1. PICK Q \in SUBSET Nodes : Majority(Q) /\ \A v \in Q : Pre(N[a].machine, N[v].log)
      BY DEF MachineInv, MajorityHolds
    <3> QED BY <3>1, <1>11
  <2>3. LeadersHold(M)
    BY <1>10, <1>11 DEF MachineInv, LeadersHold
  <2>4. LaterLogsHold(M)
    <3> SUFFICES ASSUME NEW a \in Nodes, NEW v \in Nodes, NEW i \in 1 .. Len(M[v].log),
                        M[v].log[i].term > Applied(M[a].machine)
                 PROVE  Pre(M[a].machine, M[v].log)
      BY DEF LaterLogsHold
    <3>1. i \in 1 .. Len(N[v].log) /\ M[v].log[i] = N[v].log[i]
      <4>1. CASE v = p
        BY <4>1, <1>1, <1>4, <1>6, <1>5 DEF Pre
      <4>2. CASE v # p
        BY <4>2, <1>6
      <4> QED BY <4>1, <4>2
    <3>2. Pre(N[a].machine, N[v].log)
      BY <3>1, <1>10 DEF MachineInv, LaterLogsHold
    <3> QED BY <3>2, <1>11
  <2> QED BY <2>1, <2>2, <2>3, <2>4 DEF MachineInv
<1> QED BY <1>7, <1>8, <1>12 DEF M, y

-----------------------------------------------------------------------------
(* A follower takes the leader's entries and its commit index.              *)

LEMMA AppliedBound ==
  ASSUME NEW N \in Cluster, NEW E \in SUBSET (Nodes \X Nat), ElectionInv(N, E), LogInv(N, E),
         NEW n \in Nodes, NEW v \in Nodes, Pre(N[n].machine, N[v].log)
  PROVE  Applied(N[n].machine) \in Nat /\ Applied(N[n].machine) <= N[v].term
<1>1. CASE N[n].machine = <<>>
  <2>1. Applied(N[n].machine) = 0
    BY <1>1 DEF Applied, TermAt
  <2> QED BY <2>1, NodeFields
<1>2. CASE N[n].machine # <<>>
  BY <1>2, AppliedEntry, EntryTermPositive
<1> QED BY <1>1, <1>2

LEMMA TakeEntriesGives ==
  ASSUME NEW N \in Cluster, NEW E \in SUBSET (Nodes \X Nat),
         ElectionInv(N, E), LogInv(N, E), MachineInv(N),
         NEW p \in Nodes, NEW l \in Nodes, N[l].role = "leader", N[l].term = N[p].term,
         NEW args, args = AppendRequest(N[l], l, p),
         args.prev <= Len(N[p].log), TermAt(N[p].log, args.prev) = args.prevTerm,
         NEW y, y = TakeEntries(N[p], args)
  PROVE  /\ y \in RaftNodes
         /\ y.term = N[p].term /\ y.vote = N[p].vote /\ y.role = N[p].role
         /\ y.log \in {N[p].log, N[l].log}
         /\ Pre(N[l].log, y.log)
         /\ Pre(y.machine, y.log) /\ Pre(N[p].machine, y.machine)
         /\ y.commit = Len(y.machine) /\ y.applied = Len(y.machine)
         /\ y.machine \in {N[p].machine, N[l].machine}
<1> DEFINE prev == N[l].next[p] - 1
<1>1. /\ N[p] \in RaftNodes /\ N[l] \in RaftNodes
      /\ N[p].log \in Seq(Entries) /\ N[l].log \in Seq(Entries)
      /\ N[p].machine \in Seq(Entries) /\ N[l].machine \in Seq(Entries)
      /\ N[p].commit \in Nat /\ N[p].term \in Nat
  BY NodeFields
<1>2. prev \in Nat
  <2>1. N[l].next \in [Nodes -> Nat \ {0}]
    BY <1>1 DEF RaftNodes
  <2> QED BY <2>1
<1>3. /\ args.prev = prev /\ args.prevTerm = TermAt(N[l].log, prev)
      /\ args.entries = SubSeq(N[l].log, prev + 1, Len(N[l].log)) /\ args.commit = N[l].commit
  BY DEF AppendRequest
<1>4. y \in RaftNodes
  BY <1>1, AppendRequestType, TakeEntriesType
<1> HIDE DEF prev
<1>5. prev <= Len(N[l].log) /\ (prev > 0 => N[p].log[prev].term = N[l].log[prev].term)
  <2>1. CASE prev = 0
    BY <2>1, <1>1
  <2>2. CASE prev # 0
    <3>1. prev \in 1 .. Len(N[p].log)
      BY <1>1, <1>2, <1>3, <2>2
    <3>2. N[p].log[prev].term >= 1 /\ N[p].log[prev].term \in Nat
      BY <3>1, EntryTermPositive
    <3>3. TermAt(N[p].log, prev) = N[p].log[prev].term
      BY <3>1, <1>1 DEF TermAt
    <3>4. prev \in DOMAIN N[l].log /\ TermAt(N[l].log, prev) = N[l].log[prev].term
      BY <3>2, <3>3, <1>3 DEF TermAt
    <3> QED BY <3>3, <3>4, <1>1, <1>3
  <2> QED BY <2>1, <2>2
<1>6. Agreeing(N[p].log, N[l].log)
  BY DEF Agreeing, LogInv, Matching
<1>7. PICK G : G = Merge(N[p].log, prev, args.entries)
  OBVIOUS
<1>8. G \in {N[p].log, N[l].log} /\ Pre(N[l].log, G)
  <2>1. G = Merge(N[p].log, prev, SubSeq(N[l].log, prev + 1, Len(N[l].log)))
    BY <1>3, <1>7
  <2>2. prev <= Len(N[p].log)
    BY <1>3
  <2> QED BY <1>1, <1>2, <1>5, <1>6, <2>1, <2>2, MergeOfLeaderLog
<1>9. /\ N[p].applied = Len(N[p].machine) /\ N[p].commit = Len(N[p].machine)
      /\ N[l].commit = Len(N[l].machine)
      /\ Pre(N[p].machine, N[p].log) /\ Pre(N[l].machine, N[l].log)
  BY DEF MachineInv, MachineIsLog
<1>10. Pre(N[p].machine, N[l].log)
  <2>1. N[l].term >= Applied(N[p].machine)
    BY <1>9, <1>1, AppliedBound
  <2> QED BY <2>1 DEF MachineInv, LeadersHold
<1>11. Pre(N[p].machine, G)
  BY <1>8, <1>9, <1>10
<1>12. PICK x : x = [N[p] EXCEPT !.log = G]
  OBVIOUS
<1>13. /\ x \in RaftNodes /\ x.log = G /\ x.machine = N[p].machine /\ x.applied = N[p].applied
       /\ x.commit = N[p].commit /\ x.term = N[p].term /\ x.vote = N[p].vote /\ x.role = N[p].role
  BY <1>1, <1>8, <1>12 DEF RaftNodes
<1>14. y = AdvanceCommit(x, args.commit)
  BY <1>3, <1>7, <1>12 DEF TakeEntries
<1>15. G \in Seq(Entries)
  BY <1>1, <1>8
<1>16. CASE ~(args.commit > x.commit)
  <2>1. y = x
    BY <1>14, <1>16 DEF AdvanceCommit
  <2>2. Pre(N[p].machine, N[p].machine)
    BY <1>1 DEF Pre
  <2> QED BY <2>1, <2>2, <1>8, <1>9, <1>11, <1>13
<1>17. CASE args.commit > x.commit
  <2>1. Pre(N[l].machine, G)
    BY <1>1, <1>8, <1>9, <1>15, PreTransitive
  <2>2. Smaller(args.commit, Len(x.log)) = Len(N[l].machine)
    BY <2>1, <1>1, <1>3, <1>9, <1>13, <1>15 DEF Smaller, Pre
  <2>3. PICK z : z = [x EXCEPT !.commit = Len(N[l].machine)]
    OBVIOUS
  <2>4. y = ApplyCommitted(z)
    BY <2>2, <2>3, <1>14, <1>17 DEF AdvanceCommit
  <2>5. /\ z \in RaftNodes /\ z.log = G /\ z.machine = N[p].machine /\ z.applied = N[p].applied
        /\ z.commit = Len(N[l].machine)
        /\ z.term = N[p].term /\ z.vote = N[p].vote /\ z.role = N[p].role
    <3>1. Len(N[l].machine) \in Nat
      BY <1>1
    <3> QED BY <3>1, <1>13, <2>3 DEF RaftNodes
  <2>6. Len(N[p].machine) <= Len(N[l].machine)
    BY <1>1, <1>3, <1>9, <1>13, <1>17
  <2>7. /\ y.machine = N[l].machine /\ y.applied = Len(N[l].machine) /\ y.commit = Len(N[l].machine)
        /\ y.log = G /\ y.term = N[p].term /\ y.vote = N[p].vote /\ y.role = N[p].role
    BY <1>1, <1>9, <1>11, <2>1, <2>4, <2>5, <2>6, ApplyCommittedGives
  <2>8. Pre(N[p].machine, N[l].machine)
    BY <1>1, <1>11, <1>15, <2>1, <2>6 DEF Pre
  <2> QED BY <2>1, <2>7, <2>8, <1>4, <1>8
<1> QED BY <1>16, <1>17

LEMMA TakeEntriesKeeps ==
  ASSUME NEW N \in Cluster, NEW E \in SUBSET (Nodes \X Nat),
         ElectionInv(N, E), LogInv(N, E), MachineInv(N),
         NEW p \in Nodes, NEW l \in Nodes, N[p].role # "leader",
         N[l].role = "leader", N[l].term = N[p].term,
         NEW args, args = AppendRequest(N[l], l, p),
         args.prev <= Len(N[p].log), TermAt(N[p].log, args.prev) = args.prevTerm,
         NEW y, y = TakeEntries(N[p], args)
  PROVE  LET M == [N EXCEPT ![p] = y]
         IN ElectionInv(M, E) /\ LogInv(M, E) /\ MachineInv(M)
<1> DEFINE M == [N EXCEPT ![p] = y]
<1>1. /\ y \in RaftNodes
      /\ y.term = N[p].term /\ y.vote = N[p].vote /\ y.role = N[p].role
      /\ y.log \in {N[p].log, N[l].log}
      /\ Pre(y.machine, y.log)
      /\ y.commit = Len(y.machine) /\ y.applied = Len(y.machine)
      /\ y.machine \in {N[p].machine, N[l].machine}
  BY TakeEntriesGives
<1>2. M \in Cluster /\ M[p] = y /\ \A a \in Nodes : a # p => M[a] = N[a]
  BY <1>1 DEF Cluster
<1>3. ElectionInv(M, E)
  BY <1>1, LogChangeKeepsElections
<1>4. N[p].log \in Seq(Entries) /\ N[l].log \in Seq(Entries) /\ N[p].term \in Nat
  BY NodeFields
<1>5. LogInv(M, E)
  <2>1. Pre(N[p].log, N[p].log) /\ Pre(N[l].log, N[l].log) /\ N[p].term <= N[p].term
        /\ N[l].term <= N[p].term
    BY <1>4 DEF Pre
  <2> QED BY <1>1, <2>1, PrefixLogsKeep
<1> HIDE DEF M
<1> DEFINE m(a) == IF a = p /\ y.machine # N[p].machine THEN l ELSE a
<1> DEFINE g(a) == IF a = p /\ y.log # N[p].log THEN l ELSE a
<1>6. \A a \in Nodes : m(a) \in Nodes /\ M[a].machine = N[m(a)].machine
  BY <1>1, <1>2
<1>7. \A a \in Nodes : g(a) \in Nodes /\ M[a].log = N[g(a)].log
  BY <1>1, <1>2
<1> HIDE DEF m, g
<1>8. ASSUME NEW a \in Nodes, NEW v \in Nodes, Pre(N[a].machine, N[v].log)
      PROVE  Pre(N[a].machine, M[v].log)
  <2>1. CASE v = p /\ M[v].log = N[l].log
    <3>1. N[l].term >= Applied(N[a].machine)
      BY <1>4, <1>8, <2>1, AppliedBound
    <3>2. Pre(N[a].machine, N[l].log)
      BY <3>1 DEF MachineInv, LeadersHold
    <3> QED BY <2>1, <3>2
  <2>2. CASE M[v].log = N[v].log
    BY <1>8, <2>2
  <2> QED BY <1>1, <1>2, <2>1, <2>2
<1>9. MachineInv(M)
  <2>1. MachineIsLog(M)
    BY <1>1, <1>2 DEF MachineInv, MachineIsLog
  <2>2. MajorityHolds(M)
    <3> SUFFICES ASSUME NEW a \in Nodes
                 PROVE  \E Q \in SUBSET Nodes : Majority(Q) /\ \A v \in Q : Pre(M[a].machine, M[v].log)
      BY DEF MajorityHolds
    <3>1. PICK Q \in SUBSET Nodes : Majority(Q) /\ \A v \in Q : Pre(N[m(a)].machine, N[v].log)
      BY <1>6 DEF MachineInv, MajorityHolds
    <3> QED BY <3>1, <1>6, <1>8
  <2>3. LeadersHold(M)
    <3> SUFFICES ASSUME NEW a \in Nodes, NEW k \in Nodes, M[k].role = "leader",
                        M[k].term >= Applied(M[a].machine)
                 PROVE  Pre(M[a].machine, M[k].log)
      BY DEF LeadersHold
    <3>1. M[k] = N[k]
      BY <1>1, <1>2
    <3> QED BY <3>1, <1>6 DEF MachineInv, LeadersHold
  <2>4. LaterLogsHold(M)
    <3> SUFFICES ASSUME NEW a \in Nodes, NEW v \in Nodes, NEW i \in 1 .. Len(M[v].log),
                        M[v].log[i].term > Applied(M[a].machine)
                 PROVE  Pre(M[a].machine, M[v].log)
      BY DEF LaterLogsHold
    <3>1. i \in 1 .. Len(N[g(v)].log) /\ N[g(v)].log[i].term > Applied(N[m(a)].machine)
      BY <1>6, <1>7
    <3>2. Pre(N[m(a)].machine, N[g(v)].log)
      BY <3>1, <1>6, <1>7 DEF MachineInv, LaterLogsHold
    <3> QED BY <3>2, <1>6, <1>7
  <2> QED BY <2>1, <2>2, <2>3, <2>4 DEF MachineInv
<1> QED BY <1>3, <1>5, <1>9 DEF M

-----------------------------------------------------------------------------
(* A leader commits its log once a majority holds it.                       *)

LEMMA CommitKeeps ==
  ASSUME NEW N \in Cluster, NEW E \in SUBSET (Nodes \X Nat),
         ElectionInv(N, E), LogInv(N, E), MachineInv(N),
         NEW n \in Nodes, N[n].role = "leader",
         Len(N[n].log) > 0, N[n].log[Len(N[n].log)].term = N[n].term,
         NEW A \in SUBSET Nodes, Majority(A), \A v \in A : Holds(N, n, v),
         NEW y, y = CommitAt(N[n], Len(N[n].log))
  PROVE  LET M == [N EXCEPT ![n] = y]
         IN /\ ElectionInv(M, E) /\ LogInv(M, E) /\ MachineInv(M)
            /\ Pre(N[n].machine, y.machine)
<1> DEFINE M == [N EXCEPT ![n] = y]
<1> DEFINE L == N[n].log
<1> DEFINE T == N[n].term
<1>1. N[n] \in RaftNodes /\ L \in Seq(Entries) /\ N[n].machine \in Seq(Entries) /\ T \in Nat
      /\ y \in RaftNodes
  BY NodeFields, CommitAtType
<1>2. /\ N[n].applied = Len(N[n].machine) /\ Pre(N[n].machine, L)
  BY DEF MachineInv, MachineIsLog
<1>3. PICK z : z = [N[n] EXCEPT !.commit = Len(L)]
  OBVIOUS
<1>4. /\ z \in RaftNodes /\ z.log = L /\ z.machine = N[n].machine /\ z.applied = N[n].applied
      /\ z.commit = Len(L) /\ z.term = T /\ z.vote = N[n].vote /\ z.role = N[n].role
  <2>1. Len(L) \in Nat
    BY <1>1
  <2> HIDE DEF L
  <2>2. z \in RaftNodes /\ z.commit = Len(L)
    BY <1>1, <1>3, <2>1 DEF RaftNodes
  <2>3. /\ z.log = N[n].log /\ z.machine = N[n].machine /\ z.applied = N[n].applied
        /\ z.term = N[n].term /\ z.vote = N[n].vote /\ z.role = N[n].role
    BY <1>1, <1>3 DEF RaftNodes
  <2> QED BY <2>2, <2>3 DEF L
<1>5. Pre(L, L) /\ Len(N[n].machine) <= Len(L)
  BY <1>1, <1>2 DEF Pre
<1>6. y = ApplyCommitted(z)
  BY <1>3 DEF CommitAt
<1>7. /\ y.machine = L /\ y.applied = Len(L) /\ y.commit = Len(L)
      /\ y.log = L /\ y.term = T /\ y.vote = N[n].vote /\ y.role = N[n].role
  <2> HIDE DEF L, T
  <2> QED BY <1>1, <1>2, <1>4, <1>5, <1>6, ApplyCommittedGives
<1>8. M \in Cluster /\ M[n] = y /\ \A a \in Nodes : a # n => M[a] = N[a]
  BY <1>1 DEF Cluster
<1>9. ElectionInv(M, E)
  BY <1>1, <1>7, LogChangeKeepsElections
<1> HIDE DEF M
<1>10. \A a \in Nodes : M[a].log = N[a].log /\ M[a].term = N[a].term /\ M[a].role = N[a].role
  BY <1>7, <1>8
<1>11. LogInv(M, E)
  <2>1. \A a \in Nodes : N[a].term \in Nat
    BY NodeFields
  <2>2. SameLogs(N, M)
    BY <2>1, <1>10 DEF SameLogs
  <2> QED BY <2>2, <1>8, QuietLogs
<1>12. ASSUME NEW e \in E
       PROVE  e[2] \in Nat /\ e[2] <= T
  <2>1. PICK Q \in SUBSET Nodes : Majority(Q) /\ \A v \in Q : VotesFor(N, e, v)
    BY DEF ElectionInv, WonByMajority
  <2>2. PICK v \in Nodes : v \in Q /\ v \in A
    BY <2>1, MajoritiesMeet
  <2>3. VotesFor(N, e, v) /\ N[v].term = T
    BY <2>1, <2>2 DEF Holds
  <2> QED BY <2>3, <1>1 DEF VotesFor
<1>13. Applied(L) = T
  BY <1>1 DEF Applied, TermAt
<1> HIDE DEF L, T
<1>14. MachineInv(M)
  <2>1. MachineIsLog(M)
    BY <1>5, <1>7, <1>8 DEF MachineInv, MachineIsLog
  <2>2. MajorityHolds(M)
    <3> SUFFICES ASSUME NEW a \in Nodes
                 PROVE  \E Q \in SUBSET Nodes : Majority(Q) /\ \A v \in Q : Pre(M[a].machine, M[v].log)
      BY DEF MajorityHolds
    <3>1. CASE a = n
      <4>1. \A v \in A : Pre(L, N[v].log)
        BY DEF Holds, L
      <4> QED BY <3>1, <4>1, <1>7, <1>8, <1>10
    <3>2. CASE a # n
      <4>1. PICK Q \in SUBSET Nodes : Majority(Q) /\ \A v \in Q : Pre(N[a].machine, N[v].log)
        BY DEF MachineInv, MajorityHolds
      <4> QED BY <3>2, <4>1, <1>8, <1>10
    <3> QED BY <3>1, <3>2
  <2>3. LeadersHold(M)
    <3> SUFFICES ASSUME NEW a \in Nodes, NEW k \in Nodes, M[k].role = "leader",
                        M[k].term >= Applied(M[a].machine)
                 PROVE  Pre(M[a].machine, M[k].log)
      BY DEF LeadersHold
    <3>1. CASE a = n
      <4>1. N[k].role = "leader" /\ N[k].term >= T
        BY <3>1, <1>7, <1>8, <1>10, <1>13
      <4>2. <<k, N[k].term>> \in E
        BY <4>1 DEF ElectionInv, LeadersWon
      <4>3. N[k].term = T
        BY <4>1, <4>2, <1>1, <1>12
      <4>4. <<n, T>> \in E
        BY DEF ElectionInv, LeadersWon, T
      <4>5. k = n
        BY <4>2, <4>3, <4>4 DEF ElectionInv, OneWinner
      <4> QED BY <3>1, <4>5, <1>5, <1>7, <1>8
    <3>2. CASE a # n
      BY <3>2, <1>8, <1>10 DEF MachineInv, LeadersHold
    <3> QED BY <3>1, <3>2
  <2>4. LaterLogsHold(M)
    <3> SUFFICES ASSUME NEW a \in Nodes, NEW v \in Nodes, NEW i \in 1 .. Len(M[v].log),
                        M[v].log[i].term > Applied(M[a].machine)
                 PROVE  Pre(M[a].machine, M[v].log)
      BY DEF LaterLogsHold
    <3>1. CASE a = n
      <4>1. i \in 1 .. Len(N[v].log) /\ N[v].log[i].term > T
        BY <3>1, <1>7, <1>8, <1>10, <1>13
      <4>2. PICK w \in Nodes : <<w, N[v].log[i].term>> \in E
        BY <4>1 DEF LogInv, EntriesWon
      <4>3. N[v].log[i].term \in Nat /\ N[v].log[i].term <= T
        BY <4>2, <1>12
      <4> QED BY <4>1, <4>3, <1>1
    <3>2. CASE a # n
      BY <3>2, <1>8, <1>10 DEF MachineInv, LaterLogsHold
    <3> QED BY <3>1, <3>2
  <2> QED BY <2>1, <2>2, <2>3, <2>4 DEF MachineInv
<1>15. Pre(N[n].machine, y.machine)
  BY <1>2, <1>7 DEF L
<1> QED BY <1>9, <1>11, <1>14, <1>15 DEF M

-----------------------------------------------------------------------------
(* The invariant is kept by every step, when requests are served one at a   *)
(* time and every node has verified enough peers for its quorum to be a     *)
(* majority of the cluster.                                                 *)

OneAtATime == \A t, u \in Threads : t = u

MajorityQuorums ==
  \A n \in Nodes : 2 * Quorum(InitiallyVerified[n], n) > Cardinality(Nodes)

\* No machine takes back what it has applied.
Grow(N, M) == \A n \in Nodes : Pre(N[n].machine, M[n].machine)

LEMMA QuorumIsMajority ==
  ASSUME TypeOK, VerifiedGrows, MajorityQuorums, NEW n \in Nodes
  PROVE  2 * Quorum(verified[n], n) > Cardinality(Nodes)
<1> DEFINE A == InitiallyVerified[n] \ {n}
<1> DEFINE B == verified[n] \ {n}
<1>1. A \subseteq B
  BY DEF VerifiedGrows
<1>2. IsFiniteSet(B)
  BY ClusterAssumption, FS_Subset DEF TypeOK
<1>3. IsFiniteSet(A) /\ Cardinality(A) <= Cardinality(B)
  BY <1>1, <1>2, FS_Subset
<1>4. Cardinality(A) \in Nat /\ Cardinality(B) \in Nat /\ Cardinality(Nodes) \in Nat
  BY <1>2, <1>3, ClusterAssumption, FS_CardinalityType
<1>5. 2 * (((Cardinality(A) + 1) \div 2) + 1) > Cardinality(Nodes)
  BY DEF MajorityQuorums, Quorum
<1> HIDE DEF A, B
<1>6. \A a, b, c \in Nat : a <= b /\ 2 * (((a + 1) \div 2) + 1) > c
                           => 2 * (((b + 1) \div 2) + 1) > c
  OBVIOUS
<1>7. 2 * (((Cardinality(B) + 1) \div 2) + 1) > Cardinality(Nodes)
  BY <1>3, <1>4, <1>5, <1>6
<1> QED BY <1>7 DEF Quorum, B

LEMMA PreReflexive ==
  ASSUME NEW s \in Seq(Entries)
  PROVE  Pre(s, s)
BY DEF Pre

LEMMA GrowsWithOne ==
  ASSUME NEW N \in Cluster, NEW p \in Nodes, NEW y, Pre(N[p].machine, y.machine)
  PROVE  Grow(N, [N EXCEPT ![p] = y])
<1>1. \A n \in Nodes : Pre(N[n].machine, N[n].machine)
  BY NodeFields, PreReflexive
<1> QED BY <1>1 DEF Grow, Cluster

\* A node that changes its term, vote or role, and nothing else that counts.
LEMMA QuietStep ==
  ASSUME NEW N \in Cluster, NEW E \in SUBSET (Nodes \X Nat), NodesInv(N, E),
         NEW p \in Nodes, NEW y \in RaftNodes,
         ElectionInv([N EXCEPT ![p] = y], E),
         y.log = N[p].log, y.machine = N[p].machine,
         y.commit = N[p].commit, y.applied = N[p].applied,
         y.term >= N[p].term,
         y.role = "leader" => N[p].role = "leader" /\ y.term = N[p].term
  PROVE  NodesInv([N EXCEPT ![p] = y], E) /\ Grow(N, [N EXCEPT ![p] = y])
<1> DEFINE M == [N EXCEPT ![p] = y]
<1>1. M \in Cluster /\ M[p] = y /\ \A a \in Nodes : a # p => M[a] = N[a]
  BY DEF Cluster
<1>2. \A a \in Nodes : N[a].term \in Nat
  BY NodeFields
<1> HIDE DEF M
<1>3. SameLogs(N, M) /\ SameMachines(N, M)
  BY <1>1, <1>2 DEF SameLogs, SameMachines
<1>4. LogInv(M, E) /\ MachineInv(M)
  BY <1>1, <1>3, QuietLogs, QuietMachines DEF NodesInv
<1>5. Pre(N[p].machine, y.machine)
  BY NodeFields, PreReflexive
<1>6. Grow(N, M)
  BY <1>5, GrowsWithOne DEF M
<1> QED BY <1>4, <1>6 DEF NodesInv, M

LEMMA AskInv ==
  ASSUME NEW N \in Cluster, NEW call \in ElectionCalls \cup DraftProposals,
         NEW p \in call.todo, CallCore(N, call),
         NEW c, c = Ask(call, p, N[call.node])
  PROVE  CallInv(N, c)
<1>1. CASE call \in ElectionCalls
  <2>1. /\ c.kind = "election" /\ c.node = call.node /\ c.quorum = call.quorum
        /\ c.todo = call.todo \ {p} /\ c.acks = call.acks /\ c.at = p
        /\ c.request = call.request /\ c.reply = NoReply
    BY <1>1 DEF Ask, ElectionCalls
  <2> QED BY <1>1, <2>1 DEF CallInv, CallCore, ElectionCalls
<1>2. CASE call \in DraftProposals
  <2>1. /\ c.kind = "proposal" /\ c.node = call.node /\ c.quorum = call.quorum
        /\ c.todo = call.todo \ {p} /\ c.acks = call.acks /\ c.at = p
        /\ c.index = call.index /\ c.reply = NoReply
        /\ c.request = AppendRequest(N[call.node], call.node, p)
    BY <1>2 DEF Ask, DraftProposals
  <2> QED BY <1>2, <2>1 DEF CallInv, CallCore, DraftProposals
<1> QED BY <1>1, <1>2

LEMMA ContinueKeeps ==
  ASSUME TypeOK, OneAtATime, NEW t \in Threads,
         NEW call \in ElectionCalls \cup DraftProposals, NEW node \in RaftNodes,
         NEW M, M = [nodes EXCEPT ![call.node] = node],
         NodesInv(M, elected), CallCore(M, call), Grow(nodes, M), Continue(t, call, node)
  PROVE  NodesInv(nodes', elected) /\ CallsInv(nodes', calls') /\ Grow(nodes, nodes')
<1>1. /\ call.node \in Nodes /\ call.acks \in SUBSET Nodes /\ call.quorum \in Nat
      /\ call.kind \in {"election", "proposal"}
  BY DEF ElectionCalls, DraftProposals
<1>2. nodes \in Cluster /\ M \in Cluster /\ M[call.node] = node
  BY <1>1 DEF TypeOK, Cluster
<1>3. \A u \in Threads : u = t
  BY DEF OneAtATime
<1>4. calls \in [Threads -> ElectionCalls \cup ProposalCalls \cup {Idle}]
  BY DEF TypeOK
<1>5. CASE call.todo = {}
  <2>1. /\ calls' = [calls EXCEPT ![t] = Idle]
        /\ nodes' = [nodes EXCEPT ![call.node] = Finish(call, node)]
    BY <1>5 DEF Continue
  <2>2. CallsInv(nodes', calls')
    BY <1>3, <1>4, <2>1 DEF CallsInv
  <2>3. CASE call.kind = "proposal" /\ Cardinality(call.acks) >= call.quorum
    <3>1. PICK y : y = CommitAt(node, call.index)
      OBVIOUS
    <3>2. nodes' = [M EXCEPT ![call.node] = y]
      BY <2>1, <2>3, <3>1 DEF Finish
    <3>3. /\ M[call.node].role = "leader" /\ call.index = Len(M[call.node].log)
          /\ Len(M[call.node].log) > 0
          /\ M[call.node].log[Len(M[call.node].log)].term = M[call.node].term
          /\ \A v \in call.acks : Holds(M, call.node, v)
          /\ 2 * call.quorum > Cardinality(Nodes)
      BY <2>3 DEF CallCore
    <3>4. Majority(call.acks)
      <4>1. IsFiniteSet(call.acks)
        BY <1>1, ClusterAssumption, FS_Subset
      <4>2. Cardinality(call.acks) \in Nat /\ Cardinality(Nodes) \in Nat
        BY <4>1, ClusterAssumption, FS_CardinalityType
      <4> QED BY <4>2, <3>3, <2>3, <1>1 DEF Majority
    <3>5. y = CommitAt(M[call.node], Len(M[call.node].log))
      BY <3>1, <3>3, <1>2
    <3>6. elected \in SUBSET (Nodes \X Nat)
      BY DEF TypeOK
    <3>7. ElectionInv(M, elected) /\ LogInv(M, elected) /\ MachineInv(M)
      BY DEF NodesInv
    <3>8. /\ NodesInv([M EXCEPT ![call.node] = y], elected)
          /\ Pre(M[call.node].machine, y.machine)
      BY <1>1, <1>2, <3>3, <3>4, <3>5, <3>6, <3>7, CommitKeeps DEF NodesInv
    <3>9. y \in RaftNodes
      BY <3>5, <1>1, <1>2, NodeFields, CommitAtType
    <3>10. Grow(M, nodes')
      BY <3>2, <3>8, <1>1, <1>2, GrowsWithOne
    <3>11. nodes' \in Cluster
      BY <3>2, <3>9, <1>2 DEF Cluster
    <3>12. Grow(nodes, nodes')
      <4> SUFFICES ASSUME NEW n \in Nodes
                   PROVE  Pre(nodes[n].machine, nodes'[n].machine)
        BY DEF Grow
      <4>1. Pre(nodes[n].machine, M[n].machine) /\ Pre(M[n].machine, nodes'[n].machine)
        BY <3>10 DEF Grow
      <4>2. /\ nodes[n].machine \in Seq(Entries) /\ M[n].machine \in Seq(Entries)
            /\ nodes'[n].machine \in Seq(Entries)
        BY <1>2, <3>11, NodeFields
      <4> QED BY <4>1, <4>2, PreTransitive
    <3> QED BY <2>2, <3>2, <3>8, <3>12
  <2>4. CASE ~(call.kind = "proposal" /\ Cardinality(call.acks) >= call.quorum)
    <3>1. nodes' = M
      BY <2>1, <2>4 DEF Finish
    <3> QED BY <3>1, <2>2
  <2> QED BY <2>3, <2>4
<1>6. CASE call.todo # {}
  <2>1. PICK p \in call.todo : calls' = [calls EXCEPT ![t] = Ask(call, p, node)]
    BY <1>6 DEF Continue
  <2>2. nodes' = M
    BY <1>6 DEF Continue
  <2>3. PICK c : c = Ask(call, p, node)
    OBVIOUS
  <2>4. CallInv(M, c)
    BY <1>2, <2>3, AskInv
  <2>5. \A u \in Threads : calls'[u] = c
    BY <1>3, <1>4, <2>1, <2>3
  <2> QED BY <2>2, <2>4, <2>5 DEF CallsInv
<1> QED BY <1>5, <1>6

-----------------------------------------------------------------------------
(* What a handler does to the cluster.                                      *)

LEMMA VoteHandled ==
  ASSUME NEW N \in Cluster, NEW E \in SUBSET (Nodes \X Nat), NodesInv(N, E),
         NEW p \in Nodes, NEW k \in Nodes, p # k, NEW V,
         NEW args \in VoteRequests, args = VoteRequest(N[k], k),
         NEW r, r = HandleRequestVote(N[p], args, V),
         NEW M, M = [N EXCEPT ![p] = r.node]
  PROVE  /\ NodesInv(M, E) /\ Grow(N, M)
         /\ r.reply.granted => Voted(M, k, p)
<1>1. N[p] \in RaftNodes /\ N[k] \in RaftNodes /\ N[p].term \in Nat /\ N[k].term \in Nat
      /\ N[p].vote \in Nodes \cup {NoVote}
  BY NodeFields
<1>2. args.term = N[k].term /\ args.candidate = k
  BY DEF VoteRequest
<1>3. PICK m : m = HearCandidate(N[p], args)
  OBVIOUS
<1>4. m \in RaftNodes
  BY <1>1, <1>2, <1>3, HearType
<1>5. \/ m = N[p] /\ args.term <= N[p].term
      \/ /\ args.term > N[p].term /\ m.term = args.term /\ m.role = "follower" /\ m.vote = NoVote
         /\ m.log = N[p].log /\ m.machine = N[p].machine
         /\ m.commit = N[p].commit /\ m.applied = N[p].applied
  <2>1. CASE args.term > N[p].term
    BY <2>1, <1>1, <1>3 DEF HearCandidate, StepDown, RaftNodes
  <2>2. CASE ~(args.term > N[p].term)
    BY <2>2, <1>1, <1>2, <1>3 DEF HearCandidate
  <2> QED BY <2>1, <2>2
<1>6. SelfVote(N) /\ ElectionInv(N, E)
  BY DEF NodesInv, ElectionInv
<1>7. N[p].term >= N[p].term
  BY <1>1
<1>8. NodesInv([N EXCEPT ![p] = m], E) /\ Grow(N, [N EXCEPT ![p] = m])
  <2>1. /\ m.log = N[p].log /\ m.machine = N[p].machine
        /\ m.commit = N[p].commit /\ m.applied = N[p].applied
        /\ m.term >= N[p].term
        /\ m.role = "leader" => N[p].role = "leader" /\ m.term = N[p].term
        /\ m.role # "follower" => m.vote = p
        /\ m.term = N[p].term => m = N[p]
    BY <1>1, <1>2, <1>5, <1>6, <1>7 DEF SelfVote
  <2>2. ElectionInv([N EXCEPT ![p] = m], E)
    BY <2>1, <1>4, <1>6, QuietElections
  <2> QED BY <2>1, <2>2, <1>4, QuietStep
<1>9. CASE r.node = N[p] /\ r.reply = VoteReply(N[p], FALSE)
  <2>1. M = N
    BY <1>9 DEF Cluster
  <2>2. Grow(N, M)
    BY <2>1, NodeFields, PreReflexive DEF Grow
  <2> QED BY <1>9, <2>1, <2>2 DEF VoteReply
<1>10. CASE r.node = m /\ r.reply = VoteReply(m, FALSE)
  BY <1>8, <1>10 DEF VoteReply
<1>11. CASE /\ args.term = m.term /\ m.vote \in {NoVote, args.candidate} /\ LogUpToDate(m, args)
            /\ r.node = [m EXCEPT !.vote = args.candidate] /\ r.reply = VoteReply(m, TRUE)
  <2>1. PICK y : y = r.node
    OBVIOUS
  <2>2. /\ y \in RaftNodes /\ y.vote = k /\ y.term = m.term /\ y.role = m.role /\ y.log = m.log
        /\ y.machine = m.machine /\ y.commit = m.commit /\ y.applied = m.applied
    BY <2>1, <1>2, <1>4, <1>11 DEF RaftNodes
  <2>3. y.role = "follower"
    <3>1. ASSUME y.role # "follower" PROVE FALSE
      <4>1. m = N[p] /\ N[p].role # "follower"
        BY <3>1, <2>2, <1>5
      <4>2. N[p].vote = p
        BY <4>1, <1>6 DEF SelfVote
      <4> QED BY <4>1, <4>2, <1>2, <1>11, RaftNodeAssumption
    <3> QED BY <3>1
  <2>4. y.term >= N[p].term
    BY <2>2, <1>1, <1>2, <1>5, <1>7
  <2>5. y.term = N[p].term => m = N[p]
    BY <2>2, <1>1, <1>2, <1>5
  <2>6. y.term = N[p].term => N[p].role # "leader"
    BY <2>2, <2>3, <2>5
  <2>7. y.term = N[p].term =>
          y.vote = N[p].vote \/ \A e \in E : e[2] = N[p].term => e[1] # N[p].vote
    <3>1. \A e \in E : e[1] # NoVote
      BY RaftNodeAssumption
    <3> QED BY <2>2, <2>5, <3>1, <1>2, <1>11
  <2>8. ElectionInv([N EXCEPT ![p] = y], E)
    BY <2>2, <2>3, <2>4, <2>6, <2>7, <1>6, QuietElections
  <2>9. /\ y.log = N[p].log /\ y.machine = N[p].machine
        /\ y.commit = N[p].commit /\ y.applied = N[p].applied
    BY <2>2, <1>5
  <2>10. NodesInv(M, E) /\ Grow(N, M)
    BY <2>1, <2>2, <2>3, <2>4, <2>8, <2>9, QuietStep
  <2>11. Voted(M, k, p)
    <3>1. M[p] = y /\ M[k] = N[k]
      BY <2>1 DEF Cluster
    <3>2. LogUpToDate(y, args)
      BY <2>2, <1>11 DEF LogUpToDate, LastTerm
    <3> QED BY <2>2, <3>1, <3>2, <1>2, <1>11 DEF Voted
  <2> QED BY <2>10, <2>11
<1> QED BY <1>3, <1>9, <1>10, <1>11, HandleRequestVoteCases DEF VoteReply

LEMMA EntriesHandled ==
  ASSUME NEW N \in Cluster, NEW E \in SUBSET (Nodes \X Nat), NodesInv(N, E),
         NEW p \in Nodes, NEW l \in Nodes, p # l, N[l].role = "leader", NEW V,
         NEW args \in AppendRequests, args = AppendRequest(N[l], l, p),
         NEW r, r = HandleAppendEntries(N[p], args, V),
         NEW M, M = [N EXCEPT ![p] = r.node]
  PROVE  /\ NodesInv(M, E) /\ Grow(N, M)
         /\ r.reply.success => Holds(M, l, p)
<1>1. N[p] \in RaftNodes /\ N[l] \in RaftNodes /\ N[p].term \in Nat /\ N[l].term \in Nat
  BY NodeFields
<1>2. /\ args.term = N[l].term /\ args.prev \in Nat
      /\ args.prevTerm = TermAt(N[l].log, args.prev)
  BY DEF AppendRequest, AppendRequests
<1>3. PICK m : m = HearLeader(N[p], args)
  OBVIOUS
<1>4. m \in RaftNodes
  BY <1>1, <1>2, <1>3, HearType
<1>5. \/ m = N[p] /\ args.term <= N[p].term /\ (args.term = N[p].term => N[p].role = "follower")
      \/ /\ args.term >= N[p].term /\ m.term = args.term /\ m.role = "follower"
         /\ m.log = N[p].log /\ m.machine = N[p].machine
         /\ m.commit = N[p].commit /\ m.applied = N[p].applied
         /\ args.term = N[p].term => N[p].role # "follower"
  <2>1. CASE args.term > N[p].term \/ (args.term = N[p].term /\ N[p].role # "follower")
    <3>1. m = StepDown(N[p], args.term) /\ args.term >= N[p].term
      BY <2>1, <1>1, <1>2, <1>3 DEF HearLeader
    <3>2. /\ m.term = args.term /\ m.role = "follower"
          /\ m.log = N[p].log /\ m.machine = N[p].machine
          /\ m.commit = N[p].commit /\ m.applied = N[p].applied
      BY <3>1, <1>1 DEF StepDown, RaftNodes
    <3>3. args.term = N[p].term => N[p].role # "follower"
      BY <2>1, <1>1, <1>2
    <3> QED BY <3>1, <3>2, <3>3
  <2>2. CASE ~(args.term > N[p].term \/ (args.term = N[p].term /\ N[p].role # "follower"))
    BY <2>2, <1>1, <1>2, <1>3 DEF HearLeader
  <2> QED BY <2>1, <2>2
<1>6. SelfVote(N) /\ ElectionInv(N, E) /\ OneWinner(E) /\ LeadersWon(N, E)
  BY DEF NodesInv, ElectionInv
<1>7. <<l, N[l].term>> \in E
  BY <1>6 DEF LeadersWon
<1>8. N[p].term = N[l].term => N[p].role # "leader"
  <2> SUFFICES ASSUME N[p].term = N[l].term, N[p].role = "leader" PROVE FALSE
    OBVIOUS
  <2>1. <<p, N[l].term>> \in E
    BY <1>6 DEF LeadersWon
  <2> QED BY <2>1, <1>6, <1>7 DEF OneWinner
<1>9. /\ m.log = N[p].log /\ m.machine = N[p].machine
      /\ m.commit = N[p].commit /\ m.applied = N[p].applied
      /\ m.term >= N[p].term
      /\ m.role = "leader" => N[p].role = "leader" /\ m.term = N[p].term
      /\ m.role # "follower" => m.vote = p
      /\ m.term = args.term => m.role = "follower"
  BY <1>1, <1>2, <1>5, <1>6 DEF SelfVote
<1>10. PICK N1 : N1 = [N EXCEPT ![p] = m]
  OBVIOUS
<1>11. NodesInv(N1, E) /\ Grow(N, N1)
  <2>1. CASE m = N[p]
    <3>1. N1 = N
      BY <1>10, <2>1 DEF Cluster
    <3>2. Grow(N, N1)
      BY <3>1, NodeFields, PreReflexive DEF Grow
    <3> QED BY <3>1, <3>2
  <2>2. CASE m # N[p]
    <3>1. m.term = N[p].term =>
            /\ N[p].role # "leader"
            /\ \A e \in E : e[2] = N[p].term => e[1] # N[p].vote
      <4> SUFFICES ASSUME m.term = N[p].term
                   PROVE  /\ N[p].role # "leader"
                          /\ \A e \in E : e[2] = N[p].term => e[1] # N[p].vote
        OBVIOUS
      <4>1. N[l].term = N[p].term /\ N[p].role # "follower"
        BY <2>2, <1>2, <1>5
      <4>2. N[p].vote = p
        BY <4>1, <1>6 DEF SelfVote
      <4>3. \A e \in E : e[2] = N[p].term => e[1] = l
        BY <4>1, <1>6, <1>7 DEF OneWinner
      <4> QED BY <4>1, <4>2, <4>3, <1>8
    <3>2. ElectionInv([N EXCEPT ![p] = m], E)
      BY <3>1, <1>4, <1>6, <1>9, QuietElections
    <3> QED BY <3>2, <1>4, <1>9, <1>10, QuietStep
  <2> QED BY <2>1, <2>2
<1>12. /\ N1 \in Cluster /\ N1[p] = m /\ N1[l] = N[l]
       /\ \A y : [N EXCEPT ![p] = y] = [N1 EXCEPT ![p] = y]
  BY <1>4, <1>10 DEF Cluster
<1>13. ElectionInv(N1, E) /\ LogInv(N1, E) /\ MachineInv(N1)
  BY <1>11 DEF NodesInv
<1>14. \A y : Pre(m.machine, y.machine) => Grow(N, [N EXCEPT ![p] = y])
  BY <1>9, GrowsWithOne
<1>15. CASE r.node = N[p] /\ r.reply = AppendReply(N[p], FALSE, 0)
  <2>1. M = N
    BY <1>15 DEF Cluster
  <2>2. Grow(N, M)
    BY <2>1, NodeFields, PreReflexive DEF Grow
  <2> QED BY <1>15, <2>1, <2>2 DEF AppendReply
<1>16. CASE r.node = m /\ r.reply = AppendReply(m, FALSE, 0)
  BY <1>10, <1>11, <1>16 DEF AppendReply
<1>17. CASE r.node = m /\ r.reply = AppendReply(m, FALSE, Len(m.log))
  BY <1>10, <1>11, <1>17 DEF AppendReply
<1>18. PICK cut : cut = CutLog(m, args.prev)
  OBVIOUS
<1>19. CASE /\ args.term = m.term /\ args.prev <= Len(m.log)
            /\ TermAt(m.log, args.prev) # args.prevTerm
            /\ r.node = cut /\ r.reply = AppendReply(cut, FALSE, Len(cut.log))
  <2>1. m.role # "leader"
    BY <1>9, <1>19
  <2>2. /\ N1[p].role # "leader" /\ N1[l].role = "leader" /\ N1[l].term = N1[p].term
        /\ args.prev <= Len(N1[p].log)
        /\ TermAt(N1[p].log, args.prev) # TermAt(N1[l].log, args.prev)
    BY <2>1, <1>2, <1>12, <1>19
  <2>3. NodesInv([N1 EXCEPT ![p] = CutLog(N1[p], args.prev)], E)
    BY <2>2, <1>2, <1>12, <1>13, CutKeeps DEF NodesInv
  <2>4. NodesInv(M, E)
    BY <2>3, <1>12, <1>18, <1>19
  <2>5. Pre(m.machine, cut.machine)
    <3>1. cut.machine = m.machine /\ m.machine \in Seq(Entries)
      BY <1>4, <1>18 DEF CutLog, RaftNodes
    <3> QED BY <3>1, PreReflexive
  <2>6. Grow(N, M)
    BY <2>5, <1>14, <1>19
  <2>7. ~r.reply.success
    BY <1>19 DEF AppendReply
  <2> QED BY <2>4, <2>6, <2>7
<1>20. PICK merged : merged = TakeEntries(m, args)
  OBVIOUS
<1>21. CASE /\ args.term = m.term /\ args.prev <= Len(m.log)
            /\ TermAt(m.log, args.prev) = args.prevTerm
            /\ r.node = merged /\ r.reply = AppendReply(merged, TRUE, Len(merged.log))
  <2>1. m.role # "leader"
    BY <1>9, <1>21
  <2>2. /\ N1[p].role # "leader" /\ N1[l].role = "leader" /\ N1[l].term = N1[p].term
        /\ args = AppendRequest(N1[l], l, p) /\ merged = TakeEntries(N1[p], args)
        /\ args.prev <= Len(N1[p].log) /\ TermAt(N1[p].log, args.prev) = args.prevTerm
    BY <2>1, <1>2, <1>12, <1>20, <1>21
  <2>3. NodesInv([N1 EXCEPT ![p] = merged], E)
    BY <2>2, <1>12, <1>13, TakeEntriesKeeps DEF NodesInv
  <2>4. /\ merged.term = N1[p].term /\ Pre(N1[l].log, merged.log)
        /\ Pre(N1[p].machine, merged.machine)
    BY <2>2, <1>12, <1>13, TakeEntriesGives
  <2>5. NodesInv(M, E) /\ Grow(N, M)
    BY <2>3, <2>4, <1>12, <1>14, <1>21
  <2>6. M[p] = merged /\ M[l] = N[l]
    BY <1>21 DEF Cluster
  <2>7. Holds(M, l, p)
    BY <2>4, <2>6, <1>2, <1>12, <1>21 DEF Holds
  <2> QED BY <2>5, <2>7
<1> QED
  BY <1>1, <1>3, <1>15, <1>16, <1>17, <1>18, <1>19, <1>20, <1>21, HandleAppendEntriesCases
     DEF AppendReply

-----------------------------------------------------------------------------
(* One lemma per action.                                                    *)

\* What every step leaves behind.
Kept == NodesInv(nodes', elected') /\ CallsInv(nodes', calls') /\ Grow(nodes, nodes')

LEMMA VerifiedStep ==
  ASSUME TypeOK, VerifiedGrows, Next
  PROVE  VerifiedGrows'
<1>1. ASSUME NEW n \in Nodes, NEW p \in Nodes, VerifyAttestation(n, p)
      PROVE  VerifiedGrows'
  BY <1>1 DEF VerifyAttestation, VerifiedGrows, TypeOK
<1>2. CASE UNCHANGED verified
  BY <1>2 DEF VerifiedGrows
<1> QED
  BY <1>1, <1>2 DEF Next, StartElection, StartProposal, DeliverHandled, DeliverBlocked,
     ReceiveDeposed, ReceiveVote, ReceiveAppend

LEMMA VerifyAttestationKeeps ==
  ASSUME TypeOK, IInv, NEW n \in Nodes, NEW p \in Nodes, VerifyAttestation(n, p)
  PROVE  Kept
<1>1. nodes \in Cluster
  BY DEF TypeOK, Cluster
<1>2. Grow(nodes, nodes)
  BY <1>1, NodeFields, PreReflexive DEF Grow
<1> QED BY <1>2 DEF VerifyAttestation, IInv, Kept, NodesInv, CallsInv

LEMMA StartElectionKeeps ==
  ASSUME TypeOK, OneAtATime, MajorityQuorums, IInv,
         NEW t \in Threads, NEW n \in Nodes, StartElection(t, n)
  PROVE  Kept
<1>1. PICK node : node = BecomeCandidate(nodes[n], n)
  OBVIOUS
<1>2. PICK call : call = NewCall("election", n, 0, VoteRequest(node, n))
  OBVIOUS
<1>3. PICK M : M = [nodes EXCEPT ![n] = node]
  OBVIOUS
<1>4. /\ nodes \in Cluster /\ elected \in SUBSET (Nodes \X Nat)
      /\ nodes[n] \in RaftNodes /\ nodes[n].term \in Nat
  BY NodeFields DEF TypeOK, Cluster
<1>5. node \in RaftNodes /\ VoteRequest(node, n) \in VoteRequests
  BY <1>1, <1>4, BecomeCandidateType
<1>6. /\ node.term = nodes[n].term + 1 /\ node.role = "candidate" /\ node.vote = n
      /\ node.log = nodes[n].log /\ node.machine = nodes[n].machine
      /\ node.commit = nodes[n].commit /\ node.applied = nodes[n].applied
  BY <1>1, <1>4 DEF BecomeCandidate, RaftNodes
<1>7. node.term > nodes[n].term /\ node.term >= nodes[n].term /\ node.term >= 1
      /\ node.term # nodes[n].term
  BY <1>4, <1>6
<1>8. ElectionInv([nodes EXCEPT ![n] = node], elected)
  BY <1>4, <1>5, <1>6, <1>7, QuietElections DEF IInv, NodesInv
<1>9. NodesInv(M, elected) /\ Grow(nodes, M)
  BY <1>3, <1>4, <1>5, <1>6, <1>7, <1>8, QuietStep DEF IInv
<1>10. M \in Cluster /\ M[n] = node
  BY <1>3, <1>4, <1>5 DEF Cluster
<1>11. Voted(M, n, n)
  <2>1. LogUpToDate(node, VoteRequest(node, n))
    <3>1. Len(node.log) >= Len(node.log)
      BY <1>5 DEF RaftNodes
    <3> QED BY <3>1 DEF LogUpToDate, VoteRequest
  <2> QED BY <2>1, <1>6, <1>10 DEF Voted
<1>12. call \in ElectionCalls
  BY <1>2, <1>5, NewCallType
<1>13. /\ call.kind = "election" /\ call.node = n /\ call.acks = {n} /\ call.todo = verified[n] \ {n}
       /\ call.request = VoteRequest(node, n) /\ call.quorum = Quorum(verified[n], n)
  BY <1>2 DEF NewCall, Peers
<1>14. 2 * call.quorum > Cardinality(Nodes)
  BY <1>13, QuorumIsMajority DEF IInv
<1>15. CASE call.quorum <= 1 /\ Win(t, n, node)
  <2>1. Majority({n})
    <3>1. Cardinality({n}) = 1
      BY FS_Singleton
    <3>2. Cardinality(Nodes) \in Nat /\ call.quorum \in Nat
      BY <1>12, ClusterAssumption, FS_CardinalityType DEF ElectionCalls
    <3> QED BY <3>1, <3>2, <1>14, <1>15 DEF Majority
  <2>2. NodesInv([M EXCEPT ![n] = BecomeLeader(M[n])], elected \cup {<<n, M[n].term>>})
    <3>1. {n} \in SUBSET Nodes /\ \A v \in {n} : Voted(M, n, v)
      BY <1>11
    <3> QED BY <2>1, <3>1, <1>4, <1>6, <1>7, <1>9, <1>10, WinKeeps DEF NodesInv
  <2>3. nodes' = [M EXCEPT ![n] = BecomeLeader(M[n])] /\ elected' = elected \cup {<<n, M[n].term>>}
    BY <1>3, <1>10, <1>15 DEF Win
  <2>4. \A u \in Threads : calls'[u] = Idle
    BY <1>15 DEF Win, OneAtATime, TypeOK
  <2>5. Grow(nodes, nodes')
    <3>1. nodes' = [nodes EXCEPT ![n] = BecomeLeader(node)]
      BY <1>15 DEF Win
    <3>2. BecomeLeader(node).machine = nodes[n].machine
      BY <1>5, <1>6 DEF BecomeLeader, RaftNodes
    <3>3. Pre(nodes[n].machine, nodes[n].machine)
      BY <1>4, NodeFields, PreReflexive
    <3> QED BY <3>1, <3>2, <3>3, <1>4, GrowsWithOne
  <2> QED BY <2>2, <2>3, <2>4, <2>5 DEF Kept, CallsInv
<1>16. CASE Continue(t, call, node) /\ UNCHANGED elected
  <2>1. CallCore(M, call)
    BY <1>6, <1>7, <1>10, <1>11, <1>13, <1>14 DEF CallCore
  <2>2. M = [nodes EXCEPT ![call.node] = node]
    BY <1>3, <1>13
  <2> QED BY <2>1, <2>2, <1>5, <1>9, <1>12, <1>16, ContinueKeeps DEF Kept
<1> QED BY <1>1, <1>2, <1>15, <1>16 DEF StartElection

LEMMA StartProposalKeeps ==
  ASSUME TypeOK, OneAtATime, MajorityQuorums, IInv,
         NEW t \in Threads, NEW n \in Nodes, NEW value \in Values, StartProposal(t, n, value)
  PROVE  Kept
<1>1. PICK node : node = AppendLocally(nodes[n], value)
  OBVIOUS
<1>2. PICK call : call = NewCall("proposal", n, Len(node.log), NoReply)
  OBVIOUS
<1>3. PICK M : M = [nodes EXCEPT ![n] = node]
  OBVIOUS
<1>4. /\ nodes \in Cluster /\ elected \in SUBSET (Nodes \X Nat)
      /\ nodes[n] \in RaftNodes /\ nodes[n].log \in Seq(Entries) /\ nodes[n].term \in Nat
  BY NodeFields DEF TypeOK, Cluster
<1>5. /\ calls[t] = Idle /\ nodes[n].role = "leader" /\ Continue(t, call, node)
      /\ UNCHANGED <<verified, elected>>
  BY <1>1, <1>2 DEF StartProposal
<1>6. NodesInv(M, elected)
  BY <1>1, <1>3, <1>4, <1>5, AppendKeeps DEF IInv, NodesInv
<1>7. node \in RaftNodes
  BY <1>1, <1>4, AppendLocallyType
<1>8. PICK e : e = [term |-> nodes[n].term, value |-> value]
  OBVIOUS
<1>9. /\ node.log = Append(nodes[n].log, e) /\ node.term = nodes[n].term /\ node.role = "leader"
      /\ node.machine = nodes[n].machine
  BY <1>1, <1>4, <1>5, <1>8 DEF AppendLocally, RaftNodes
<1>10. e \in Entries /\ e.term = nodes[n].term
  BY <1>4, <1>8 DEF Entries
<1>11. /\ Len(node.log) = Len(nodes[n].log) + 1 /\ Len(node.log) \in Nat /\ Len(node.log) > 0
       /\ node.log[Len(node.log)] = e
  BY <1>4, <1>9, <1>10
<1>12. M \in Cluster /\ M[n] = node
  BY <1>3, <1>4, <1>7 DEF Cluster
<1>13. Grow(nodes, M)
  <2>1. Pre(nodes[n].machine, node.machine)
    BY <1>4, <1>9, NodeFields, PreReflexive
  <2> QED BY <2>1, <1>3, <1>4, GrowsWithOne
<1>14. Holds(M, n, n)
  <2>1. Pre(node.log, node.log)
    BY <1>7, PreReflexive DEF RaftNodes
  <2> QED BY <2>1, <1>12 DEF Holds
<1>15. call \in DraftProposals
  BY <1>2, <1>11, NewCallType
<1>16. /\ call.kind = "proposal" /\ call.node = n /\ call.acks = {n} /\ call.todo = verified[n] \ {n}
       /\ call.index = Len(node.log) /\ call.quorum = Quorum(verified[n], n)
  BY <1>2 DEF NewCall, Peers
<1>17. 2 * call.quorum > Cardinality(Nodes)
  BY <1>16, QuorumIsMajority DEF IInv
<1>18. CallCore(M, call)
  BY <1>9, <1>10, <1>11, <1>12, <1>14, <1>16, <1>17 DEF CallCore
<1>19. M = [nodes EXCEPT ![call.node] = node]
  BY <1>3, <1>16
<1>20. NodesInv(nodes', elected) /\ CallsInv(nodes', calls') /\ Grow(nodes, nodes')
  BY <1>5, <1>6, <1>7, <1>13, <1>15, <1>18, <1>19, ContinueKeeps
<1> QED BY <1>5, <1>20 DEF Kept

\* A reply is noted: what it says is true of the peer that gave it.
LEMMA AnswerKeeps ==
  ASSUME TypeOK, OneAtATime, NEW t \in Threads, NEW c, c = calls[t], c # Idle, CallInv(nodes, c),
         NEW M \in Cluster, \A v \in Nodes : v # c.at => M[v] = nodes[v],
         NEW reply, Answer(t, reply),
         c.kind = "election" => (reply # NoReply /\ reply.granted => Voted(M, c.node, c.at)),
         c.kind = "proposal" => (reply # NoReply /\ reply.success => Holds(M, c.node, c.at))
  PROVE  CallsInv(M, calls')
<1>1. c \in ElectionCalls \cup ProposalCalls
  BY DEF TypeOK
<1>2. /\ c.node \in Nodes /\ c.acks \in SUBSET Nodes
  BY <1>1 DEF ElectionCalls, ProposalCalls
<1>3. M[c.node] = nodes[c.node] /\ \A v \in c.acks : M[v] = nodes[v]
  BY <1>2 DEF CallInv
<1>4. PICK d : d = [c EXCEPT !.answered = TRUE, !.reply = reply]
  OBVIOUS
<1>5. \A u \in Threads : calls'[u] = d
  BY <1>4 DEF Answer, OneAtATime, TypeOK
<1>6. /\ d.kind = c.kind /\ d.node = c.node /\ d.quorum = c.quorum /\ d.todo = c.todo
      /\ d.acks = c.acks /\ d.at = c.at /\ d.request = c.request /\ d.index = c.index
      /\ d.answered = TRUE /\ d.reply = reply
  <2>1. CASE c \in ElectionCalls
    BY <2>1, <1>4 DEF ElectionCalls
  <2>2. CASE c \in ProposalCalls
    BY <2>2, <1>4 DEF ProposalCalls
  <2> QED BY <1>1, <2>1, <2>2
<1>7. CallCore(M, c)
  BY <1>3 DEF CallInv, CallCore, Voted, Holds
<1>8. CallCore(M, d)
  BY <1>6, <1>7 DEF CallCore
<1>9. CallInv(M, d)
  BY <1>6, <1>8 DEF CallInv
<1> QED BY <1>5, <1>9 DEF CallsInv

LEMMA DeliverHandledKeeps ==
  ASSUME TypeOK, OneAtATime, IInv, NEW t \in Threads, DeliverHandled(t)
  PROVE  Kept
<1>1. PICK c : c = calls[t]
  OBVIOUS
<1>2. PICK r : r = Handle(c.at, c.request)
  OBVIOUS
<1>3. /\ c # Idle /\ ~c.answered
      /\ nodes' = [nodes EXCEPT ![c.at] = r.node] /\ UNCHANGED <<verified, elected>>
  BY <1>1, <1>2 DEF DeliverHandled, Waiting
<1>4. PICK reply \in {r.reply, NoReply} : Answer(t, reply)
  BY <1>1, <1>2 DEF DeliverHandled
<1>5. CallInv(nodes, c) /\ NodesInv(nodes, elected)
  BY <1>1, <1>3 DEF IInv, CallsInv
<1>6. c \in ElectionCalls \cup ProposalCalls
  BY <1>1, <1>3 DEF TypeOK
<1>7. c.at \in Nodes /\ c.node \in Nodes /\ c.at # c.node
  BY <1>5, <1>6 DEF ElectionCalls, ProposalCalls, CallInv
<1>8. nodes \in Cluster /\ elected \in SUBSET (Nodes \X Nat)
  BY DEF TypeOK, Cluster
<1>9. PICK M : M = [nodes EXCEPT ![c.at] = r.node]
  OBVIOUS
<1>10. \A v \in Nodes : v # c.at => M[v] = nodes[v]
  BY <1>8, <1>9 DEF Cluster
<1>11. CASE c \in ElectionCalls
  <2>1. c.kind = "election" /\ c.request \in VoteRequests
    BY <1>11 DEF ElectionCalls
  <2>2. c.request = VoteRequest(nodes[c.node], c.node)
    BY <2>1, <1>5 DEF CallInv, CallCore
  <2>3. r = HandleRequestVote(nodes[c.at], c.request, Attests(c.at))
    BY <2>1, <1>2 DEF Handle, VoteRequests
  <2>4. /\ NodesInv(M, elected) /\ Grow(nodes, M)
        /\ r.reply.granted => Voted(M, c.node, c.at)
    BY <2>1, <2>2, <2>3, <1>5, <1>7, <1>8, <1>9, VoteHandled
  <2>5. r.node \in RaftNodes
    BY <2>1, <2>3, <1>7, <1>8, NodeFields, HandleRequestVoteType
  <2>6. M \in Cluster
    BY <2>5, <1>8, <1>9 DEF Cluster
  <2>7. reply # NoReply /\ reply.granted => Voted(M, c.node, c.at)
    BY <2>4, <1>4
  <2>8. CallsInv(M, calls')
    BY <2>1, <2>6, <2>7, <1>1, <1>3, <1>4, <1>5, <1>10, AnswerKeeps
  <2> QED BY <2>4, <2>8, <1>3, <1>9 DEF Kept
<1>12. CASE c \in ProposalCalls
  <2>1. c.kind = "proposal" /\ c.request \in AppendRequests
    BY <1>12 DEF ProposalCalls
  <2>2. c.request = AppendRequest(nodes[c.node], c.node, c.at) /\ nodes[c.node].role = "leader"
    BY <2>1, <1>3, <1>5 DEF CallInv, CallCore
  <2>3. r = HandleAppendEntries(nodes[c.at], c.request, Attests(c.at))
    BY <2>1, <1>2 DEF Handle, AppendRequests
  <2>4. /\ NodesInv(M, elected) /\ Grow(nodes, M)
        /\ r.reply.success => Holds(M, c.node, c.at)
    BY <2>1, <2>2, <2>3, <1>5, <1>7, <1>8, <1>9, EntriesHandled
  <2>5. r.node \in RaftNodes
    BY <2>1, <2>3, <1>7, <1>8, NodeFields, HandleAppendEntriesType
  <2>6. M \in Cluster
    BY <2>5, <1>8, <1>9 DEF Cluster
  <2>7. reply # NoReply /\ reply.success => Holds(M, c.node, c.at)
    BY <2>4, <1>4
  <2>8. CallsInv(M, calls')
    BY <2>1, <2>6, <2>7, <1>1, <1>3, <1>4, <1>5, <1>10, AnswerKeeps
  <2> QED BY <2>4, <2>8, <1>3, <1>9 DEF Kept
<1> QED BY <1>6, <1>11, <1>12

LEMMA DeliverBlockedKeeps ==
  ASSUME TypeOK, OneAtATime, IInv, NEW t \in Threads, DeliverBlocked(t)
  PROVE  Kept
<1>1. PICK c : c = calls[t]
  OBVIOUS
<1>2. PICK b : b = Blocked(c.at, c.request)
  OBVIOUS
<1>3. c # Idle /\ UNCHANGED <<nodes, verified, elected>>
  BY <1>1 DEF DeliverBlocked, Waiting
<1>4. PICK reply \in {b, NoReply} : Answer(t, reply)
  BY <1>1, <1>2 DEF DeliverBlocked
<1>5. CallInv(nodes, c) /\ NodesInv(nodes, elected)
  BY <1>1, <1>3 DEF IInv, CallsInv
<1>6. c \in ElectionCalls \cup ProposalCalls
  BY <1>1, <1>3 DEF TypeOK
<1>7. nodes \in Cluster
  BY DEF TypeOK, Cluster
<1>8. Grow(nodes, nodes)
  BY <1>7, NodeFields, PreReflexive DEF Grow
<1>9. c.kind = "election" => ~b.granted
  <2>1. c.kind = "election" => c.request.kind = "vote"
    BY <1>6 DEF ElectionCalls, ProposalCalls, VoteRequests
  <2> QED BY <2>1, <1>2 DEF Blocked, VoteReply
<1>10. c.kind = "proposal" => ~b.success
  <2>1. c.kind = "proposal" => c.request.kind = "append"
    BY <1>6 DEF ElectionCalls, ProposalCalls, AppendRequests
  <2> QED BY <2>1, <1>2 DEF Blocked, AppendReply
<1>11. CallsInv(nodes, calls')
  BY <1>1, <1>3, <1>4, <1>5, <1>7, <1>9, <1>10, AnswerKeeps
<1> QED BY <1>3, <1>5, <1>8, <1>11 DEF Kept

LEMMA ReceiveDeposedKeeps ==
  ASSUME TypeOK, OneAtATime, IInv, NEW t \in Threads, ReceiveDeposed(t)
  PROVE  Kept
<1>1. PICK c : c = calls[t]
  OBVIOUS
<1>2. PICK y : y = StepDown(nodes[c.node], c.reply.term)
  OBVIOUS
<1>3. /\ c # Idle /\ c.reply # NoReply /\ c.reply.term > nodes[c.node].term
      /\ nodes' = [nodes EXCEPT ![c.node] = y] /\ calls' = [calls EXCEPT ![t] = Idle]
      /\ UNCHANGED <<verified, elected>>
  BY <1>1, <1>2 DEF ReceiveDeposed
<1>4. c \in ElectionCalls \cup ProposalCalls
  BY <1>1, <1>3 DEF TypeOK
<1>5. c.node \in Nodes /\ c.reply.term \in Nat
  BY <1>3, <1>4 DEF ElectionCalls, ProposalCalls, VoteReplies, AppendReplies
<1>6. nodes \in Cluster /\ elected \in SUBSET (Nodes \X Nat) /\ NodesInv(nodes, elected)
  BY DEF TypeOK, Cluster, IInv
<1>7. nodes[c.node] \in RaftNodes /\ nodes[c.node].term \in Nat
  BY <1>5, <1>6, NodeFields
<1>8. y \in RaftNodes
  BY <1>2, <1>5, <1>7, StepDownType
<1>9. /\ y.term = c.reply.term /\ y.role = "follower"
      /\ y.log = nodes[c.node].log /\ y.machine = nodes[c.node].machine
      /\ y.commit = nodes[c.node].commit /\ y.applied = nodes[c.node].applied
  BY <1>2, <1>7 DEF StepDown, RaftNodes
<1>10. y.term >= nodes[c.node].term /\ y.term # nodes[c.node].term
  BY <1>3, <1>5, <1>7, <1>9
<1>11. ElectionInv([nodes EXCEPT ![c.node] = y], elected)
  BY <1>5, <1>6, <1>8, <1>9, <1>10, QuietElections DEF NodesInv
<1>12. NodesInv(nodes', elected) /\ Grow(nodes, nodes')
  BY <1>3, <1>5, <1>6, <1>8, <1>9, <1>10, <1>11, QuietStep
<1>13. \A u \in Threads : calls'[u] = Idle
  BY <1>3 DEF OneAtATime, TypeOK
<1> QED BY <1>3, <1>12, <1>13 DEF Kept, CallsInv

LEMMA ReceiveVoteKeeps ==
  ASSUME TypeOK, OneAtATime, IInv, NEW t \in Threads, ReceiveVote(t)
  PROVE  Kept
<1>1. PICK c : c = calls[t]
  OBVIOUS
<1>2. PICK votes : votes = c.acks \cup (IF c.reply # NoReply /\ c.reply.granted THEN {c.at} ELSE {})
  OBVIOUS
<1>3. PICK call : call = [c EXCEPT !.acks = votes]
  OBVIOUS
<1>4. c \in ElectionCalls /\ c # Idle
  BY <1>1 DEF ReceiveVote, TypeOK, ProposalCalls
<1>5. CallInv(nodes, c) /\ NodesInv(nodes, elected)
  BY <1>1, <1>4 DEF IInv, CallsInv
<1>6. nodes \in Cluster /\ elected \in SUBSET (Nodes \X Nat)
  BY DEF TypeOK, Cluster
<1>7. c.node \in Nodes /\ c.at \in Nodes /\ c.acks \in SUBSET Nodes /\ c.quorum \in Nat
      /\ c.kind = "election"
  BY <1>4 DEF ElectionCalls
<1>8. /\ votes \in SUBSET Nodes
      /\ \A v \in votes : v = c.at \/ v \in c.acks
      /\ \A v \in votes : Voted(nodes, c.node, v)
  BY <1>2, <1>5, <1>7 DEF CallInv, CallCore
<1>9. /\ call \in ElectionCalls /\ call.kind = "election" /\ call.node = c.node
      /\ call.quorum = c.quorum /\ call.todo = c.todo /\ call.acks = votes
      /\ call.request = c.request
  BY <1>3, <1>4, <1>8 DEF ElectionCalls
<1>10. nodes[c.node] \in RaftNodes /\ nodes[c.node].term \in Nat
  BY <1>6, <1>7, NodeFields
<1>11. nodes = [nodes EXCEPT ![call.node] = nodes[c.node]]
  BY <1>6, <1>7, <1>9 DEF Cluster
<1>12. Grow(nodes, nodes)
  BY <1>6, NodeFields, PreReflexive DEF Grow
<1>13. CASE Win(t, c.node, nodes[c.node]) /\ Cardinality(votes) >= c.quorum
  <2>1. Majority(votes)
    <3>1. IsFiniteSet(votes)
      BY <1>8, ClusterAssumption, FS_Subset
    <3>2. Cardinality(votes) \in Nat /\ Cardinality(Nodes) \in Nat
      BY <3>1, ClusterAssumption, FS_CardinalityType
    <3>3. 2 * c.quorum > Cardinality(Nodes)
      BY <1>5 DEF CallInv, CallCore
    <3> QED BY <3>2, <3>3, <1>7, <1>13 DEF Majority
  <2>2. nodes[c.node].role = "candidate" /\ nodes[c.node].term >= 1
    BY <1>5, <1>7 DEF CallInv, CallCore
  <2>3. PICK y : y = BecomeLeader(nodes[c.node])
    OBVIOUS
  <2>4. NodesInv([nodes EXCEPT ![c.node] = y], elected \cup {<<c.node, nodes[c.node].term>>})
    BY <2>1, <2>2, <2>3, <1>5, <1>6, <1>7, <1>8, WinKeeps DEF NodesInv
  <2>5. /\ nodes' = [nodes EXCEPT ![c.node] = y]
        /\ elected' = elected \cup {<<c.node, nodes[c.node].term>>}
    BY <2>3, <1>13 DEF Win
  <2>6. \A u \in Threads : calls'[u] = Idle
    BY <1>13 DEF Win, OneAtATime, TypeOK
  <2>7. Grow(nodes, nodes')
    <3>1. y.machine = nodes[c.node].machine
      BY <2>3, <1>10 DEF BecomeLeader, RaftNodes
    <3>2. Pre(nodes[c.node].machine, nodes[c.node].machine)
      BY <1>6, <1>7, NodeFields, PreReflexive
    <3> QED BY <2>5, <3>1, <3>2, <1>6, <1>7, GrowsWithOne
  <2> QED BY <2>4, <2>5, <2>6, <2>7 DEF Kept, CallsInv
<1>14. CASE Continue(t, call, nodes[c.node]) /\ UNCHANGED elected
  <2>1. CallCore(nodes, call)
    <3>1. votes \cap c.todo = {}
      BY <1>5, <1>8 DEF CallInv, CallCore
    <3>2. /\ 2 * c.quorum > Cardinality(Nodes) /\ c.node \notin c.todo
          /\ nodes[c.node].role = "candidate" /\ nodes[c.node].term >= 1
          /\ c.request = VoteRequest(nodes[c.node], c.node)
      BY <1>5, <1>7 DEF CallInv, CallCore
    <3> QED BY <3>1, <3>2, <1>8, <1>9 DEF CallCore
  <2> QED BY <2>1, <1>5, <1>9, <1>10, <1>11, <1>12, <1>14, ContinueKeeps DEF Kept
<1> QED BY <1>1, <1>2, <1>3, <1>13, <1>14 DEF ReceiveVote

LEMMA ReceiveAppendKeeps ==
  ASSUME TypeOK, OneAtATime, IInv, NEW t \in Threads, ReceiveAppend(t)
  PROVE  Kept
<1>1. PICK c : c = calls[t]
  OBVIOUS
<1>2. PICK acks : acks = c.acks \cup (IF c.reply.success THEN {c.at} ELSE {})
  OBVIOUS
<1>3. PICK call : call = [c EXCEPT !.acks = acks]
  OBVIOUS
<1>4. c \in ProposalCalls /\ c # Idle /\ UNCHANGED <<verified, elected>>
  BY <1>1 DEF ReceiveAppend, TypeOK, ElectionCalls
<1>5. CallInv(nodes, c) /\ NodesInv(nodes, elected)
  BY <1>1, <1>4 DEF IInv, CallsInv
<1>6. nodes \in Cluster /\ elected \in SUBSET (Nodes \X Nat)
  BY DEF TypeOK, Cluster
<1>7. c.node \in Nodes /\ c.at \in Nodes /\ c.acks \in SUBSET Nodes
      /\ c.kind = "proposal" /\ c \in DraftProposals
  BY <1>4 DEF ProposalCalls, DraftProposals
<1>8. PICK node : node = nodes[c.node]
  OBVIOUS
<1>9. node \in RaftNodes /\ node.term \in Nat /\ node.term >= node.term
  BY <1>6, <1>7, <1>8, NodeFields
<1>10. CASE Continue(t, c, node)
  <2>1. nodes = [nodes EXCEPT ![c.node] = node]
    BY <1>6, <1>7, <1>8 DEF Cluster
  <2>2. Grow(nodes, nodes)
    BY <1>6, NodeFields, PreReflexive DEF Grow
  <2>3. CallCore(nodes, c)
    BY <1>5 DEF CallInv
  <2>4. NodesInv(nodes', elected) /\ CallsInv(nodes', calls') /\ Grow(nodes, nodes')
    BY <2>1, <2>2, <2>3, <1>5, <1>7, <1>9, <1>10, ContinueKeeps
  <2> QED BY <2>4, <1>4 DEF Kept
<1>11. CASE c.reply # NoReply /\ Continue(t, call, RecordReply(node, c.at, c.reply))
  <2>1. PICK y : y = RecordReply(node, c.at, c.reply)
    OBVIOUS
  <2>2. c.reply \in AppendReplies
    BY <1>4, <1>11 DEF ProposalCalls
  <2>3. y \in RaftNodes
    BY <2>1, <2>2, <1>7, <1>9, RecordReplyType
  <2>4. /\ y.term = node.term /\ y.role = node.role /\ y.vote = node.vote /\ y.log = node.log
        /\ y.machine = node.machine /\ y.commit = node.commit /\ y.applied = node.applied
    BY <2>1, <1>9 DEF RecordReply, RaftNodes
  <2>5. PICK M : M = [nodes EXCEPT ![c.node] = y]
    OBVIOUS
  <2>6. NodesInv(M, elected) /\ Grow(nodes, M)
    <3>1. ElectionInv([nodes EXCEPT ![c.node] = y], elected)
      BY <2>3, <2>4, <1>5, <1>6, <1>7, <1>8, LogChangeKeepsElections DEF NodesInv
    <3> QED BY <2>3, <2>4, <2>5, <3>1, <1>5, <1>6, <1>7, <1>8, <1>9, QuietStep
  <2>7. /\ acks \in SUBSET Nodes
        /\ \A v \in acks : Holds(nodes, c.node, v)
        /\ acks \cap c.todo = {}
    BY <1>2, <1>5, <1>7, <1>11 DEF CallInv, CallCore
  <2>8. /\ call \in DraftProposals /\ call.kind = "proposal" /\ call.node = c.node
        /\ call.quorum = c.quorum /\ call.todo = c.todo /\ call.acks = acks
        /\ call.index = c.index
    BY <2>7, <1>3, <1>7 DEF DraftProposals
  <2>9. \A v \in Nodes : M[v].term = nodes[v].term /\ M[v].log = nodes[v].log
                         /\ M[v].role = nodes[v].role
    BY <2>4, <2>5, <1>6, <1>8 DEF Cluster
  <2>10. \A v \in acks : Holds(M, c.node, v)
    BY <2>7, <2>9, <1>7 DEF Holds
  <2>11. CallCore(M, call)
    BY <2>7, <2>8, <2>9, <2>10, <1>5, <1>7 DEF CallInv, CallCore
  <2>12. NodesInv(nodes', elected) /\ CallsInv(nodes', calls') /\ Grow(nodes, nodes')
    BY <2>1, <2>3, <2>5, <2>6, <2>8, <2>11, <1>11, ContinueKeeps
  <2> QED BY <2>12, <1>4 DEF Kept
<1> QED BY <1>1, <1>2, <1>3, <1>8, <1>10, <1>11 DEF ReceiveAppend

-----------------------------------------------------------------------------
(* The theorems.                                                            *)

LEMMA InvariantStep ==
  ASSUME TypeOK, OneAtATime, MajorityQuorums, IInv, Next
  PROVE  IInv' /\ Grow(nodes, nodes')
<1>1. VerifiedGrows'
  BY VerifiedStep DEF IInv
<1>2. Kept
  <2>1. ASSUME NEW n \in Nodes, NEW p \in Nodes, VerifyAttestation(n, p) PROVE Kept
    BY <2>1, VerifyAttestationKeeps
  <2>2. ASSUME NEW t \in Threads, NEW n \in Nodes, StartElection(t, n) PROVE Kept
    BY <2>2, StartElectionKeeps
  <2>3. ASSUME NEW t \in Threads, NEW n \in Nodes, NEW v \in Values, StartProposal(t, n, v)
        PROVE  Kept
    BY <2>3, StartProposalKeeps
  <2>4. ASSUME NEW t \in Threads, DeliverHandled(t) PROVE Kept
    BY <2>4, DeliverHandledKeeps
  <2>5. ASSUME NEW t \in Threads, DeliverBlocked(t) PROVE Kept
    BY <2>5, DeliverBlockedKeeps
  <2>6. ASSUME NEW t \in Threads, ReceiveDeposed(t) PROVE Kept
    BY <2>6, ReceiveDeposedKeeps
  <2>7. ASSUME NEW t \in Threads, ReceiveVote(t) PROVE Kept
    BY <2>7, ReceiveVoteKeeps
  <2>8. ASSUME NEW t \in Threads, ReceiveAppend(t) PROVE Kept
    BY <2>8, ReceiveAppendKeeps
  <2> QED BY <2>1, <2>2, <2>3, <2>4, <2>5, <2>6, <2>7, <2>8 DEF Next
<1> QED BY <1>1, <1>2 DEF Kept, IInv, NodesInv, CallsInv

LEMMA InvariantInit ==
  ASSUME Init
  PROVE  IInv
<1>1. nodes \in Cluster
  BY DEF Init, Cluster, NewNode, RaftNodes, Roles
<1>2. \A n \in Nodes : /\ nodes[n].role = "follower" /\ nodes[n].log = <<>>
                       /\ nodes[n].machine = <<>> /\ nodes[n].commit = 0 /\ nodes[n].applied = 0
  BY DEF Init, NewNode
<1>3. Pre(<<>>, <<>>)
  BY DEF Pre
<1>4. VerifiedGrows
  BY DEF Init, VerifiedGrows
<1>5. ElectionInv(nodes, elected)
  BY <1>2 DEF Init, ElectionInv, SelfVote, LeadersWon, WonLead, WonByMajority, OneWinner
<1>6. LogInv(nodes, elected)
  BY <1>2 DEF LogInv, EntriesWon, Sorted, LeaderHasAll, TermsAlign, Matching
<1>7. MachineInv(nodes)
  <2>1. MachineIsLog(nodes) /\ LaterLogsHold(nodes) /\ LeadersHold(nodes)
    BY <1>2, <1>3 DEF MachineIsLog, LaterLogsHold, LeadersHold
  <2>2. \A n \in Nodes : Majority(Nodes)
    <3> SUFFICES ASSUME NEW n \in Nodes PROVE Majority(Nodes)
      OBVIOUS
    <3>1. Cardinality(Nodes) \in Nat /\ Cardinality(Nodes) # 0
      BY ClusterAssumption, FS_CardinalityType, FS_EmptySet
    <3> QED BY <3>1 DEF Majority
  <2>3. MajorityHolds(nodes)
    BY <1>2, <1>3, <2>2 DEF MajorityHolds
  <2> QED BY <2>1, <2>3 DEF MachineInv
<1>8. CallsInv(nodes, calls)
  BY DEF Init, CallsInv
<1> QED BY <1>4, <1>5, <1>6, <1>7, <1>8 DEF IInv, NodesInv

\* Served one request at a time, whatever messages are lost, blocked or
\* answered too late: leaders are chosen by majorities, logs agree wherever
\* their terms do, and machines are prefixes of the logs of a majority.
THEOREM RaftInvariant ==
  ASSUME OneAtATime, MajorityQuorums
  PROVE  Spec => [](TypeOK /\ IInv)
<1>1. Init => IInv
  BY InvariantInit
<1>2. TypeOK /\ IInv /\ [Next]_vars => IInv'
  <2>1. ASSUME TypeOK, IInv, Next PROVE IInv'
    BY <2>1, InvariantStep
  <2>2. ASSUME IInv, UNCHANGED vars PROVE IInv'
    BY <2>2 DEF IInv, vars, VerifiedGrows, NodesInv, CallsInv
  <2> QED BY <2>1, <2>2
<1> QED BY <1>1, <1>2, RaftTypeCorrect, PTL DEF Spec

\* Two nodes never win the same term.
THEOREM RaftElectionSafety ==
  ASSUME OneAtATime, MajorityQuorums
  PROVE  Spec => []ElectionSafety
<1>1. IInv => ElectionSafety
  BY DEF IInv, NodesInv, ElectionInv, OneWinner, ElectionSafety
<1> QED BY <1>1, RaftInvariant, PTL

LEMMA PrefixOf ==
  ASSUME NEW s \in Seq(Entries), NEW u \in Seq(Entries), Pre(s, u)
  PROVE  IsPrefixOf(s, u)
<1>1. Len(s) <= Len(u) /\ Len(s) \in Nat /\ Len(u) \in Nat /\ \A i \in 1 .. Len(s) : s[i] = u[i]
  BY DEF Pre
<1>2. SubSeq(u, 1, Len(s)) \in Seq(Entries) /\ Len(SubSeq(u, 1, Len(s))) = Len(s)
  BY <1>1
<1>3. \A i \in 1 .. Len(s) : SubSeq(u, 1, Len(s))[i] = s[i]
  BY <1>1
<1>4. s = SubSeq(u, 1, Len(s))
  BY <1>2, <1>3, SeqEqual
<1> QED BY <1>1, <1>4 DEF IsPrefixOf

\* Logs that have an entry of the same index and term in common are the same
\* up to it.
THEOREM RaftLogMatching ==
  ASSUME OneAtATime, MajorityQuorums
  PROVE  Spec => []LogMatching
<1>1. TypeOK /\ IInv => LogMatching
  <2> SUFFICES ASSUME TypeOK, IInv, NEW a \in Nodes, NEW b \in Nodes,
                      NEW i \in DOMAIN nodes[a].log \cap DOMAIN nodes[b].log,
                      nodes[a].log[i].term = nodes[b].log[i].term
               PROVE  SubSeq(nodes[a].log, 1, i) = SubSeq(nodes[b].log, 1, i)
    BY DEF LogMatching
  <2>1. nodes \in Cluster
    BY DEF TypeOK, Cluster
  <2>2. nodes[a].log \in Seq(Entries) /\ nodes[b].log \in Seq(Entries)
    BY <2>1, NodeFields
  <2>3. /\ i \in Nat /\ i \in 1 .. Len(nodes[a].log) /\ i \in 1 .. Len(nodes[b].log)
        /\ i <= Len(nodes[a].log) /\ i <= Len(nodes[b].log)
    BY <2>2
  <2>4. \A j \in 1 .. i : nodes[a].log[j] = nodes[b].log[j]
    BY <2>3 DEF IInv, NodesInv, LogInv, Matching
  <2>5. /\ SubSeq(nodes[a].log, 1, i) \in Seq(Entries) /\ Len(SubSeq(nodes[a].log, 1, i)) = i
        /\ SubSeq(nodes[b].log, 1, i) \in Seq(Entries) /\ Len(SubSeq(nodes[b].log, 1, i)) = i
    BY <2>2, <2>3
  <2>6. \A j \in 1 .. i : SubSeq(nodes[a].log, 1, i)[j] = SubSeq(nodes[b].log, 1, i)[j]
    BY <2>2, <2>3, <2>4
  <2> QED BY <2>5, <2>6, SeqEqual
<1> QED BY <1>1, RaftInvariant, PTL

LEMMA MachinesNest ==
  ASSUME NEW N \in Cluster, NEW E \in SUBSET (Nodes \X Nat), NodesInv(N, E),
         NEW a \in Nodes, NEW b \in Nodes,
         Applied(N[a].machine) <= Applied(N[b].machine)
  PROVE  Pre(N[a].machine, N[b].machine) \/ Pre(N[b].machine, N[a].machine)
<1> DEFINE A == N[a].machine
<1> DEFINE B == N[b].machine
<1>1. /\ A \in Seq(Entries) /\ B \in Seq(Entries)
      /\ N[a].log \in Seq(Entries) /\ N[b].log \in Seq(Entries)
      /\ Applied(A) \in Nat /\ Applied(B) \in Nat
  BY NodeFields
<1>2. Pre(A, N[a].log) /\ Pre(B, N[b].log)
  BY DEF NodesInv, MachineInv, MachineIsLog
<1>3. ASSUME NEW w \in Seq(Entries), NEW s \in Seq(Entries), NEW u \in Seq(Entries),
             Pre(s, w), Pre(u, w)
      PROVE  Pre(s, u) \/ Pre(u, s)
  BY <1>3 DEF Pre
<1>4. CASE A = <<>>
  BY <1>1, <1>4 DEF Pre
<1>5. CASE B = <<>>
  BY <1>1, <1>5 DEF Pre
<1>6. CASE A # <<>> /\ B # <<>>
  <2>1. /\ Len(A) \in 1 .. Len(N[a].log) /\ Applied(A) = N[a].log[Len(A)].term
        /\ Len(B) \in 1 .. Len(N[b].log) /\ Applied(B) = N[b].log[Len(B)].term
    BY <1>2, <1>6, AppliedEntry
  <2>2. CASE Applied(A) < Applied(B)
    <3>1. Pre(A, N[b].log)
      BY <2>1, <2>2 DEF NodesInv, MachineInv, LaterLogsHold
    <3> QED BY <3>1, <1>1, <1>2, <1>3
  <2>3. CASE Applied(A) = Applied(B)
    <3> DEFINE i == Len(A)
    <3> DEFINE j == Len(B)
    <3>0. i \in Nat /\ j \in Nat
      BY <1>1
    <3>1. CASE i <= j
      <4>1. N[b].log[i].term = N[a].log[i].term /\ i <= Len(N[b].log)
        <5>1. i \in 1 .. Len(N[a].log) /\ j \in 1 .. Len(N[b].log)
              /\ N[a].log[i].term = N[b].log[j].term
          BY <2>1, <2>3
        <5>2. i <= Len(N[b].log)
          BY <5>1, <3>0, <3>1, <1>1
        <5> HIDE DEF i, j
        <5> QED BY <5>1, <5>2, <3>1 DEF NodesInv, LogInv, TermsAlign
      <4>2. \A k \in 1 .. i : N[a].log[k] = N[b].log[k]
        BY <2>1, <4>1 DEF NodesInv, LogInv, Matching
      <4>3. Pre(A, N[b].log)
        BY <4>1, <4>2, <1>2 DEF Pre
      <4> QED BY <4>3, <1>1, <1>2, <1>3
    <3>2. CASE j <= i
      <4>1. N[a].log[j].term = N[b].log[j].term /\ j <= Len(N[a].log)
        <5>1. i \in 1 .. Len(N[a].log) /\ j \in 1 .. Len(N[b].log)
              /\ N[b].log[j].term = N[a].log[i].term
          BY <2>1, <2>3
        <5>2. j <= Len(N[a].log)
          BY <5>1, <3>0, <3>2, <1>1
        <5> HIDE DEF i, j
        <5> QED BY <5>1, <5>2, <3>2 DEF NodesInv, LogInv, TermsAlign
      <4>2. \A k \in 1 .. j : N[b].log[k] = N[a].log[k]
        BY <2>1, <4>1 DEF NodesInv, LogInv, Matching
      <4>3. Pre(B, N[a].log)
        BY <4>1, <4>2, <1>2 DEF Pre
      <4> QED BY <4>3, <1>1, <1>2, <1>3
    <3> QED BY <3>0, <3>1, <3>2
  <2> QED BY <2>2, <2>3, <1>1
<1> QED BY <1>4, <1>5, <1>6

\* All machines have applied the same entries in the same order, some fewer
\* of them than others.
THEOREM RaftStateMachineSafety ==
  ASSUME OneAtATime, MajorityQuorums
  PROVE  Spec => []StateMachineSafety
<1>1. TypeOK /\ IInv => StateMachineSafety
  <2> SUFFICES ASSUME TypeOK, IInv, NEW a \in Nodes, NEW b \in Nodes
               PROVE  \/ IsPrefixOf(nodes[a].machine, nodes[b].machine)
                      \/ IsPrefixOf(nodes[b].machine, nodes[a].machine)
    BY DEF StateMachineSafety
  <2>1. /\ nodes \in Cluster /\ elected \in SUBSET (Nodes \X Nat) /\ NodesInv(nodes, elected)
    BY DEF TypeOK, Cluster, IInv
  <2>2. /\ nodes[a].machine \in Seq(Entries) /\ nodes[b].machine \in Seq(Entries)
        /\ Applied(nodes[a].machine) \in Nat /\ Applied(nodes[b].machine) \in Nat
    BY <2>1, NodeFields
  <2>3. \/ Applied(nodes[a].machine) <= Applied(nodes[b].machine)
        \/ Applied(nodes[b].machine) <= Applied(nodes[a].machine)
    BY <2>2
  <2>4. \/ Pre(nodes[a].machine, nodes[b].machine)
        \/ Pre(nodes[b].machine, nodes[a].machine)
    BY <2>1, <2>3, MachinesNest
  <2> QED BY <2>2, <2>4, PrefixOf
<1> QED BY <1>1, RaftInvariant, PTL

\* What any node has applied is in the logs of a majority and of every leader
\* of its term or a later one.
THEOREM RaftCommittedIsReplicated ==
  ASSUME OneAtATime, MajorityQuorums
  PROVE  Spec => []CommittedIsReplicated
<1>1. TypeOK /\ IInv => CommittedIsReplicated
  <2> SUFFICES ASSUME TypeOK, IInv
               PROVE  LeaderCompleteness /\ AppliedIsReplicated
    BY DEF CommittedIsReplicated
  <2>1. /\ nodes \in Cluster /\ elected \in SUBSET (Nodes \X Nat) /\ NodesInv(nodes, elected)
        /\ ElectionInv(nodes, elected) /\ LogInv(nodes, elected) /\ MachineInv(nodes)
    BY DEF TypeOK, Cluster, IInv, NodesInv
  <2>2. LeaderCompleteness
    <3> SUFFICES ASSUME NEW l \in Nodes, NEW n \in Nodes,
                        nodes[l].role = "leader", nodes[n].term <= nodes[l].term
                 PROVE  IsPrefixOf(nodes[n].machine, nodes[l].log)
      BY DEF LeaderCompleteness
    <3>1. Pre(nodes[n].machine, nodes[n].log)
      BY <2>1 DEF MachineInv, MachineIsLog
    <3>2. Applied(nodes[n].machine) \in Nat /\ Applied(nodes[n].machine) <= nodes[n].term
      BY <2>1, <3>1, AppliedBound
    <3>3. nodes[n].term \in Nat /\ nodes[l].term \in Nat
      BY <2>1, NodeFields
    <3>4. Pre(nodes[n].machine, nodes[l].log)
      BY <2>1, <3>2, <3>3 DEF MachineInv, LeadersHold
    <3> QED BY <2>1, <3>4, NodeFields, PrefixOf
  <2>3. AppliedIsReplicated
    <3> SUFFICES ASSUME NEW n \in Nodes
                 PROVE  2 * Cardinality({m \in Nodes : IsPrefixOf(nodes[n].machine, nodes[m].log)})
                          > Cardinality(Nodes)
      BY DEF AppliedIsReplicated
    <3> DEFINE R == {m \in Nodes : IsPrefixOf(nodes[n].machine, nodes[m].log)}
    <3>1. PICK Q \in SUBSET Nodes : Majority(Q) /\ \A v \in Q : Pre(nodes[n].machine, nodes[v].log)
      BY <2>1 DEF MachineInv, MajorityHolds
    <3>2. Q \subseteq R
      BY <3>1, <2>1, NodeFields, PrefixOf
    <3>3. IsFiniteSet(R)
      BY ClusterAssumption, FS_Subset
    <3>4. IsFiniteSet(Q) /\ Cardinality(Q) <= Cardinality(R)
      BY <3>2, <3>3, FS_Subset
    <3>5. Cardinality(Q) \in Nat /\ Cardinality(R) \in Nat /\ Cardinality(Nodes) \in Nat
      BY <3>3, <3>4, ClusterAssumption, FS_CardinalityType
    <3> HIDE DEF R
    <3>6. 2 * Cardinality(R) > Cardinality(Nodes)
      BY <3>1, <3>4, <3>5 DEF Majority
    <3> QED BY <3>6 DEF R
  <2> QED BY <2>2, <2>3
<1> QED BY <1>1, RaftInvariant, PTL

\* No step of any node takes back what it has committed.
THEOREM RaftCommitsAreFinal ==
  ASSUME OneAtATime, MajorityQuorums
  PROVE  Spec => CommitsAreFinal
<1> DEFINE Final(n) == /\ nodes'[n].commit >= nodes[n].commit
                       /\ IsPrefixOf(SubSeq(nodes[n].log, 1, nodes[n].commit), nodes'[n].log)
<1>1. ASSUME TypeOK, TypeOK', IInv, IInv', Grow(nodes, nodes'), NEW n \in Nodes
      PROVE  Final(n)
  <2>1. nodes \in Cluster /\ nodes' \in Cluster
    BY <1>1 DEF TypeOK, Cluster
  <2>2. /\ nodes[n].commit = Len(nodes[n].machine) /\ Pre(nodes[n].machine, nodes[n].log)
        /\ nodes'[n].commit = Len(nodes'[n].machine) /\ Pre(nodes'[n].machine, nodes'[n].log)
    BY <1>1 DEF IInv, NodesInv, MachineInv, MachineIsLog
  <2>3. /\ nodes[n].machine \in Seq(Entries) /\ nodes[n].log \in Seq(Entries)
        /\ nodes'[n].machine \in Seq(Entries) /\ nodes'[n].log \in Seq(Entries)
    BY <2>1, NodeFields
  <2>4. Pre(nodes[n].machine, nodes'[n].machine)
    BY <1>1 DEF Grow
  <2>5. nodes'[n].commit >= nodes[n].commit
    BY <2>2, <2>3, <2>4 DEF Pre
  <2>6. SubSeq(nodes[n].log, 1, nodes[n].commit) = nodes[n].machine
    BY <2>2, <2>3, PrefixOf DEF IsPrefixOf
  <2>7. Pre(nodes[n].machine, nodes'[n].log)
    BY <2>2, <2>3, <2>4, PreTransitive
  <2>8. IsPrefixOf(nodes[n].machine, nodes'[n].log)
    BY <2>3, <2>7, PrefixOf
  <2> QED BY <2>5, <2>6, <2>8
<1>2. TypeOK /\ IInv /\ TypeOK' /\ [Next]_vars => [\A n \in Nodes : Final(n)]_vars
  <2>1. ASSUME TypeOK, IInv, TypeOK', Next PROVE \A n \in Nodes : Final(n)
    BY <1>1, <2>1, InvariantStep
  <2> QED BY <2>1
<1>3. Spec => [](TypeOK /\ IInv)
  BY RaftInvariant
<1> QED BY <1>2, <1>3, PTL DEF Spec, CommitsAreFinal

=============================================================================
