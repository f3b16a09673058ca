--------------------------- MODULE NetworkProofs ---------------------------
(***************************************************************************)
(* Proofs about the parts that a network holds together (MCNetwork): what  *)
(* network.cfg checks on one small instance, for every value of the        *)
(* constants.  Every part has state of its own; its invariant is kept by   *)
(* its own steps, and no other step touches its variables.                 *)
(***************************************************************************)
EXTENDS MCNetwork, FiniteSetTheorems, SequenceTheorems, TLAPS

\* A table of tables in which one place is given another value.
LEMMA PlaceChanged ==
  ASSUME NEW A, NEW B, NEW S, NEW f \in [A -> [B -> S]], NEW a \in A, NEW b \in B, NEW v \in S
  PROVE  /\ [f EXCEPT ![a][b] = v] \in [A -> [B -> S]]
         /\ \A x \in A, y \in B :
              [f EXCEPT ![a][b] = v][x][y] = IF x = a /\ y = b THEN v ELSE f[x][y]
<1>1. f[a] \in [B -> S]
  OBVIOUS
<1>2. [f[a] EXCEPT ![b] = v] \in [B -> S]
  BY <1>1
<1>3. \A y \in B : [f[a] EXCEPT ![b] = v][y] = IF y = b THEN v ELSE f[a][y]
  BY <1>1
<1>4. [f EXCEPT ![a][b] = v] = [f EXCEPT ![a] = [f[a] EXCEPT ![b] = v]]
  OBVIOUS
<1> QED BY <1>2, <1>3, <1>4

-----------------------------------------------------------------------------
(* The mesh.                                                                *)

Certificates == MeshNodes \X Nat
Profiles == [cert : {NoCert} \cup Certificates, status : {"PENDING", "VERIFIED"}]

\* What a verified peer is listed with, it has proven.
DirectoryIsProven ==
    \A n, p \in MeshNodes :
        /\ directory[n][p] = << >> \/ directory[n][p] \in Profiles
        /\ Verified(n, p) => directory[n][p].cert \in proven[n][p]

MeshTypes ==
    /\ meshCert \in [MeshNodes -> Nat]
    /\ DOMAIN directory = MeshNodes
    /\ directory \in [MeshNodes -> [MeshNodes -> {<< >>} \cup Profiles]]
    /\ \A m \in inFlight : m.from \in MeshNodes /\ m.to \in MeshNodes
    /\ \A m \in inFlight : m.kind = "proof" => m.cert \in Certificates
    /\ proven \in [MeshNodes -> [MeshNodes -> SUBSET Certificates]]

\* A challenge that is active at a node, or will be when a call of the node
\* assigns what it kept.
SeenAt(n, c) == c \in challenges[n] \/ \E g \in issuing[n] : c \in g.kept

\* A number is one node's; a challenge still active verified as many proofs as
\* it was brought back, at most, and one not yet added has verified none.
ChallengesAreCounted ==
    /\ \A n \in MeshNodes : \A c \in challenges[n] : uses[c] <= returned[c]
    /\ \A n \in MeshNodes, c \in Nat : SeenAt(n, c) => c \in 1 .. issued
    /\ \A m, n \in MeshNodes, c \in Nat : SeenAt(m, c) /\ SeenAt(n, c) => m = n
    /\ \A n \in MeshNodes : \A g \in issuing[n] :
         /\ g.id \in 1 .. issued /\ uses[g.id] = 0
         /\ \A m \in MeshNodes : ~SeenAt(m, g.id)
         /\ \A m \in MeshNodes : \A k \in issuing[m] : k.id = g.id => m = n /\ k = g
    /\ \A i \in 1 .. MaxChallenges : i > issued => uses[i] = 0
    /\ \A i \in 1 .. MaxChallenges : uses[i] <= 1 + returned[i]

ChallengeCalls == [id : Nat, kept : SUBSET Nat, assigned : BOOLEAN]

ChallengeTypes ==
    /\ challenges \in [MeshNodes -> SUBSET Nat]
    /\ issuing \in [MeshNodes -> SUBSET ChallengeCalls]
    /\ issued \in Nat /\ issued <= MaxChallenges
    /\ uses \in [1 .. MaxChallenges -> Nat]
    /\ returned \in [1 .. MaxChallenges -> Nat]

ChallengeInv == ChallengeTypes /\ ChallengesAreCounted
MeshInv == MeshTypes /\ DirectoryIsProven /\ TrustIsEarned /\ ChallengeInv

LEMMA MeshStarts ==
  ASSUME MeshInit
  PROVE  MeshInv
<1>1. MeshTypes /\ DirectoryIsProven /\ TrustIsEarned
  BY DEF MeshInit, MeshTypes, DirectoryIsProven, TrustIsEarned, Verified, Registered
<1>2. ChallengeTypes
  BY MeshAssumption DEF MeshInit, ChallengeTypes
<1>3. ChallengesAreCounted
  BY MeshAssumption DEF MeshInit, ChallengesAreCounted, SeenAt
<1> QED
  BY <1>1, <1>2, <1>3 DEF MeshInv, ChallengeInv

LEMMA ChallengesStay ==
  ASSUME ChallengeInv, UNCHANGED <<challenges, issuing, issued, uses, returned>>
  PROVE  ChallengeInv'
BY DEF ChallengeInv, ChallengeTypes, ChallengesAreCounted, SeenAt

LEMMA MeshStays ==
  ASSUME MeshInv, UNCHANGED meshVars
  PROVE  MeshInv'
<1>1. ChallengeInv'
  BY ChallengesStay DEF MeshInv, meshVars, challengeVars
<1> QED
  BY <1>1 DEF meshVars, MeshInv, MeshTypes, DirectoryIsProven, TrustIsEarned, Verified, Registered

\* The three steps of issuing a challenge.
LEMMA IssuingCounts ==
  ASSUME ChallengeInv, NEW n \in MeshNodes, KeepChallenges(n) \/ AssignKept(n) \/ AddChallenge(n)
  PROVE  ChallengeInv'
<1> USE MeshAssumption DEF ChallengeInv
<1>1. CASE KeepChallenges(n)
  <2> DEFINE g == [id |-> issued + 1, kept |-> challenges[n] \ lateOnes, assigned |-> FALSE]
  <2>1. /\ issued' = issued + 1 /\ issued + 1 \in 1 .. MaxChallenges
        /\ issuing' = [issuing EXCEPT ![n] = @ \cup {g}] /\ UNCHANGED <<challenges, uses, returned>>
    BY <1>1 DEF KeepChallenges, ChallengeTypes
  <2>2. g \in ChallengeCalls
    BY DEF ChallengeTypes, ChallengeCalls
  <2>3. g.id = issued + 1 /\ g.kept \subseteq challenges[n]
    OBVIOUS
  <2> HIDE DEF g
  <2>4. ChallengeTypes'
    BY <2>1, <2>2 DEF ChallengeTypes
  <2>5. \A m \in MeshNodes : issuing'[m] = IF m = n THEN issuing[n] \cup {g} ELSE issuing[m]
    BY <2>1 DEF ChallengeTypes
  <2>6. \A m \in MeshNodes, c \in Nat : SeenAt(m, c)' <=> SeenAt(m, c)
    BY <2>1, <2>3, <2>5 DEF SeenAt
  <2>7. \A m \in MeshNodes : \A k \in issuing'[m] : k \in issuing[m] \/ (m = n /\ k = g)
    BY <2>5
  <2>8. \A c \in 1 .. issued : c # issued + 1
    BY DEF ChallengeTypes
  <2>9. \A m \in MeshNodes : \A k \in issuing'[m] :
          /\ k.id \in 1 .. issued' /\ uses'[k.id] = 0
          /\ \A l \in MeshNodes : ~SeenAt(l, k.id)'
    <3> SUFFICES ASSUME NEW m \in MeshNodes, NEW k \in issuing'[m]
                 PROVE  /\ k.id \in 1 .. issued' /\ uses'[k.id] = 0
                        /\ \A l \in MeshNodes : ~SeenAt(l, k.id)'
      OBVIOUS
    <3>1. CASE k \in issuing[m]
      <4>1. k.id \in 1 .. issued /\ uses[k.id] = 0 /\ \A l \in MeshNodes : ~SeenAt(l, k.id)
        BY <3>1 DEF ChallengesAreCounted
      <4> QED
        BY <4>1, <2>1, <2>6 DEF ChallengeTypes
    <3>2. CASE k = g
      <4>1. k.id = issued + 1 /\ issued \in Nat
        BY <3>2, <2>3 DEF ChallengeTypes
      <4>2. uses[issued + 1] = 0
        BY <2>1, <4>1 DEF ChallengesAreCounted
      <4>3. \A l \in MeshNodes : ~SeenAt(l, issued + 1)
        BY <2>8, <4>1 DEF ChallengesAreCounted
      <4> QED
        BY <4>1, <4>2, <4>3, <2>1, <2>6
    <3> QED
      BY <3>1, <3>2, <2>7
  <2>10. \A l, m \in MeshNodes : \A j \in issuing'[l], k \in issuing'[m] : j.id = k.id => l = m /\ j = k
    <3>1. \A m \in MeshNodes : \A k \in issuing[m] : k.id # g.id
      BY <2>3, <2>8 DEF ChallengesAreCounted
    <3>2. \A l, m \in MeshNodes : \A j \in issuing[l], k \in issuing[m] : j.id = k.id => l = m /\ j = k
      BY DEF ChallengesAreCounted
    <3> QED
      BY <2>7, <3>1, <3>2
  <2>11. /\ \A m \in MeshNodes : \A c \in challenges'[m] : uses'[c] <= returned'[c]
         /\ \A m \in MeshNodes, c \in Nat : SeenAt(m, c)' => c \in 1 .. issued'
         /\ \A l, m \in MeshNodes, c \in Nat : SeenAt(l, c)' /\ SeenAt(m, c)' => l = m
         /\ \A i \in 1 .. MaxChallenges : i > issued' => uses'[i] = 0
         /\ \A i \in 1 .. MaxChallenges : uses'[i] <= 1 + returned'[i]
    BY <2>1, <2>6 DEF ChallengesAreCounted, ChallengeTypes
  <2>12. ChallengesAreCounted'
    BY <2>9, <2>10, <2>11 DEF ChallengesAreCounted
  <2> QED
    BY <2>4, <2>12
<1>2. CASE AssignKept(n)
  <2>1. PICK g \in issuing[n] :
          /\ challenges' = [challenges EXCEPT ![n] = g.kept]
          /\ returned' = [c \in DOMAIN returned |->
               IF c \in g.kept \ challenges[n] THEN returned[c] + 1 ELSE returned[c]]
          /\ issuing' = [issuing EXCEPT ![n] = (@ \ {g}) \cup {[g EXCEPT !.assigned = TRUE]}]
          /\ UNCHANGED <<issued, uses>>
    BY <1>2 DEF AssignKept
  <2> PICK h : h = [g EXCEPT !.assigned = TRUE]
    OBVIOUS
  <2>2. g \in ChallengeCalls
    BY DEF ChallengeTypes
  <2>3. h \in ChallengeCalls /\ h.id = g.id /\ h.kept = g.kept /\ g.kept \in SUBSET Nat
    BY <2>2 DEF ChallengeCalls
  <2>4. /\ \A m \in MeshNodes : challenges'[m] = IF m = n THEN g.kept ELSE challenges[m]
        /\ \A m \in MeshNodes : issuing'[m] = IF m = n THEN (issuing[n] \ {g}) \cup {h} ELSE issuing[m]
    BY <2>1 DEF ChallengeTypes
  <2>5. \A m \in MeshNodes : \A k \in issuing'[m] :
          \E j \in issuing[m] : /\ j.id = k.id /\ j.kept = k.kept
                                /\ (j = k /\ (m = n => j # g)) \/ (m = n /\ j = g /\ k = h)
    BY <2>3, <2>4
  <2>6. \A m \in MeshNodes, c \in Nat : SeenAt(m, c)' => SeenAt(m, c)
    <3> SUFFICES ASSUME NEW m \in MeshNodes, NEW c \in Nat, SeenAt(m, c)' PROVE SeenAt(m, c)
      OBVIOUS
    <3>1. CASE c \in challenges'[m]
      BY <3>1, <2>4 DEF SeenAt
    <3>2. CASE \E k \in issuing'[m] : c \in k.kept
      BY <3>2, <2>5 DEF SeenAt
    <3> QED
      BY <3>1, <3>2 DEF SeenAt
  <2>7. \A i \in 1 .. MaxChallenges :
          /\ returned'[i] \in Nat /\ returned'[i] >= returned[i]
          /\ i \in g.kept \ challenges[n] => returned'[i] = returned[i] + 1
    <3>1. returned \in [1 .. MaxChallenges -> Nat]
      BY DEF ChallengeTypes
    <3>2. \A i \in 1 .. MaxChallenges :
            returned'[i] = IF i \in g.kept \ challenges[n] THEN returned[i] + 1 ELSE returned[i]
      BY <2>1, <3>1
    <3> QED
      BY ONLY <3>1, <3>2
  <2>8. ChallengeTypes'
    <3>1. challenges' \in [MeshNodes -> SUBSET Nat]
      BY <2>1, <2>3 DEF ChallengeTypes
    <3>2. issuing' \in [MeshNodes -> SUBSET ChallengeCalls]
      <4>1. issuing \in [MeshNodes -> SUBSET ChallengeCalls]
        BY DEF ChallengeTypes
      <4>2. issuing' = [issuing EXCEPT ![n] = (issuing[n] \ {g}) \cup {h}]
        BY <2>1
      <4>3. (issuing[n] \ {g}) \cup {h} \in SUBSET ChallengeCalls
        BY <4>1, <2>3
      <4> QED
        BY ONLY <4>1, <4>2, <4>3
    <3>3. returned' \in [1 .. MaxChallenges -> Nat]
      <4>1. DOMAIN returned' = 1 .. MaxChallenges
        BY <2>1 DEF ChallengeTypes
      <4>2. returned' = [i \in 1 .. MaxChallenges |-> returned'[i]]
        BY <2>1, <4>1
      <4> QED
        BY <2>7, <4>2
    <3> QED
      BY <2>1, <3>1, <3>2, <3>3 DEF ChallengeTypes
  <2>9. \A m \in MeshNodes : \A c \in challenges'[m] : uses'[c] <= returned'[c]
    <3> SUFFICES ASSUME NEW m \in MeshNodes, NEW c \in challenges'[m] PROVE uses[c] <= returned'[c]
      BY <2>1
    <3>1. c \in Nat /\ SeenAt(m, c)
      BY <2>6, <2>8 DEF SeenAt, ChallengeTypes
    <3>2. c \in 1 .. MaxChallenges
      BY <3>1 DEF ChallengesAreCounted, ChallengeTypes
    <3>3. uses[c] \in Nat /\ returned[c] \in Nat /\ uses[c] <= 1 + returned[c]
      BY <3>2 DEF ChallengesAreCounted, ChallengeTypes
    <3>4. CASE c \in challenges[m]
      <4>1. uses[c] <= returned[c]
        BY <3>4 DEF ChallengesAreCounted
      <4> QED
        BY <4>1, <2>7, <3>2, <3>3
    <3>5. CASE c \notin challenges[m]
      <4>1. m = n /\ c \in g.kept \ challenges[n]
        BY <3>5, <2>4
      <4> QED
        BY <4>1, <2>7, <3>2, <3>3
    <3> QED
      BY <3>4, <3>5
  <2>10. \A m \in MeshNodes : \A k \in issuing'[m] :
          /\ k.id \in 1 .. issued' /\ uses'[k.id] = 0
          /\ \A l \in MeshNodes : ~SeenAt(l, k.id)'
    <3> SUFFICES ASSUME NEW m \in MeshNodes, NEW k \in issuing'[m]
                 PROVE  /\ k.id \in 1 .. issued' /\ uses'[k.id] = 0
                        /\ \A l \in MeshNodes : ~SeenAt(l, k.id)'
      OBVIOUS
    <3>1. PICK j \in issuing[m] : j.id = k.id
      BY <2>5
    <3>2. j.id \in 1 .. issued /\ uses[j.id] = 0 /\ \A l \in MeshNodes : ~SeenAt(l, j.id)
      BY DEF ChallengesAreCounted
    <3>3. k.id \in Nat
      BY <3>1, <3>2
    <3> QED
      BY <3>1, <3>2, <3>3, <2>1, <2>6
  <2>11. \A l, m \in MeshNodes : \A i \in issuing'[l], k \in issuing'[m] : i.id = k.id => l = m /\ i = k
    <3> SUFFICES ASSUME NEW l \in MeshNodes, NEW m \in MeshNodes, NEW i \in issuing'[l], NEW k \in issuing'[m],
                        i.id = k.id
                 PROVE  l = m /\ i = k
      OBVIOUS
    <3>1. PICK a \in issuing[l] : a.id = i.id /\ ((a = i /\ (l = n => a # g)) \/ (l = n /\ a = g /\ i = h))
      BY <2>5
    <3>2. PICK b \in issuing[m] : b.id = k.id /\ ((b = k /\ (m = n => b # g)) \/ (m = n /\ b = g /\ k = h))
      BY <2>5
    <3>3. l = m /\ a = b
      BY <3>1, <3>2 DEF ChallengesAreCounted
    <3> QED
      BY <3>1, <3>2, <3>3
  <2>12. /\ \A m \in MeshNodes, c \in Nat : SeenAt(m, c)' => c \in 1 .. issued'
         /\ \A l, m \in MeshNodes, c \in Nat : SeenAt(l, c)' /\ SeenAt(m, c)' => l = m
         /\ \A i \in 1 .. MaxChallenges : i > issued' => uses'[i] = 0
    BY <2>1, <2>6 DEF ChallengesAreCounted
  <2>13. \A i \in 1 .. MaxChallenges : uses'[i] <= 1 + returned'[i]
    <3>1. \A i \in 1 .. MaxChallenges : uses[i] \in Nat /\ returned[i] \in Nat /\ uses[i] <= 1 + returned[i]
      BY DEF ChallengesAreCounted, ChallengeTypes
    <3>2. uses' = uses
      BY <2>1
    <3> QED
      BY ONLY <3>1, <3>2, <2>7
  <2>14. ChallengesAreCounted'
    BY <2>9, <2>10, <2>11, <2>12, <2>13 DEF ChallengesAreCounted
  <2> QED
    BY <2>8, <2>14
<1>3. CASE AddChallenge(n)
  <2>1. PICK g \in issuing[n] :
          /\ challenges' = [challenges EXCEPT ![n] = @ \cup {g.id}]
          /\ issuing' = [issuing EXCEPT ![n] = @ \ {g}]
          /\ UNCHANGED <<issued, uses, returned>>
    BY <1>3 DEF AddChallenge
  <2>2. /\ g \in ChallengeCalls /\ g.id \in 1 .. issued /\ uses[g.id] = 0 /\ g.id \in 1 .. MaxChallenges
        /\ \A m \in MeshNodes : ~SeenAt(m, g.id)
    BY DEF ChallengeTypes, ChallengesAreCounted
  <2>3. /\ \A m \in MeshNodes : challenges'[m] = IF m = n THEN challenges[n] \cup {g.id} ELSE challenges[m]
        /\ \A m \in MeshNodes : issuing'[m] = IF m = n THEN issuing[n] \ {g} ELSE issuing[m]
    BY <2>1 DEF ChallengeTypes
  <2>4. \A m \in MeshNodes, c \in Nat : SeenAt(m, c)' => SeenAt(m, c) \/ (m = n /\ c = g.id)
    <3> SUFFICES ASSUME NEW m \in MeshNodes, NEW c \in Nat, SeenAt(m, c)'
                 PROVE  SeenAt(m, c) \/ (m = n /\ c = g.id)
      OBVIOUS
    <3>1. CASE c \in challenges'[m]
      BY <3>1, <2>3 DEF SeenAt
    <3>2. CASE \E k \in issuing'[m] : c \in k.kept
      BY <3>2, <2>3 DEF SeenAt
    <3> QED
      BY <3>1, <3>2 DEF SeenAt
  <2>5. ChallengeTypes'
    <3>1. g.id \in Nat
      BY <2>2 DEF ChallengeCalls
    <3> QED
      BY <2>1, <3>1 DEF ChallengeTypes
  <2>6. \A m \in MeshNodes : \A c \in challenges'[m] : uses'[c] <= returned'[c]
    <3>1. returned[g.id] \in Nat
      BY <2>2 DEF ChallengeTypes
    <3>2. \A m \in MeshNodes : \A c \in challenges'[m] : c \in challenges[m] \/ c = g.id
      BY <2>3
    <3> QED
      BY <2>1, <2>2, <3>1, <3>2 DEF ChallengesAreCounted
  <2>7. \A m \in MeshNodes : \A k \in issuing'[m] :
          /\ k.id \in 1 .. issued' /\ uses'[k.id] = 0
          /\ \A l \in MeshNodes : ~SeenAt(l, k.id)'
    <3> SUFFICES ASSUME NEW m \in MeshNodes, NEW k \in issuing'[m]
                 PROVE  /\ k.id \in 1 .. issued' /\ uses'[k.id] = 0
                        /\ \A l \in MeshNodes : ~SeenAt(l, k.id)'
      OBVIOUS
    <3>1. k \in issuing[m] /\ (m = n => k # g)
      BY <2>3
    <3>2. k.id \in 1 .. issued /\ uses[k.id] = 0 /\ (\A l \in MeshNodes : ~SeenAt(l, k.id)) /\ k.id # g.id
      BY <3>1 DEF ChallengesAreCounted
    <3>3. k.id \in Nat
      BY <3>2
    <3> QED
      BY <3>2, <3>3, <2>1, <2>4
  <2>8. \A l, m \in MeshNodes : \A i \in issuing'[l], k \in issuing'[m] : i.id = k.id => l = m /\ i = k
    <3>1. \A m \in MeshNodes : issuing'[m] \subseteq issuing[m]
      BY <2>3
    <3> QED
      BY <3>1 DEF ChallengesAreCounted
  <2>9. /\ \A m \in MeshNodes, c \in Nat : SeenAt(m, c)' => c \in 1 .. issued'
        /\ \A l, m \in MeshNodes, c \in Nat : SeenAt(l, c)' /\ SeenAt(m, c)' => l = m
        /\ \A i \in 1 .. MaxChallenges : i > issued' => uses'[i] = 0
        /\ \A i \in 1 .. MaxChallenges : uses'[i] <= 1 + returned'[i]
    BY <2>1, <2>2, <2>4 DEF ChallengesAreCounted
  <2>10. ChallengesAreCounted'
    BY <2>6, <2>7, <2>8, <2>9 DEF ChallengesAreCounted
  <2> QED
    BY <2>5, <2>10
<1> QED
  BY <1>1, <1>2, <1>3

\* A proof takes its challenge out and counts for it at most once.
LEMMA TakingCounts ==
  ASSUME ChallengeInv, NEW n \in MeshNodes, NEW i \in challenges[n],
         challenges' = [challenges EXCEPT ![n] = @ \ {i}],
         uses' = uses \/ uses' = [uses EXCEPT ![i] = @ + 1],
         UNCHANGED <<issuing, issued, returned>>
  PROVE  ChallengeInv'
<1> USE MeshAssumption DEF ChallengeInv
<1>1. i \in Nat /\ SeenAt(n, i)
  BY DEF ChallengeTypes, SeenAt
<1>2. i \in 1 .. MaxChallenges /\ i <= issued /\ uses[i] <= returned[i]
  BY <1>1 DEF ChallengesAreCounted, ChallengeTypes
<1>3. \A m \in MeshNodes : challenges'[m] = IF m = n THEN challenges[n] \ {i} ELSE challenges[m]
  BY DEF ChallengeTypes
<1>4. \A m \in MeshNodes, c \in Nat : SeenAt(m, c)' => SeenAt(m, c)
  BY <1>3 DEF SeenAt
<1>5. uses \in [1 .. MaxChallenges -> Nat] /\ returned \in [1 .. MaxChallenges -> Nat]
  BY DEF ChallengeTypes
<1>6. /\ \A j \in 1 .. MaxChallenges : j # i => uses'[j] = uses[j]
      /\ uses' \in [1 .. MaxChallenges -> Nat] /\ uses'[i] <= uses[i] + 1
  <2>1. CASE uses' = uses
    BY <2>1, <1>2, <1>5
  <2>2. CASE uses' = [uses EXCEPT ![i] = @ + 1]
    BY <2>2, <1>2, <1>5
  <2> QED
    BY <2>1, <2>2
<1>7. ChallengeTypes'
  <2>1. challenges' \in [MeshNodes -> SUBSET Nat]
    BY DEF ChallengeTypes
  <2> QED
    BY <2>1, <1>6 DEF ChallengeTypes
<1>8. \A m \in MeshNodes : \A c \in challenges'[m] : uses'[c] <= returned'[c]
  <2> SUFFICES ASSUME NEW m \in MeshNodes, NEW c \in challenges'[m] PROVE uses'[c] <= returned[c]
    OBVIOUS
  <2>1. c \in challenges[m] /\ (m = n => c # i)
    BY <1>3
  <2>2. c \in Nat /\ SeenAt(m, c)
    BY <2>1 DEF ChallengeTypes, SeenAt
  <2>3. c # i
    BY <2>1, <2>2, <1>1 DEF ChallengesAreCounted
  <2>4. c \in 1 .. MaxChallenges /\ uses[c] <= returned[c]
    BY <2>1, <2>2 DEF ChallengesAreCounted, ChallengeTypes
  <2> QED
    BY <2>3, <2>4, <1>6
<1>9. \A m \in MeshNodes : \A k \in issuing'[m] :
        /\ k.id \in 1 .. issued' /\ uses'[k.id] = 0
        /\ \A l \in MeshNodes : ~SeenAt(l, k.id)'
  <2> SUFFICES ASSUME NEW m \in MeshNodes, NEW k \in issuing[m]
               PROVE  /\ k.id \in 1 .. issued /\ uses'[k.id] = 0
                      /\ \A l \in MeshNodes : ~SeenAt(l, k.id)'
    OBVIOUS
  <2>1. k.id \in 1 .. issued /\ uses[k.id] = 0 /\ \A l \in MeshNodes : ~SeenAt(l, k.id)
    BY DEF ChallengesAreCounted
  <2>2. k.id \in Nat /\ k.id \in 1 .. MaxChallenges
    BY <2>1 DEF ChallengeTypes
  <2>3. k.id # i
    BY <2>1, <1>1
  <2> QED
    BY <2>1, <2>2, <2>3, <1>4, <1>6
<1>10. \A l, m \in MeshNodes : \A j \in issuing'[l], k \in issuing'[m] : j.id = k.id => l = m /\ j = k
  BY DEF ChallengesAreCounted
<1>11. /\ \A m \in MeshNodes, c \in Nat : SeenAt(m, c)' => c \in 1 .. issued'
       /\ \A l, m \in MeshNodes, c \in Nat : SeenAt(l, c)' /\ SeenAt(m, c)' => l = m
  BY <1>4 DEF ChallengesAreCounted
<1>12. \A j \in 1 .. MaxChallenges : j > issued' => uses'[j] = 0
  <2>1. issued \in Nat
    BY DEF ChallengeTypes
  <2>2. \A j \in 1 .. MaxChallenges : j > issued => j # i
    BY ONLY <2>1, <1>2
  <2> QED
    BY <2>2, <1>6 DEF ChallengesAreCounted
<1>13. \A j \in 1 .. MaxChallenges : uses'[j] <= 1 + returned'[j]
  <2>1. \A j \in 1 .. MaxChallenges : uses[j] <= 1 + returned[j]
    BY DEF ChallengesAreCounted
  <2>2. returned' = returned
    OBVIOUS
  <2> QED
    BY ONLY <1>2, <1>5, <1>6, <2>1, <2>2
<1>14. ChallengesAreCounted'
  BY <1>8, <1>9, <1>10, <1>11, <1>12, <1>13 DEF ChallengesAreCounted
<1> QED
  BY <1>7, <1>14

LEMMA MeshStepKeeps ==
  ASSUME MeshInv, MeshNext
  PROVE  MeshInv'
<1> USE DEF MeshInv
<1>1. ASSUME NEW n \in MeshNodes, NEW p \in MeshNodes, JoinPeer(n, p)
      PROVE  MeshInv'
  <2>1. PICK cert \in {NoCert} \cup {Cert(h) : h \in MeshNodes} : Register(n, p, cert)
    BY <1>1 DEF JoinPeer
  <2>2. [cert |-> cert, status |-> "PENDING"] \in Profiles
    BY <2>1 DEF MeshTypes, Profiles, Certificates, Cert
  <2>3. MeshTypes'
    BY <1>1, <2>1, <2>2 DEF JoinPeer, Register, MeshTypes
  <2>4. DirectoryIsProven'
    BY <1>1, <2>1, <2>2 DEF JoinPeer, Register, MeshTypes, DirectoryIsProven, Verified, Registered
  <2>5. ChallengeInv' /\ TrustIsEarned'
    BY <1>1, ChallengesStay DEF JoinPeer, TrustIsEarned, challengeVars
  <2> QED BY <2>3, <2>4, <2>5
<1>2. ASSUME NEW h \in MeshNodes, NEW n \in MeshNodes, CreateProof(h, n) \/ SendRequest(h, n)
      PROVE  MeshInv'
  <2>1. UNCHANGED <<strict, meshCert, meshStale, directory, challengeVars, proven, earned>>
    BY <1>2 DEF CreateProof, SendRequest
  <2>2. Cert(h) \in Certificates
    BY DEF MeshTypes, Certificates, Cert
  <2>3. \A m \in inFlight' : m.from \in MeshNodes /\ m.to \in MeshNodes /\ (m.kind = "proof" => m.cert \in Certificates)
    <3>1. CASE CreateProof(h, n)
      BY <3>1, <2>2 DEF CreateProof, MeshTypes
    <3>2. CASE SendRequest(h, n)
      BY <3>2 DEF SendRequest, Requests, MeshTypes
    <3> QED
      BY <1>2, <3>1, <3>2
  <2>4. MeshTypes' /\ DirectoryIsProven' /\ TrustIsEarned'
    BY <2>1, <2>3 DEF MeshTypes, DirectoryIsProven, TrustIsEarned, Verified, Registered
  <2>5. ChallengeInv'
    BY <2>1, ChallengesStay DEF challengeVars
  <2> QED BY <2>4, <2>5
<1>3. ASSUME NEW n \in MeshNodes, RotateCert(n) \/ CertExpires(n)
      PROVE  MeshInv'
  <2>1. UNCHANGED <<strict, directory, challengeVars, inFlight, proven, earned>> /\ meshCert' \in [MeshNodes -> Nat]
    BY <1>3 DEF RotateCert, CertExpires, NewCert, MeshTypes
  <2>2. MeshTypes' /\ DirectoryIsProven' /\ TrustIsEarned'
    BY <2>1 DEF MeshTypes, DirectoryIsProven, TrustIsEarned, Verified, Registered
  <2>3. ChallengeInv'
    BY <2>1, ChallengesStay DEF challengeVars
  <2> QED BY <2>2, <2>3
<1>4. ASSUME NEW n \in MeshNodes, KeepChallenges(n) \/ AssignKept(n) \/ AddChallenge(n)
      PROVE  MeshInv'
  <2>1. UNCHANGED <<strict, meshCert, directory, inFlight, proven, earned>>
    BY <1>4 DEF KeepChallenges, AssignKept, AddChallenge
  <2>2. MeshTypes' /\ DirectoryIsProven' /\ TrustIsEarned'
    BY <2>1 DEF MeshTypes, DirectoryIsProven, TrustIsEarned, Verified, Registered
  <2> QED BY <1>4, <2>2, IssuingCounts
<1>5. ASSUME NEW c \in 1 .. issued, ChallengeExpires(c)
      PROVE  MeshInv'
  <2>1. MeshTypes' /\ DirectoryIsProven' /\ TrustIsEarned'
    BY <1>5 DEF ChallengeExpires, MeshTypes, DirectoryIsProven, TrustIsEarned, Verified, Registered
  <2> QED BY <1>5, <2>1, ChallengesStay DEF ChallengeExpires
<1>6. ASSUME NEW n \in MeshNodes, Delegate(n)
      PROVE  MeshInv'
  <2>1. PICK p \in Candidates(n) :
          /\ earned' = (earned /\ directory[n][p].cert \in proven[n][p])
          /\ UNCHANGED <<strict, meshCert, meshStale, directory, challengeVars, inFlight, proven>>
    BY <1>6 DEF Delegate
  <2>2. p \in MeshNodes /\ (strict => Verified(n, p))
    BY DEF Candidates
  <2>3. TrustIsEarned'
    BY <2>1, <2>2 DEF TrustIsEarned, DirectoryIsProven
  <2>4. MeshTypes' /\ DirectoryIsProven'
    BY <2>1 DEF MeshTypes, DirectoryIsProven, Verified, Registered
  <2> QED BY <2>1, <2>3, <2>4, ChallengesStay DEF challengeVars
<1>7. ASSUME NEW m \in inFlight, VerifyProof(m)
      PROVE  MeshInv'
  <2>1. /\ m.kind = "proof" /\ m.id \in challenges[m.to] /\ TakeChallenge(m.to, m.id, m.from)
        /\ IF m.id \in lateOnes \/ ~CertValid(m.cert) THEN UNCHANGED <<directory, proven, uses>>
           ELSE /\ uses' = [uses EXCEPT ![m.id] = @ + 1]
                /\ IF Registered(m.to, m.from)
                   THEN /\ directory' = [directory EXCEPT ![m.to][m.from] =
                                           [cert |-> m.cert, status |-> "VERIFIED"]]
                        /\ proven' = [proven EXCEPT ![m.to][m.from] = @ \cup {m.cert}]
                   ELSE UNCHANGED <<directory, proven>>
    BY <1>7 DEF VerifyProof
  <2>2. UNCHANGED <<strict, meshCert, issuing, issued, returned, inFlight, earned>>
    BY <1>7 DEF VerifyProof
  <2>3. m.to \in MeshNodes /\ m.from \in MeshNodes /\ m.cert \in Certificates
    BY <2>1 DEF MeshTypes
  <2>4. challenges' = [challenges EXCEPT ![m.to] = @ \ {m.id}]
    BY <2>1 DEF TakeChallenge
  <2>5. uses' = uses \/ uses' = [uses EXCEPT ![m.id] = @ + 1]
    BY <2>1
  <2>6. ChallengeInv'
    BY <2>1, <2>2, <2>3, <2>4, <2>5, TakingCounts
  <2>7. [cert |-> m.cert, status |-> "VERIFIED"] \in Profiles
    BY <2>3 DEF Profiles
  <2>8. \/ UNCHANGED <<directory, proven>>
        \/ /\ directory' = [directory EXCEPT ![m.to][m.from] = [cert |-> m.cert, status |-> "VERIFIED"]]
           /\ proven' = [proven EXCEPT ![m.to][m.from] = @ \cup {m.cert}]
    BY <2>1
  <2>9. MeshTypes'
    <3>0. proven[m.to][m.from] \cup {m.cert} \in SUBSET Certificates
      BY <2>3 DEF MeshTypes
    <3>1. /\ directory' \in [MeshNodes -> [MeshNodes -> {<< >>} \cup Profiles]]
          /\ proven' \in [MeshNodes -> [MeshNodes -> SUBSET Certificates]]
      <4>1. /\ directory \in [MeshNodes -> [MeshNodes -> {<< >>} \cup Profiles]]
            /\ proven \in [MeshNodes -> [MeshNodes -> SUBSET Certificates]]
        BY DEF MeshTypes
      <4>2. [directory EXCEPT ![m.to][m.from] = [cert |-> m.cert, status |-> "VERIFIED"]]
              \in [MeshNodes -> [MeshNodes -> {<< >>} \cup Profiles]]
        BY <4>1, <2>3, <2>7, PlaceChanged
      <4>3. [proven EXCEPT ![m.to][m.from] = proven[m.to][m.from] \cup {m.cert}]
              \in [MeshNodes -> [MeshNodes -> SUBSET Certificates]]
        BY <4>1, <3>0, <2>3, PlaceChanged
      <4> QED BY <4>1, <4>2, <4>3, <2>8
    <3> QED BY <2>2, <3>1 DEF MeshTypes
  <2>10. DirectoryIsProven'
    <3>1. CASE UNCHANGED <<directory, proven>>
      BY <3>1 DEF DirectoryIsProven, Verified, Registered
    <3>2. CASE /\ directory' = [directory EXCEPT ![m.to][m.from] = [cert |-> m.cert, status |-> "VERIFIED"]]
               /\ proven' = [proven EXCEPT ![m.to][m.from] = @ \cup {m.cert}]
      <4>1. \A n, p \in MeshNodes :
              directory'[n][p] = IF n = m.to /\ p = m.from
                                 THEN [cert |-> m.cert, status |-> "VERIFIED"] ELSE directory[n][p]
        BY <3>2, <2>3, <2>7, PlaceChanged DEF MeshTypes
      <4>2. \A n, p \in MeshNodes :
              proven'[n][p] = IF n = m.to /\ p = m.from
                              THEN proven[n][p] \cup {m.cert} ELSE proven[n][p]
        BY <3>2, <2>3 DEF MeshTypes
      <4> SUFFICES ASSUME NEW n \in MeshNodes, NEW p \in MeshNodes
                   PROVE  /\ directory'[n][p] = << >> \/ directory'[n][p] \in Profiles
                          /\ Verified(n, p)' => directory'[n][p].cert \in proven'[n][p]
        BY DEF DirectoryIsProven
      <4>3. CASE n = m.to /\ p = m.from
        <5>1. directory'[n][p] = [cert |-> m.cert, status |-> "VERIFIED"]
          BY <4>1, <4>3
        <5>2. m.cert \in proven'[n][p]
          BY <4>2, <4>3
        <5> QED BY <5>1, <5>2, <2>7
      <4>4. CASE ~(n = m.to /\ p = m.from)
        BY <4>1, <4>2, <4>4 DEF DirectoryIsProven, Verified, Registered
      <4> QED BY <4>3, <4>4
    <3> QED BY <2>8, <3>1, <3>2
  <2>11. TrustIsEarned'
    BY <2>2 DEF TrustIsEarned
  <2> QED BY <2>6, <2>9, <2>10, <2>11
<1>8. ASSUME NEW m \in inFlight, ReceiveRequest(m)
      PROVE  MeshInv'
  <2>1. /\ Accepts(m) /\ earned' = (earned /\ m.cert \in proven[m.to][m.from])
        /\ UNCHANGED <<strict, meshCert, meshStale, directory, challengeVars, inFlight, proven>>
    BY <1>8 DEF ReceiveRequest
  <2>2. m.to \in MeshNodes /\ m.from \in MeshNodes
    BY DEF MeshTypes
  <2>3. strict => m.cert = directory[m.to][m.from].cert /\ Verified(m.to, m.from)
    BY <2>1 DEF Accepts, Verified
  <2>4. TrustIsEarned'
    BY <2>1, <2>2, <2>3 DEF TrustIsEarned, DirectoryIsProven
  <2>5. MeshTypes' /\ DirectoryIsProven'
    BY <2>1 DEF MeshTypes, DirectoryIsProven, Verified, Registered
  <2> QED BY <2>1, <2>4, <2>5, ChallengesStay DEF challengeVars
<1> QED
  BY <1>1, <1>2, <1>3, <1>4, <1>5, <1>6, <1>7, <1>8 DEF MeshNext

\* In the mesh alone, and beside the other parts as the run explores it: under
\* strict attestation a delegation is only ever based on a certificate whose
\* holder answered a challenge under the peer's name since it was registered, and
\* no challenge verifies more proofs than one and one for each time a rebuilt
\* dictionary brought it back, for any number of nodes, calls and messages.
THEOREM NetworkPeersAreAttested == (MeshSpec => []PeersAreAttested) /\ (Spec => []PeersAreAttested)
<1>1. (MeshInit => MeshInv) /\ (Init => MeshInv)
  BY MeshStarts DEF Init
<1>2. MeshInv /\ [Next]_netVars => MeshInv'
  <2>1. ASSUME Next PROVE MeshNext \/ UNCHANGED meshVars
    BY <2>1 DEF Next, MeshStep, RegionStep, RouterStep, TopologyStep, CloudStep, SessionStep,
                DashboardStep, CrewStep, OverlayStep
  <2>2. UNCHANGED netVars => UNCHANGED meshVars
    BY DEF netVars
  <2> QED BY <2>1, <2>2, MeshStepKeeps, MeshStays
<1>3. MeshInv => PeersAreAttested
  <2>1. ChallengeTypes => \A c \in 1 .. issued : c \in 1 .. MaxChallenges
    BY MeshAssumption DEF ChallengeTypes
  <2> QED BY <2>1 DEF MeshInv, ChallengeInv, ChallengesAreCounted, PeersAreAttested, ChallengesAreSingleUse
<1>4. MeshInv /\ [MeshNext]_meshVars => MeshInv'
  BY MeshStepKeeps, MeshStays
<1> QED BY <1>1, <1>2, <1>3, <1>4, PTL DEF Spec, MeshSpec

-----------------------------------------------------------------------------
(* The cross-cloud gateways.                                                *)

TunnelRecords ==
    [state : {"new", "accepting", "open", "closing", "closed"}, gate : Gateways \cup {<< >>},
     cloud : Clouds \cup {<< >>}, cert : Certs \cup {<< >>}]
PeerEntries == {<< >>} \cup ({"tunnel"} \X CcTunnels) \cup ({"seed"} \X Certs)

CcTypes ==
    /\ ccTunnels \in [CcTunnels -> TunnelRecords]
    /\ ccPeers \in [Gateways -> [Clouds -> PeerEntries]]

\* A tunnel past its handshake knows its gateway and its cloud.
HandshakesAreComplete ==
    \A t \in CcTunnels : ccTunnels[t].state \in {"accepting", "open", "closing"} =>
        ccTunnels[t].gate \in Gateways /\ ccTunnels[t].cloud \in Clouds

\* A tunnel is listed by its own gateway, under its own cloud, and is open.
EntriesAreOpen ==
    \A g \in Gateways, c \in Clouds, t \in CcTunnels :
        ccPeers[g][c] = << "tunnel", t >> =>
            ccTunnels[t].state = "open" /\ ccTunnels[t].gate = g /\ ccTunnels[t].cloud = c

CcInv == CcTypes /\ HandshakesAreComplete /\ EntriesAreOpen

LEMMA CcStarts ==
  ASSUME CcInit
  PROVE  CcInv
<1>1. CcTypes
  BY DEF CcInit, CcTypes, NoTunnel, TunnelRecords, PeerEntries
<1>2. HandshakesAreComplete
  BY DEF CcInit, NoTunnel, HandshakesAreComplete
<1>3. EntriesAreOpen
  <2>1. \A t : << "tunnel", t >> # << >>
    OBVIOUS
  <2> QED BY <2>1 DEF CcInit, EntriesAreOpen
<1> QED BY <1>1, <1>2, <1>3 DEF CcInv

LEMMA CcStays ==
  ASSUME CcInv, UNCHANGED ccVars
  PROVE  CcInv'
BY DEF ccVars, CcInv, CcTypes, HandshakesAreComplete, EntriesAreOpen

\* A tunnel that is in no table changes its state.
LEMMA UnlistedTunnel ==
  ASSUME CcInv, NEW t \in CcTunnels, NEW r \in TunnelRecords,
         ccTunnels[t].state # "open",
         r.state \in {"accepting", "open", "closing"} => r.gate \in Gateways /\ r.cloud \in Clouds,
         ccTunnels' = [ccTunnels EXCEPT ![t] = r],
         UNCHANGED ccPeers
  PROVE  CcInv'
<1>1. CcTypes'
  BY DEF CcInv, CcTypes
<1>2. \A u \in CcTunnels : ccTunnels'[u] = IF u = t THEN r ELSE ccTunnels[u]
  BY DEF CcInv, CcTypes
<1>3. HandshakesAreComplete'
  BY <1>2 DEF CcInv, HandshakesAreComplete
<1>4. EntriesAreOpen'
  <2> SUFFICES ASSUME NEW g \in Gateways, NEW c \in Clouds, NEW u \in CcTunnels,
                      ccPeers'[g][c] = << "tunnel", u >>
               PROVE  ccTunnels'[u].state = "open" /\ ccTunnels'[u].gate = g /\ ccTunnels'[u].cloud = c
    BY DEF EntriesAreOpen
  <2>1. ccTunnels[u].state = "open" /\ ccTunnels[u].gate = g /\ ccTunnels[u].cloud = c
    BY DEF CcInv, EntriesAreOpen
  <2>2. u # t
    BY <2>1
  <2> QED BY <2>1, <2>2, <1>2
<1> QED BY <1>1, <1>3, <1>4 DEF CcInv

\* A place of a table gets an entry that names no tunnel.
LEMMA EntryWithoutTunnel ==
  ASSUME CcInv, ccTunnels' = ccTunnels,
         ccPeers' \in [Gateways -> [Clouds -> PeerEntries]],
         \A g \in Gateways, c \in Clouds, t \in CcTunnels :
           ccPeers'[g][c] = << "tunnel", t >> => ccPeers[g][c] = << "tunnel", t >>
  PROVE  CcInv'
<1>1. CcTypes' /\ HandshakesAreComplete'
  BY DEF CcInv, CcTypes, HandshakesAreComplete
<1>2. EntriesAreOpen'
  BY DEF CcInv, EntriesAreOpen
<1> QED BY <1>1, <1>2 DEF CcInv

LEMMA CcStepKeeps ==
  ASSUME CcInv, CcNext
  PROVE  CcInv'
<1>0. /\ ccTunnels \in [CcTunnels -> TunnelRecords]
      /\ ccPeers \in [Gateways -> [Clouds -> PeerEntries]]
      /\ \A t : << "tunnel", t >> # << >>
      /\ << >> \in PeerEntries
  BY DEF CcInv, CcTypes, PeerEntries
<1>1. ASSUME NEW g \in Gateways, NEW t \in CcTunnels, NEW cert \in Certs, HandshakeRefused(g, t, cert)
      PROVE  CcInv'
  <2>1. PICK r : r = [ccTunnels[t] EXCEPT !.state = "closed"]
    OBVIOUS
  <2>2. r \in TunnelRecords /\ r.state = "closed"
    BY <2>1, <1>0 DEF TunnelRecords
  <2>3. ccTunnels' = [ccTunnels EXCEPT ![t] = r]
    BY <1>1, <2>1 DEF HandshakeRefused
  <2> QED BY <1>1, <2>2, <2>3, UnlistedTunnel DEF HandshakeRefused
<1>2. ASSUME NEW g \in Gateways, NEW t \in CcTunnels, NEW cert \in Certs, NEW c \in Clouds,
             HandshakeAccepted(g, t, c, cert)
      PROVE  CcInv'
  <2>1. PICK r : r = [state |-> "accepting", gate |-> g, cloud |-> c, cert |-> cert]
    OBVIOUS
  <2>2. r \in TunnelRecords /\ r.gate = g /\ r.cloud = c
    BY <2>1 DEF TunnelRecords
  <2>3. ccTunnels' = [ccTunnels EXCEPT ![t] = r]
    BY <1>2, <2>1 DEF HandshakeAccepted
  <2> QED BY <1>2, <2>2, <2>3, UnlistedTunnel DEF HandshakeAccepted
<1>3. ASSUME NEW t \in CcTunnels, TunnelOpens(t)
      PROVE  CcInv'
  <2>1. PICK r : r = [ccTunnels[t] EXCEPT !.state = "open"]
    OBVIOUS
  <2>2. /\ r \in TunnelRecords /\ r.state = "open" /\ r.gate = ccTunnels[t].gate
        /\ r.cloud = ccTunnels[t].cloud
    BY <2>1, <1>0 DEF TunnelRecords
  <2>3. /\ ccTunnels' = [ccTunnels EXCEPT ![t] = r] /\ ccTunnels[t].state = "accepting"
        /\ ccPeers' = [ccPeers EXCEPT ![ccTunnels[t].gate][ccTunnels[t].cloud] = << "tunnel", t >>]
    BY <1>3, <2>1 DEF TunnelOpens
  <2>4. ccTunnels[t].gate \in Gateways /\ ccTunnels[t].cloud \in Clouds
    BY <2>3 DEF CcInv, HandshakesAreComplete
  <2>5. << "tunnel", t >> \in PeerEntries
    BY DEF PeerEntries
  <2>6. /\ ccPeers' \in [Gateways -> [Clouds -> PeerEntries]]
        /\ \A h \in Gateways, c \in Clouds :
             ccPeers'[h][c] = IF h = ccTunnels[t].gate /\ c = ccTunnels[t].cloud
                              THEN << "tunnel", t >> ELSE ccPeers[h][c]
    BY <2>3, <2>4, <2>5, <1>0, PlaceChanged
  <2>7. \A u \in CcTunnels : ccTunnels'[u] = IF u = t THEN r ELSE ccTunnels[u]
    BY <2>3, <1>0
  <2>8. CcTypes'
    BY <2>2, <2>3, <2>6, <1>0 DEF CcTypes
  <2>9. HandshakesAreComplete'
    BY <2>2, <2>4, <2>7 DEF CcInv, HandshakesAreComplete
  <2>10. EntriesAreOpen'
    <3> SUFFICES ASSUME NEW h \in Gateways, NEW c \in Clouds, NEW u \in CcTunnels,
                        ccPeers'[h][c] = << "tunnel", u >>
                 PROVE  ccTunnels'[u].state = "open" /\ ccTunnels'[u].gate = h /\ ccTunnels'[u].cloud = c
      BY DEF EntriesAreOpen
    <3>1. CASE h = ccTunnels[t].gate /\ c = ccTunnels[t].cloud
      <4>1. << "tunnel", u >> = << "tunnel", t >>
        BY <2>6, <3>1
      <4>2. u = t
        BY <4>1
      <4> QED BY <4>2, <3>1, <2>2, <2>7
    <3>2. CASE ~(h = ccTunnels[t].gate /\ c = ccTunnels[t].cloud)
      <4>1. ccTunnels[u].state = "open" /\ ccTunnels[u].gate = h /\ ccTunnels[u].cloud = c
        BY <2>6, <3>2 DEF CcInv, EntriesAreOpen
      <4>2. u # t
        BY <4>1, <2>3
      <4> QED BY <4>1, <4>2, <2>7
    <3> QED BY <3>1, <3>2
  <2> QED BY <2>3, <2>8, <2>9, <2>10 DEF CcInv
<1>4. ASSUME NEW t \in CcTunnels, AcceptFails(t)
      PROVE  CcInv'
  <2>1. PICK r : r = [ccTunnels[t] EXCEPT !.state = "closed"]
    OBVIOUS
  <2>2. r \in TunnelRecords /\ r.state = "closed"
    BY <2>1, <1>0 DEF TunnelRecords
  <2>3. ccTunnels' = [ccTunnels EXCEPT ![t] = r]
    BY <1>4, <2>1 DEF AcceptFails
  <2> QED BY <1>4, <2>2, <2>3, UnlistedTunnel DEF AcceptFails
<1>5. ASSUME NEW t \in CcTunnels, NEW g \in Gateways, NEW c \in Clouds,
             NEW state \in {"closing", "closed"},
             ccTunnels[t].gate = g, ccTunnels[t].cloud = c,
             ccTunnels' = [ccTunnels EXCEPT ![t].state = state],
             ccPeers' = [ccPeers EXCEPT ![g][c] = << >>]
      PROVE  CcInv'
  <2>1. PICK r : r = [ccTunnels[t] EXCEPT !.state = state]
    OBVIOUS
  <2>2. r \in TunnelRecords /\ r.gate = g /\ r.cloud = c
    BY <1>5, <2>1, <1>0 DEF TunnelRecords
  <2>3. ccTunnels' = [ccTunnels EXCEPT ![t] = r]
    BY <1>5, <2>1
  <2>4. /\ ccPeers' \in [Gateways -> [Clouds -> PeerEntries]]
        /\ \A h \in Gateways, d \in Clouds :
             ccPeers'[h][d] = IF h = g /\ d = c THEN << >> ELSE ccPeers[h][d]
    BY <1>5, <1>0, PlaceChanged
  <2>5. \A u \in CcTunnels : ccTunnels'[u] = IF u = t THEN r ELSE ccTunnels[u]
    BY <2>3, <1>0
  <2>6. CcTypes'
    BY <2>2, <2>3, <2>4, <1>0 DEF CcTypes
  <2>7. HandshakesAreComplete'
    BY <2>2, <2>5 DEF CcInv, HandshakesAreComplete
  <2>8. EntriesAreOpen'
    <3> SUFFICES ASSUME NEW h \in Gateways, NEW d \in Clouds, NEW u \in CcTunnels,
                        ccPeers'[h][d] = << "tunnel", u >>
                 PROVE  ccTunnels'[u].state = "open" /\ ccTunnels'[u].gate = h /\ ccTunnels'[u].cloud = d
      BY DEF EntriesAreOpen
    <3>1. ~(h = g /\ d = c) /\ ccPeers[h][d] = << "tunnel", u >>
      BY <2>4, <1>0
    <3>2. ccTunnels[u].state = "open" /\ ccTunnels[u].gate = h /\ ccTunnels[u].cloud = d
      BY <3>1 DEF CcInv, EntriesAreOpen
    <3>3. u # t
      BY <3>1, <3>2, <1>5
    <3> QED BY <3>2, <3>3, <2>5
  <2> QED BY <1>5, <2>6, <2>7, <2>8 DEF CcInv
<1>6. ASSUME NEW t \in CcTunnels, TunnelEnds(t)
      PROVE  CcInv'
  <2>1. ccTunnels[t].gate \in Gateways /\ ccTunnels[t].cloud \in Clouds
    BY <1>6 DEF TunnelEnds, CcInv, HandshakesAreComplete
  <2> QED BY <1>5, <1>6, <2>1 DEF TunnelEnds, EndedPeers
<1>7. ASSUME NEW g \in Gateways, NEW cert \in Certs, NEW stored \in BOOLEAN,
             RevokeCert(g, cert, stored)
      PROVE  CcInv'
  <2>1. /\ ccPeers' = [ccPeers EXCEPT ![g] =
                         [c \in Clouds |-> IF c \in Associated(g, cert) THEN << >> ELSE @[c]]]
        /\ ccTunnels' = ccTunnels
    BY <1>7 DEF RevokeCert
  <2>3. PICK row : row = [c \in Clouds |-> IF c \in Associated(g, cert) THEN << >> ELSE ccPeers[g][c]]
    OBVIOUS
  <2>4. row \in [Clouds -> PeerEntries] /\ ccPeers' = [ccPeers EXCEPT ![g] = row]
        /\ \A c \in Clouds : row[c] = << >> \/ row[c] = ccPeers[g][c]
    BY <2>1, <2>3, <1>0
  <2>5. ccPeers' \in [Gateways -> [Clouds -> PeerEntries]]
    BY <2>4, <1>0
  <2>6. \A h \in Gateways, c \in Clouds : ccPeers'[h][c] = << >> \/ ccPeers'[h][c] = ccPeers[h][c]
    BY <2>4, <1>0
  <2> QED BY <2>1, <2>5, <2>6, <1>0, EntryWithoutTunnel
<1>8. ASSUME NEW g \in Gateways, NEW cert \in Certs, NEW stored \in BOOLEAN,
             Reinstate(g, cert, stored)
      PROVE  CcInv'
  <2>1. UNCHANGED << ccTunnels, ccPeers >>
    BY <1>8 DEF Reinstate
  <2> QED BY <2>1 DEF CcInv, CcTypes, HandshakesAreComplete, EntriesAreOpen
<1>9. ASSUME NEW g \in Gateways, NEW cert \in Certs, NEW c \in Clouds, DiscoverPeer(g, c, cert)
      PROVE  CcInv'
  <2>1. << "seed", cert >> \in PeerEntries /\ \A t : << "tunnel", t >> # << "seed", cert >>
    BY DEF PeerEntries
  <2>2. /\ ccPeers' \in [Gateways -> [Clouds -> PeerEntries]]
        /\ \A h \in Gateways, d \in Clouds :
             ccPeers'[h][d] = IF h = g /\ d = c THEN << "seed", cert >> ELSE ccPeers[h][d]
    BY <1>9, <2>1, <1>0, PlaceChanged DEF DiscoverPeer
  <2>3. \A h \in Gateways, d \in Clouds, t \in CcTunnels :
          ccPeers'[h][d] = << "tunnel", t >> => ccPeers[h][d] = << "tunnel", t >>
    BY <2>1, <2>2
  <2> QED BY <1>9, <2>2, <2>3, EntryWithoutTunnel DEF DiscoverPeer, CcInv
<1>10. ASSUME NEW g \in Gateways, NEW c \in Clouds, RevokeCloud(g, c)
       PROVE  CcInv'
  <2>1. /\ ccPeers[g][c] # << >> /\ ccPeers' = [ccPeers EXCEPT ![g][c] = << >>]
    BY <1>10 DEF RevokeCloud
  <2>2. CASE ccPeers[g][c][1] = "tunnel"
    <3>1. PICK t \in CcTunnels : ccPeers[g][c] = << "tunnel", t >>
      BY <2>1, <2>2, <1>0 DEF PeerEntries
    <3>2. ccTunnels[t].gate = g /\ ccTunnels[t].cloud = c
      BY <3>1 DEF CcInv, EntriesAreOpen
    <3>3. ccTunnels' = [ccTunnels EXCEPT ![t].state = "closing"]
      BY <1>10, <2>2, <3>1 DEF RevokeCloud
    <3> QED BY <2>1, <3>2, <3>3, <1>5
  <2>3. CASE ccPeers[g][c][1] # "tunnel"
    <3>1. ccTunnels' = ccTunnels
      BY <1>10, <2>3 DEF RevokeCloud
    <3>2. /\ ccPeers' \in [Gateways -> [Clouds -> PeerEntries]]
          /\ \A h \in Gateways, d \in Clouds :
               ccPeers'[h][d] = IF h = g /\ d = c THEN << >> ELSE ccPeers[h][d]
      BY <2>1, <1>0, PlaceChanged
    <3> QED BY <2>1, <3>1, <3>2, <1>0, EntryWithoutTunnel DEF CcInv
  <2> QED BY <2>2, <2>3
<1>11. ASSUME NEW g \in Gateways, RotateOwn(g) \/ GraceEnds(g)
       PROVE  CcInv'
  BY <1>11 DEF RotateOwn, GraceEnds, CcInv, CcTypes,
               HandshakesAreComplete, EntriesAreOpen
<1>12. ASSUME NEW g \in Gateways, CcRestart(g)
       PROVE  CcInv'
  <2>1. /\ ccPeers' = [ccPeers EXCEPT ![g] = [c \in Clouds |-> << >>]]
        /\ ccTunnels' = [t \in CcTunnels |->
             IF ccTunnels[t].gate = g THEN [ccTunnels[t] EXCEPT !.state = "closed"] ELSE ccTunnels[t]]
    BY <1>12 DEF CcRestart
  <2>2. \A r \in TunnelRecords : /\ [r EXCEPT !.state = "closed"] \in TunnelRecords
                                 /\ [r EXCEPT !.state = "closed"].state = "closed"
    BY DEF TunnelRecords
  <2>3. /\ ccTunnels' \in [CcTunnels -> TunnelRecords]
        /\ \A t \in CcTunnels : IF ccTunnels[t].gate = g THEN ccTunnels'[t].state = "closed"
                                ELSE ccTunnels'[t] = ccTunnels[t]
    BY <2>1, <2>2, <1>0
  <2>4. /\ ccPeers' \in [Gateways -> [Clouds -> PeerEntries]]
        /\ \A h \in Gateways, c \in Clouds : ccPeers'[h][c] = IF h = g THEN << >> ELSE ccPeers[h][c]
    BY <2>1, <1>0
  <2>5. CcTypes'
    BY <2>3, <2>4 DEF CcTypes
  <2>6. HandshakesAreComplete'
    BY <2>3 DEF CcInv, HandshakesAreComplete
  <2>7. EntriesAreOpen'
    <3> SUFFICES ASSUME NEW h \in Gateways, NEW c \in Clouds, NEW t \in CcTunnels,
                        ccPeers'[h][c] = << "tunnel", t >>
                 PROVE  ccTunnels'[t].state = "open" /\ ccTunnels'[t].gate = h /\ ccTunnels'[t].cloud = c
      BY DEF EntriesAreOpen
    <3>1. h # g /\ ccPeers[h][c] = << "tunnel", t >>
      BY <2>4, <1>0
    <3>2. ccTunnels[t].state = "open" /\ ccTunnels[t].gate = h /\ ccTunnels[t].cloud = c
      BY <3>1 DEF CcInv, EntriesAreOpen
    <3> QED BY <3>1, <3>2, <2>3
  <2> QED BY <2>1, <2>5, <2>6, <2>7 DEF CcInv
<1> QED
  BY <1>1, <1>2, <1>3, <1>4, <1>6, <1>7, <1>8, <1>9, <1>10, <1>11, <1>12 DEF CcNext

LEMMA CcOnly ==
  ASSUME CcInv, [Next]_netVars
  PROVE  CcInv' /\ [CcNext]_ccVars
<1>1. CcNext \/ UNCHANGED ccVars
  BY DEF netVars, Next, MeshStep, RegionStep, RouterStep, TopologyStep, CloudStep, SessionStep,
         DashboardStep, CrewStep, OverlayStep
<1> QED BY <1>1, CcStepKeeps, CcStays

LEMMA RoutesAreOpen ==
  ASSUME CcInv
  PROVE  RoutesLeadToOpenTunnels
<1> SUFFICES ASSUME NEW g \in Gateways, NEW c \in Clouds,
                    ccPeers[g][c] # << >>, ccPeers[g][c][1] = "tunnel"
             PROVE  ccTunnels[ccPeers[g][c][2]].state = "open"
  BY DEF RoutesLeadToOpenTunnels
<1>1. ccPeers[g][c] \in PeerEntries
  BY DEF CcInv, CcTypes
<1>2. PICK t \in CcTunnels : ccPeers[g][c] = << "tunnel", t >>
  BY <1>1 DEF PeerEntries
<1> QED BY <1>2 DEF CcInv, EntriesAreOpen

-----------------------------------------------------------------------------
(* The overlay: the addresses each node was ever given.                     *)

Endpoints == [vip : Nat, symmetric : BOOLEAN]
Sessions == [local : Nat, remote : Nat, relayed : BOOLEAN]
Handshakes == [pair : NodePairs, session : Sessions]

OvTypes ==
    /\ ovEndpoints \in [OvNodes -> Endpoints]
    /\ ovNextVip \in Nat
    /\ ovSessions \in [NodePairs -> Sessions]
    /\ ovHandshakes \subseteq Handshakes
    /\ ovSent \subseteq OvNodes \X Nat

\* Node n has address v somewhere: registered, once sent to, in a session or
\* in a handshake on its way.
EndpointHas(n, v) == ovEndpoints[n] # NoEndpoint /\ v = ovEndpoints[n].vip
InSession(n, v) ==
    \E p \in NodePairs : /\ ovSessions[p] # NoSession
                         /\ \/ n = p[1] /\ v = ovSessions[p].local
                            \/ n = p[2] /\ v = ovSessions[p].remote
OnItsWay(n, v) ==
    \E h \in ovHandshakes : \/ n = h.pair[1] /\ v = h.session.local
                            \/ n = h.pair[2] /\ v = h.session.remote
Holds(n, v) == EndpointHas(n, v) \/ <<n, v>> \in ovSent \/ InSession(n, v) \/ OnItsWay(n, v)

OvInv ==
    /\ OvTypes
    /\ \A n, m \in OvNodes, v \in Nat : Holds(n, v) /\ Holds(m, v) => n = m
    /\ \A n \in OvNodes, v \in Nat : Holds(n, v) => v < ovNextVip

LEMMA OvStarts ==
  ASSUME OverlayInit
  PROVE  OvInv
<1>1. OvTypes
  BY DEF OverlayInit, OvTypes, NoEndpoint, NoSession, Endpoints, Sessions
<1>2. \A n \in OvNodes, v \in Nat : ~Holds(n, v)
  BY DEF OverlayInit, Holds, EndpointHas, InSession, OnItsWay
<1> QED BY <1>1, <1>2 DEF OvInv

LEMMA OvStays ==
  ASSUME OvInv, UNCHANGED ovVars
  PROVE  OvInv'
BY DEF ovVars, OvInv, OvTypes, Holds, EndpointHas, InSession, OnItsWay

\* What is held afterwards was held before, and no address was given out.
LEMMA OvHolds ==
  ASSUME OvInv, OvTypes', ovNextVip' = ovNextVip,
         \A n \in OvNodes, v \in Nat : Holds(n, v)' => Holds(n, v)
  PROVE  OvInv'
BY DEF OvInv

LEMMA OverlayStepKeeps ==
  ASSUME OvInv, OverlayNext
  PROVE  OvInv'
<1>0. OvTypes /\ \A p \in NodePairs : p[1] \in OvNodes /\ p[2] \in OvNodes
  BY DEF OvInv, NodePairs
<1>1. ASSUME NEW n \in OvNodes, NEW s \in BOOLEAN, RegisterEndpoint(n, s)
      PROVE  OvInv'
  <2>1. PICK e : e = [vip |-> ovNextVip, symmetric |-> s]
    OBVIOUS
  <2>2. e \in Endpoints /\ e.vip = ovNextVip
    BY <2>1, <1>0 DEF Endpoints, OvTypes
  <2>3. /\ ovEndpoints' = [ovEndpoints EXCEPT ![n] = e] /\ ovNextVip' = ovNextVip + 1
        /\ UNCHANGED <<ovSessions, ovHandshakes, ovSent>>
    BY <1>1, <2>1 DEF RegisterEndpoint, NextVip
  <2>4. OvTypes'
    BY <2>2, <2>3, <1>0 DEF OvTypes
  <2>5. \A m \in OvNodes, v \in Nat : EndpointHas(m, v)' => EndpointHas(m, v) \/ (m = n /\ v = ovNextVip)
    BY <2>2, <2>3, <1>0 DEF EndpointHas, OvTypes
  <2>6. \A m \in OvNodes, v \in Nat : Holds(m, v)' => Holds(m, v) \/ (m = n /\ v = ovNextVip)
    BY <2>3, <2>5 DEF Holds, InSession, OnItsWay
  <2>7. ovNextVip \in Nat /\ ovNextVip' = ovNextVip + 1
    BY <2>3, <1>0 DEF OvTypes
  <2>8. \A m \in OvNodes, v \in Nat : Holds(m, v) => v < ovNextVip
    BY DEF OvInv
  <2>9. \A m \in OvNodes, v \in Nat : Holds(m, v)' => v < ovNextVip'
    BY <2>6, <2>7, <2>8
  <2>10. \A m, k \in OvNodes, v \in Nat : Holds(m, v)' /\ Holds(k, v)' => m = k
    BY <2>6, <2>7, <2>8 DEF OvInv
  <2> QED BY <2>4, <2>9, <2>10 DEF OvInv
<1>2. ASSUME NEW n \in OvNodes, UnregisterEndpoint(n)
      PROVE  OvInv'
  <2>1. OvTypes'
    BY <1>2, <1>0 DEF UnregisterEndpoint, OvTypes, NoEndpoint, NoSession, Endpoints, Sessions
  <2>2. \A m \in OvNodes, v \in Nat : /\ EndpointHas(m, v)' => EndpointHas(m, v)
                                      /\ InSession(m, v)' => InSession(m, v)
    BY <1>2, <1>0 DEF UnregisterEndpoint, EndpointHas, InSession, OvTypes
  <2>3. \A m \in OvNodes, v \in Nat : Holds(m, v)' => Holds(m, v)
    BY <1>2, <2>2 DEF UnregisterEndpoint, Holds, OnItsWay
  <2> QED BY <1>2, <2>1, <2>3, OvHolds DEF UnregisterEndpoint
<1>3. ASSUME NEW p \in NodePairs, BeginHandshake(p)
      PROVE  OvInv'
  <2>1. PICK h : h = [pair |-> p, session |-> [local |-> ovEndpoints[p[1]].vip,
                        remote |-> ovEndpoints[p[2]].vip,
                        relayed |-> ovEndpoints[p[1]].symmetric \/ ovEndpoints[p[2]].symmetric]]
    OBVIOUS
  <2>2. h \in Handshakes /\ h.pair = p /\ h.session.local = ovEndpoints[p[1]].vip
        /\ h.session.remote = ovEndpoints[p[2]].vip
    BY <2>1, <1>0 DEF Handshakes, Sessions, OvTypes, Endpoints
  <2>3. /\ ovHandshakes' = ovHandshakes \cup {h} /\ p[1] \in OnOverlay /\ p[2] \in OnOverlay
        /\ UNCHANGED <<ovEndpoints, ovNextVip, ovSessions, ovSent>>
    BY <1>3, <2>1 DEF BeginHandshake
  <2>4. OvTypes'
    BY <2>2, <2>3, <1>0 DEF OvTypes
  <2>5. \A m \in OvNodes, v \in Nat : OnItsWay(m, v)' => OnItsWay(m, v) \/ EndpointHas(m, v)
    BY <2>2, <2>3 DEF OnItsWay, EndpointHas, OnOverlay
  <2>6. \A m \in OvNodes, v \in Nat : Holds(m, v)' => Holds(m, v)
    BY <2>3, <2>5 DEF Holds, EndpointHas, InSession
  <2> QED BY <2>3, <2>4, <2>6, OvHolds
<1>4. ASSUME NEW h \in ovHandshakes, HandshakeInTime(h)
      PROVE  OvInv'
  <2>1. h.pair \in NodePairs /\ h.session \in Sessions
    BY <1>0 DEF OvTypes, Handshakes
  <2>2. /\ ovHandshakes' = ovHandshakes \ {h} /\ ovSessions' = [ovSessions EXCEPT ![h.pair] = h.session]
        /\ UNCHANGED <<ovEndpoints, ovNextVip, ovSent>>
    BY <1>4 DEF HandshakeInTime
  <2>3. OvTypes'
    BY <2>1, <2>2, <1>0 DEF OvTypes
  <2>4. \A q \in NodePairs : ovSessions'[q] = IF q = h.pair THEN h.session ELSE ovSessions[q]
    BY <2>2, <1>0 DEF OvTypes
  <2>5. \A m \in OvNodes, v \in Nat : /\ InSession(m, v)' => InSession(m, v) \/ OnItsWay(m, v)
                                      /\ OnItsWay(m, v)' => OnItsWay(m, v)
    BY <2>2, <2>4 DEF InSession, OnItsWay
  <2>6. \A m \in OvNodes, v \in Nat : Holds(m, v)' => Holds(m, v)
    BY <2>2, <2>5 DEF Holds, EndpointHas
  <2> QED BY <2>2, <2>3, <2>6, OvHolds
<1>5. ASSUME NEW h \in ovHandshakes, HandshakeTooLate(h)
      PROVE  OvInv'
  <2>1. OvTypes'
    BY <1>5, <1>0 DEF HandshakeTooLate, OvTypes
  <2>2. \A m \in OvNodes, v \in Nat : Holds(m, v)' => Holds(m, v)
    BY <1>5 DEF HandshakeTooLate, Holds, EndpointHas, InSession, OnItsWay
  <2> QED BY <1>5, <2>1, <2>2, OvHolds DEF HandshakeTooLate
<1>6. ASSUME NEW p \in NodePairs, TransmitPacket(p)
      PROVE  OvInv'
  <2>1. /\ ovSessions[p] # NoSession /\ ovSent' = ovSent \cup {<<p[2], ovSessions[p].remote>>}
        /\ UNCHANGED <<ovEndpoints, ovNextVip, ovSessions, ovHandshakes>>
    BY <1>6 DEF TransmitPacket
  <2>2. OvTypes'
    BY <2>1, <1>0 DEF OvTypes, Sessions
  <2>3. \A m \in OvNodes, v \in Nat : <<m, v>> \in ovSent' => <<m, v>> \in ovSent \/ InSession(m, v)
    BY <2>1 DEF InSession
  <2>4. \A m \in OvNodes, v \in Nat : Holds(m, v)' => Holds(m, v)
    BY <2>1, <2>3 DEF Holds, EndpointHas, InSession, OnItsWay
  <2> QED BY <2>1, <2>2, <2>4, OvHolds
<1> QED BY <1>1, <1>2, <1>3, <1>4, <1>5, <1>6 DEF OverlayNext

LEMMA AddressesAreOwned ==
  ASSUME OvInv
  PROVE  AddressesAreNeverShared
<1> DEFINE H == {<<n, ovEndpoints[n].vip>> : n \in OnOverlay} \cup ovSent
                \cup UNION {{<<p[1], ovSessions[p].local>>, <<p[2], ovSessions[p].remote>>}
                              : p \in {q \in NodePairs : ovSessions[q] # NoSession}}
<1>1. \A a \in H : \E n \in OvNodes, v \in Nat : a = <<n, v>> /\ Holds(n, v)
  <2> SUFFICES ASSUME NEW a \in H PROVE \E n \in OvNodes, v \in Nat : a = <<n, v>> /\ Holds(n, v)
    OBVIOUS
  <2>1. CASE \E n \in OnOverlay : a = <<n, ovEndpoints[n].vip>>
    BY <2>1 DEF OnOverlay, Holds, EndpointHas, OvInv, OvTypes, Endpoints
  <2>2. CASE a \in ovSent
    <3>1. PICK n \in OvNodes, v \in Nat : a = <<n, v>>
      BY <2>2 DEF OvInv, OvTypes
    <3> QED BY <2>2, <3>1 DEF Holds
  <2>3. CASE \E p \in NodePairs : ovSessions[p] # NoSession
                 /\ (a = <<p[1], ovSessions[p].local>> \/ a = <<p[2], ovSessions[p].remote>>)
    <3>1. PICK p \in NodePairs : ovSessions[p] # NoSession
                 /\ (a = <<p[1], ovSessions[p].local>> \/ a = <<p[2], ovSessions[p].remote>>)
      BY <2>3
    <3>2. /\ p[1] \in OvNodes /\ p[2] \in OvNodes
          /\ ovSessions[p].local \in Nat /\ ovSessions[p].remote \in Nat
      BY DEF NodePairs, OvInv, OvTypes, Sessions
    <3>3. Holds(p[1], ovSessions[p].local) /\ Holds(p[2], ovSessions[p].remote)
      BY <3>1 DEF Holds, InSession
    <3> QED BY <3>1, <3>2, <3>3
  <2> QED BY <2>1, <2>2, <2>3
<1> HIDE DEF H
<1>2. \A a, b \in H : a[2] = b[2] => a[1] = b[1]
  BY <1>1 DEF OvInv
<1> QED BY <1>2 DEF AddressesAreNeverShared, H

-----------------------------------------------------------------------------
(* Peer to peer: the tunnel of an entry joins the router and that peer, and  *)
(* the router listens on it.                                                 *)

PeerRecords == [status : {"connected", "disconnected"}, ws : {0} \cup Tunnels]
P2PTunnels == [client : Routers, server : Routers, open : BOOLEAN, listening : SUBSET Routers]
Dispatched == [by : Routers, on : {0} \cup Tunnels, state : {"waits", "failed", "completed", "error"}]
P2PMessages == [type : {"ping", "pong"}, known : SUBSET Routers]
               \cup [type : {"task"}, task : P2PTasks]
               \cup [type : {"answer"}, task : P2PTasks, status : {"completed", "error"}]
Wires == [Tunnels \X Routers -> Seq(P2PMessages)]

P2PTypes ==
    /\ known \in [Routers -> [Routers -> PeerRecords \cup {<< >>}]]
    /\ tunnels \in [Tunnels -> P2PTunnels \cup {<< >>}]
    /\ wire \in Wires
    /\ waiting \in [Routers -> SUBSET P2PTasks]
    /\ dispatches \in [P2PTasks -> Dispatched \cup {<< >>}]

Joins(t, n, p) == \/ tunnels[t].client = n /\ tunnels[t].server = p
                  \/ tunnels[t].client = p /\ tunnels[t].server = n
Leads(n, p, t) == t # 0 => tunnels[t] # << >> /\ n \in tunnels[t].listening /\ Joins(t, n, p)
EntriesLead ==
    \A n, p \in Routers : IF n = p THEN known[n][p] = << >>
                          ELSE known[n][p] # << >> /\ Leads(n, p, known[n][p].ws)
TunnelsHaveTwoEnds ==
    \A t \in Tunnels : tunnels[t] # << >> => tunnels[t].client # tunnels[t].server

P2PInv == P2PTypes /\ EntriesLead /\ TunnelsHaveTwoEnds /\ PendingAreWaiting

LEMMA NoneIsNoRecord ==
  << >> \notin PeerRecords /\ << >> \notin P2PTunnels /\ << >> \notin Dispatched
BY DEF PeerRecords, P2PTunnels, Dispatched

LEMMA TunnelNumbers == Tunnels \subseteq Nat \ {0} /\ P2PTasks \subseteq Nat
BY P2PAssumption DEF Tunnels, P2PTasks

LEMMA P2PStarts ==
  ASSUME P2PInit
  PROVE  P2PInv
<1> DEFINE none == [status |-> "disconnected", ws |-> 0]
<1>1. none \in PeerRecords /\ none.ws = 0
  BY DEF PeerRecords
<1>2. none # << >>
  BY <1>1, NoneIsNoRecord
<1> HIDE DEF none
<1>3. known = [n \in Routers |-> [p \in Routers |-> IF p = n THEN << >> ELSE none]]
  BY DEF P2PInit, none
<1>4. known \in [Routers -> [Routers -> PeerRecords \cup {<< >>}]]
  BY <1>1, <1>3
<1>5. wire \in Wires
  BY DEF P2PInit, Wires
<1>6. P2PTypes
  BY <1>4, <1>5 DEF P2PTypes, P2PInit
<1>7. EntriesLead
  BY <1>1, <1>2, <1>3 DEF EntriesLead, Leads
<1>8. TunnelsHaveTwoEnds /\ PendingAreWaiting
  BY DEF P2PInit, TunnelsHaveTwoEnds, PendingAreWaiting
<1> QED BY <1>6, <1>7, <1>8 DEF P2PInv

LEMMA P2PStays ==
  ASSUME P2PInv, UNCHANGED p2pVars
  PROVE  P2PInv'
BY DEF p2pVars, P2PInv, P2PTypes, EntriesLead, Leads, Joins, TunnelsHaveTwoEnds, PendingAreWaiting

\* The wire after a message was taken, and after one was put on it.
LEMMA Taken ==
  ASSUME P2PInv, NEW t \in Tunnels, NEW n \in Routers, wire[<<t, n>>] # << >>
  PROVE  Take(t, n) \in Wires /\ Head(wire[<<t, n>>]) \in P2PMessages
<1>1. wire \in Wires /\ <<t, n>> \in Tunnels \X Routers
  BY DEF P2PInv, P2PTypes
<1>2. wire[<<t, n>>] \in Seq(P2PMessages)
  BY <1>1 DEF Wires
<1>3. Tail(wire[<<t, n>>]) \in Seq(P2PMessages) /\ Head(wire[<<t, n>>]) \in P2PMessages
  BY <1>2, HeadTailProperties
<1> QED BY <1>1, <1>3 DEF Take, Wires

LEMMA Sent ==
  ASSUME NEW w \in Wires, NEW t \in Tunnels, NEW n \in Routers, NEW m \in P2PMessages
  PROVE  [w EXCEPT ![<<t, n>>] = Append(@, m)] \in Wires
<1>1. <<t, n>> \in Tunnels \X Routers /\ w[<<t, n>>] \in Seq(P2PMessages)
  BY DEF Wires
<1>2. Append(w[<<t, n>>], m) \in Seq(P2PMessages)
  BY <1>1, AppendProperties
<1> QED BY <1>1, <1>2 DEF Wires

\* The other end of a tunnel.
LEMMA OtherEnd ==
  ASSUME P2PInv, NEW t \in Tunnels, tunnels[t] # << >>,
         NEW n \in {tunnels[t].client, tunnels[t].server}
  PROVE  /\ n \in Routers /\ Other(t, n) \in Routers /\ Other(t, n) # n /\ Joins(t, n, Other(t, n))
         /\ \A p \in Routers : Joins(t, n, p) => p = Other(t, n)
<1>1. tunnels[t] \in P2PTunnels
  BY DEF P2PInv, P2PTypes
<1>2. tunnels[t].client \in Routers /\ tunnels[t].server \in Routers
  BY <1>1 DEF P2PTunnels
<1> QED BY <1>2 DEF P2PInv, TunnelsHaveTwoEnds, Other, Joins

\* add_peer with a tunnel, and with none.
LEMMA PeerAdded ==
  ASSUME NEW dir \in [Routers -> PeerRecords \cup {<< >>}], NEW p \in Routers, dir[p] # << >>,
         NEW st \in {"connected", "disconnected"}, NEW t \in {0} \cup Tunnels
  PROVE  /\ AddPeer(dir, p, st, t) \in [Routers -> PeerRecords \cup {<< >>}]
         /\ AddPeer(dir, p, st, t)[p] # << >>
         /\ AddPeer(dir, p, st, t)[p].ws = IF t # 0 THEN t ELSE dir[p].ws
         /\ \A q \in Routers : q # p => AddPeer(dir, p, st, t)[q] = dir[q]
<1>1. PICK e : e = [status |-> st, ws |-> IF t # 0 THEN t ELSE dir[p].ws]
  OBVIOUS
<1>2. dir[p] \in PeerRecords
  OBVIOUS
<1>3. dir[p].ws \in {0} \cup Tunnels
  BY <1>2 DEF PeerRecords
<1>4. e \in PeerRecords /\ e.ws = IF t # 0 THEN t ELSE dir[p].ws
  BY <1>1, <1>3 DEF PeerRecords
<1>5. AddPeer(dir, p, st, t) = [dir EXCEPT ![p] = e]
  BY <1>1 DEF AddPeer
<1> QED BY <1>4, <1>5, NoneIsNoRecord

\* Gossip gives a router no tunnel and takes none.
LEMMA Learnt ==
  ASSUME NEW dir \in [Routers -> PeerRecords \cup {<< >>}], NEW n \in Routers, NEW others,
         \A p \in Routers : p # n => dir[p] # << >>
  PROVE  /\ Learn(dir, n, others) \in [Routers -> PeerRecords \cup {<< >>}]
         /\ Learn(dir, n, others)[n] = dir[n]
         /\ \A p \in Routers : p # n => /\ Learn(dir, n, others)[p] # << >>
                                        /\ Learn(dir, n, others)[p].ws = dir[p].ws
<1>1. \A p \in Routers : p # n =>
        /\ AddPeer(dir, p, "disconnected", 0)[p] \in PeerRecords
        /\ AddPeer(dir, p, "disconnected", 0)[p] # << >>
        /\ AddPeer(dir, p, "disconnected", 0)[p].ws = dir[p].ws
  <2> SUFFICES ASSUME NEW p \in Routers, p # n
               PROVE  /\ AddPeer(dir, p, "disconnected", 0)[p] \in PeerRecords
                      /\ AddPeer(dir, p, "disconnected", 0)[p] # << >>
                      /\ AddPeer(dir, p, "disconnected", 0)[p].ws = dir[p].ws
    OBVIOUS
  <2> PICK d : d = AddPeer(dir, p, "disconnected", 0)
    OBVIOUS
  <2>1. d \in [Routers -> PeerRecords \cup {<< >>}] /\ d[p] # << >> /\ d[p].ws = dir[p].ws
    BY PeerAdded
  <2> QED BY <2>1
<1>2. \A p \in Routers :
        Learn(dir, n, others)[p] = IF p \in others \ {n} THEN AddPeer(dir, p, "disconnected", 0)[p] ELSE dir[p]
  BY DEF Learn
<1>3. Learn(dir, n, others) \in [Routers -> PeerRecords \cup {<< >>}]
  BY <1>1 DEF Learn
<1> QED BY <1>1, <1>2, <1>3

\* A step that touches neither the entries nor the tunnels.
LEMMA EntriesStay ==
  ASSUME EntriesLead, TunnelsHaveTwoEnds, UNCHANGED <<known, tunnels>>
  PROVE  EntriesLead' /\ TunnelsHaveTwoEnds'
BY DEF EntriesLead, Leads, Joins, TunnelsHaveTwoEnds

\* A step that changes the entries of one router, to tunnels it listens on.
LEMMA EntriesChange ==
  ASSUME P2PInv, NEW n \in Routers, NEW dir \in [Routers -> PeerRecords \cup {<< >>}],
         known' = [known EXCEPT ![n] = dir],
         dir[n] = << >>, \A p \in Routers : p # n => dir[p] # << >> /\ Leads(n, p, dir[p].ws)'
  PROVE  /\ known' \in [Routers -> [Routers -> PeerRecords \cup {<< >>}]]
         /\ (\A m, p \in Routers : m # n /\ m # p => Leads(m, p, known[m][p].ws)') => EntriesLead'
<1>1. known \in [Routers -> [Routers -> PeerRecords \cup {<< >>}]]
  BY DEF P2PInv, P2PTypes
<1>2. \A m \in Routers : known'[m] = IF m = n THEN dir ELSE known[m]
  BY <1>1
<1>3. \A m, p \in Routers : IF m = p THEN known[m][p] = << >> ELSE known[m][p] # << >>
  BY DEF P2PInv, EntriesLead
<1>4. known' \in [Routers -> [Routers -> PeerRecords \cup {<< >>}]]
  BY <1>1
<1>5. ASSUME \A m, p \in Routers : m # n /\ m # p => Leads(m, p, known[m][p].ws)'
      PROVE  EntriesLead'
  <2> SUFFICES ASSUME NEW m \in Routers, NEW p \in Routers
               PROVE  IF m = p THEN known'[m][p] = << >>
                      ELSE known'[m][p] # << >> /\ Leads(m, p, known[m][p].ws)'
    BY DEF EntriesLead
  <2>1. CASE m # n
    BY <2>1, <1>2, <1>3, <1>5
  <2>2. CASE m = n
    BY <2>2, <1>2
  <2> QED BY <2>1, <2>2
<1> QED BY <1>4, <1>5

\* A tunnel whose ends stay and whose listeners grow leads where it led.
LEMMA TunnelGrows ==
  ASSUME P2PInv, NEW t \in Tunnels, NEW r \in P2PTunnels, tunnels' = [tunnels EXCEPT ![t] = r],
         r.client # r.server,
         tunnels[t] = << >> \/ (/\ r.client = tunnels[t].client /\ r.server = tunnels[t].server
                                /\ tunnels[t].listening \subseteq r.listening)
  PROVE  /\ tunnels' \in [Tunnels -> P2PTunnels \cup {<< >>}] /\ TunnelsHaveTwoEnds'
         /\ tunnels'[t] = r
         /\ \A m, p \in Routers, u \in {0} \cup Tunnels : Leads(m, p, u) => Leads(m, p, u)'
<1>1. tunnels \in [Tunnels -> P2PTunnels \cup {<< >>}]
  BY DEF P2PInv, P2PTypes
<1>2. \A u \in Tunnels : tunnels'[u] = IF u = t THEN r ELSE tunnels[u]
  BY <1>1
<1>3. r # << >>
  BY NoneIsNoRecord
<1>4. tunnels' \in [Tunnels -> P2PTunnels \cup {<< >>}] /\ TunnelsHaveTwoEnds'
  BY <1>1, <1>2 DEF P2PInv, TunnelsHaveTwoEnds
<1>5. ASSUME NEW m \in Routers, NEW p \in Routers, NEW u \in {0} \cup Tunnels, Leads(m, p, u)
      PROVE  Leads(m, p, u)'
  <2>1. CASE u = 0
    BY <2>1 DEF Leads
  <2>2. CASE u = t
    BY <2>2, <1>2, <1>3, <1>5, TunnelNumbers DEF Leads, Joins
  <2>3. CASE u # t /\ u # 0
    BY <2>3, <1>2, <1>5 DEF Leads, Joins
  <2> QED BY <2>1, <2>2, <2>3
<1> QED BY <1>2, <1>4, <1>5

\* The entries of the routers a step does not touch.
LEMMA Led ==
  ASSUME P2PInv, NEW m \in Routers, NEW p \in Routers, m # p
  PROVE  /\ known[m] \in [Routers -> PeerRecords \cup {<< >>}] /\ known[m][m] = << >>
         /\ known[m][p] # << >> /\ known[m][p].ws \in {0} \cup Tunnels /\ Leads(m, p, known[m][p].ws)
<1>1. known[m] \in [Routers -> PeerRecords \cup {<< >>}]
  BY DEF P2PInv, P2PTypes
<1>2. known[m][m] = << >> /\ known[m][p] # << >> /\ Leads(m, p, known[m][p].ws)
  BY DEF P2PInv, EntriesLead
<1>3. known[m][p] \in PeerRecords
  BY <1>1, <1>2
<1> QED BY <1>1, <1>2, <1>3 DEF PeerRecords

\* Tasks are waited for as before when neither table changes.
LEMMA PendingStay ==
  ASSUME PendingAreWaiting, UNCHANGED <<waiting, dispatches>>
  PROVE  PendingAreWaiting'
BY DEF PendingAreWaiting

LEMMA P2PConnects ==
  ASSUME P2PInv, NEW n \in Routers, NEW p \in Routers, ConnectToPeer(n, p)
  PROVE  P2PInv'
<1>1. n # p
  BY DEF ConnectToPeer, P2PInv, EntriesLead
<1>2. PICK t \in Tunnels :
        /\ tunnels[t] = << >>
        /\ tunnels' = [tunnels EXCEPT ![t] = [client |-> n, server |-> p, open |-> TRUE, listening |-> {p}]]
        /\ known' = [known EXCEPT ![p] = AddPeer(known[p], n, "connected", t)]
  BY DEF ConnectToPeer, P2PInv, P2PTypes
<1>3. PICK r : r = [client |-> n, server |-> p, open |-> TRUE, listening |-> {p}]
  OBVIOUS
<1>4. r \in P2PTunnels /\ r.client = n /\ r.server = p /\ r.listening = {p}
  BY <1>3 DEF P2PTunnels
<1>5. /\ tunnels' \in [Tunnels -> P2PTunnels \cup {<< >>}] /\ TunnelsHaveTwoEnds' /\ tunnels'[t] = r
      /\ \A m, q \in Routers, u \in {0} \cup Tunnels : Leads(m, q, u) => Leads(m, q, u)'
  BY <1>1, <1>2, <1>3, <1>4, TunnelGrows
<1>6. PICK dir : dir = AddPeer(known[p], n, "connected", t)
  OBVIOUS
<1>7. t # 0
  BY TunnelNumbers
<1>8. /\ dir \in [Routers -> PeerRecords \cup {<< >>}] /\ dir[n] # << >> /\ dir[n].ws = t
      /\ \A q \in Routers : q # n => dir[q] = known[p][q]
  BY <1>1, <1>6, <1>7, Led, PeerAdded
<1>9. Leads(p, n, t)'
  BY <1>4, <1>5, NoneIsNoRecord DEF Leads, Joins
<1>10. dir[p] = << >> /\ \A q \in Routers : q # p => dir[q] # << >> /\ Leads(p, q, dir[q].ws)'
  BY <1>1, <1>5, <1>8, <1>9, Led
<1>11. \A m, q \in Routers : m # p /\ m # q => Leads(m, q, known[m][q].ws)'
  <2>1. \A m \in Routers : m # p => known'[m] = known[m]
    BY <1>2 DEF P2PInv, P2PTypes
  <2> QED BY <1>5, <2>1, Led
<1>12. known' \in [Routers -> [Routers -> PeerRecords \cup {<< >>}]] /\ EntriesLead'
  BY <1>2, <1>6, <1>8, <1>10, <1>11, EntriesChange
<1>13. UNCHANGED <<wire, waiting, dispatches, pings>>
  BY DEF ConnectToPeer
<1>14. P2PTypes'
  BY <1>5, <1>12, <1>13 DEF P2PInv, P2PTypes
<1> QED BY <1>5, <1>12, <1>13, <1>14, PendingStay DEF P2PInv

LEMMA P2PFinishes ==
  ASSUME P2PInv, NEW t \in Tunnels, tunnels[t] # << >>, FinishConnect(t)
  PROVE  P2PInv'
<1>1. PICK n : n = tunnels[t].client
  OBVIOUS
<1>2. PICK p : p = tunnels[t].server
  OBVIOUS
<1>3. tunnels[t] \in P2PTunnels
  BY DEF P2PInv, P2PTypes
<1>4. n \in Routers /\ p \in Routers /\ n # p /\ tunnels[t].listening \in SUBSET Routers
  BY <1>1, <1>2, <1>3 DEF P2PTunnels, P2PInv, TunnelsHaveTwoEnds
<1>5. PICK r : r = [tunnels[t] EXCEPT !.listening = tunnels[t].listening \cup {n}]
  OBVIOUS
<1>6. r \in P2PTunnels /\ r.client = n /\ r.server = p /\ r.listening = tunnels[t].listening \cup {n}
  BY <1>1, <1>2, <1>3, <1>4, <1>5 DEF P2PTunnels
<1>7. /\ tunnels' = [tunnels EXCEPT ![t] = r]
      /\ known' = [known EXCEPT ![n] = AddPeer(known[n], p, "connected", t)]
      /\ UNCHANGED <<wire, waiting, dispatches, pings>>
  BY <1>1, <1>2, <1>4, <1>5 DEF FinishConnect, P2PInv, P2PTypes
<1>8. /\ tunnels' \in [Tunnels -> P2PTunnels \cup {<< >>}] /\ TunnelsHaveTwoEnds' /\ tunnels'[t] = r
      /\ \A m, q \in Routers, u \in {0} \cup Tunnels : Leads(m, q, u) => Leads(m, q, u)'
  <2>1. r.client # r.server /\ r.client = tunnels[t].client /\ r.server = tunnels[t].server
        /\ tunnels[t].listening \subseteq r.listening
    BY <1>1, <1>2, <1>4, <1>6
  <2> QED BY <2>1, <1>6, <1>7, TunnelGrows
<1>9. PICK dir : dir = AddPeer(known[n], p, "connected", t)
  OBVIOUS
<1>10. /\ dir \in [Routers -> PeerRecords \cup {<< >>}] /\ dir[p] # << >> /\ dir[p].ws = t
       /\ \A q \in Routers : q # p => dir[q] = known[n][q]
  BY <1>4, <1>9, TunnelNumbers, Led, PeerAdded
<1>11. Leads(n, p, t)'
  BY <1>6, <1>8, NoneIsNoRecord DEF Leads, Joins
<1>12. dir[n] = << >> /\ \A q \in Routers : q # n => dir[q] # << >> /\ Leads(n, q, dir[q].ws)'
  BY <1>4, <1>8, <1>10, <1>11, Led
<1>13. \A m, q \in Routers : m # n /\ m # q => Leads(m, q, known[m][q].ws)'
  <2>1. \A m \in Routers : m # n => known'[m] = known[m]
    BY <1>7 DEF P2PInv, P2PTypes
  <2> QED BY <1>8, <2>1, Led
<1>14. known' \in [Routers -> [Routers -> PeerRecords \cup {<< >>}]] /\ EntriesLead'
  <2>1. known' = [known EXCEPT ![n] = dir]
    BY <1>7, <1>9
  <2> QED BY <1>4, <2>1, <1>10, <1>12, <1>13, EntriesChange
<1>15. P2PTypes'
  BY <1>7, <1>8, <1>14 DEF P2PInv, P2PTypes
<1> QED BY <1>7, <1>8, <1>14, <1>15, PendingStay DEF P2PInv

LEMMA P2PBreaks ==
  ASSUME P2PInv, NEW t \in Tunnels, tunnels[t] # << >>, Break(t)
  PROVE  P2PInv'
<1>1. tunnels[t] \in P2PTunnels
  BY DEF P2PInv, P2PTypes
<1>2. PICK r : r = [tunnels[t] EXCEPT !.open = FALSE]
  OBVIOUS
<1>3. /\ r \in P2PTunnels /\ r.client = tunnels[t].client /\ r.server = tunnels[t].server
      /\ r.listening = tunnels[t].listening
  BY <1>1, <1>2 DEF P2PTunnels
<1>4. tunnels' = [tunnels EXCEPT ![t] = r] /\ UNCHANGED <<known, waiting, dispatches, pings>>
  BY <1>2 DEF Break, P2PInv, P2PTypes
<1>5. r.client # r.server
  BY <1>3 DEF P2PInv, TunnelsHaveTwoEnds
<1>6. /\ tunnels' \in [Tunnels -> P2PTunnels \cup {<< >>}] /\ TunnelsHaveTwoEnds'
      /\ \A m, q \in Routers, u \in {0} \cup Tunnels : Leads(m, q, u) => Leads(m, q, u)'
  BY <1>3, <1>4, <1>5, TunnelGrows
<1>7. EntriesLead'
  <2>1. \A m, q \in Routers : m # q => known[m][q] # << >> /\ Leads(m, q, known[m][q].ws)'
    BY <1>4, <1>6, Led
  <2>2. \A m \in Routers : known[m][m] = << >>
    BY DEF P2PInv, EntriesLead
  <2> QED BY <2>1, <2>2, <1>4 DEF EntriesLead, Leads, Joins
<1>8. wire' \in Wires
  <2>1. wire' = [x \in DOMAIN wire |-> IF x[1] = t THEN << >> ELSE wire[x]]
    BY DEF Break
  <2>2. wire \in Wires /\ << >> \in Seq(P2PMessages)
    BY DEF P2PInv, P2PTypes
  <2> QED BY <2>1, <2>2 DEF Wires
<1>9. P2PTypes'
  BY <1>4, <1>6, <1>8 DEF P2PInv, P2PTypes
<1> QED BY <1>4, <1>6, <1>7, <1>9, PendingStay DEF P2PInv

LEMMA P2PHangsUp ==
  ASSUME P2PInv, NEW t \in Tunnels, tunnels[t] # << >>,
         NEW n \in {tunnels[t].client, tunnels[t].server}, StopListening(t, n)
  PROVE  P2PInv'
<1>1. PICK o : o = Other(t, n)
  OBVIOUS
<1>2. n \in Routers /\ o \in Routers /\ o # n /\ \A p \in Routers : Joins(t, n, p) => p = o
  BY <1>1, OtherEnd
<1>3. tunnels[t] \in P2PTunnels
  BY DEF P2PInv, P2PTypes
<1>4. PICK r : r = [tunnels[t] EXCEPT !.listening = tunnels[t].listening \ {n}]
  OBVIOUS
<1>5. /\ r \in P2PTunnels /\ r.client = tunnels[t].client /\ r.server = tunnels[t].server
      /\ r.listening = tunnels[t].listening \ {n} /\ r # << >>
  BY <1>3, <1>4, NoneIsNoRecord DEF P2PTunnels
<1>6. PICK e : e = [status |-> "disconnected", ws |-> 0]
  OBVIOUS
<1>7. e \in PeerRecords /\ e.ws = 0 /\ e # << >>
  BY <1>6, NoneIsNoRecord DEF PeerRecords
<1>8. PICK dir : dir = [known[n] EXCEPT ![o] = e]
  OBVIOUS
<1>9. /\ tunnels' = [tunnels EXCEPT ![t] = r] /\ known' = [known EXCEPT ![n] = dir]
      /\ UNCHANGED <<wire, waiting, dispatches, pings>>
  BY <1>1, <1>2, <1>4, <1>6, <1>8 DEF StopListening, HangUp, P2PInv, P2PTypes
<1>10. \A u \in Tunnels : tunnels'[u] = IF u = t THEN r ELSE tunnels[u]
  BY <1>9 DEF P2PInv, P2PTypes
<1>11. tunnels' \in [Tunnels -> P2PTunnels \cup {<< >>}]
  BY <1>5, <1>9 DEF P2PInv, P2PTypes
<1>12. TunnelsHaveTwoEnds'
  BY <1>5, <1>10 DEF P2PInv, TunnelsHaveTwoEnds
<1>13. ASSUME NEW m \in Routers, NEW p \in Routers, NEW u \in {0} \cup Tunnels, Leads(m, p, u),
              m # n \/ p # o
       PROVE  Leads(m, p, u)'
  <2>1. CASE u = 0
    BY <2>1 DEF Leads
  <2>2. CASE u = t
    <3>1. m # n
      BY <1>2, <1>13, <2>2, TunnelNumbers DEF Leads
    <3> QED BY <2>2, <3>1, <1>5, <1>10, <1>13, TunnelNumbers DEF Leads, Joins
  <2>3. CASE u # t /\ u # 0
    BY <2>3, <1>10, <1>13 DEF Leads, Joins
  <2> QED BY <2>1, <2>2, <2>3
<1>14. dir \in [Routers -> PeerRecords \cup {<< >>}] /\ dir[o] = e
       /\ \A q \in Routers : q # o => dir[q] = known[n][q]
  BY <1>2, <1>7, <1>8, Led
<1>15. Leads(n, o, dir[o].ws)'
  BY <1>7, <1>14 DEF Leads
<1>16. dir[n] = << >> /\ \A q \in Routers : q # n => dir[q] # << >> /\ Leads(n, q, dir[q].ws)'
  BY <1>2, <1>7, <1>13, <1>14, <1>15, Led
<1>17. \A m, q \in Routers : m # n /\ m # q => Leads(m, q, known[m][q].ws)'
  <2>1. \A m \in Routers : m # n => known'[m] = known[m]
    BY <1>9 DEF P2PInv, P2PTypes
  <2> QED BY <1>13, <2>1, Led
<1>18. known' \in [Routers -> [Routers -> PeerRecords \cup {<< >>}]] /\ EntriesLead'
  BY <1>2, <1>9, <1>14, <1>16, <1>17, EntriesChange
<1>19. P2PTypes'
  BY <1>9, <1>11, <1>18 DEF P2PInv, P2PTypes
<1> QED BY <1>9, <1>12, <1>18, <1>19, PendingStay DEF P2PInv

LEMMA P2PPings ==
  ASSUME P2PInv, NEW n \in Routers, NEW p \in Routers, PingPeer(n, p)
  PROVE  P2PInv'
<1>1. n # p
  BY DEF PingPeer, P2PInv, EntriesLead
<1>2. PICK t : t = known[n][p].ws
  OBVIOUS
<1>3. t \in Tunnels /\ tunnels[t] # << >> /\ Joins(t, n, p)
  BY <1>1, <1>2, Led DEF PingPeer, Leads
<1>4. Other(t, n) \in Routers
  BY <1>3, OtherEnd DEF Joins
<1>5. PICK m : m = [type |-> "ping", known |-> KnownTo(n)]
  OBVIOUS
<1>6. m \in P2PMessages
  BY <1>5 DEF P2PMessages, KnownTo
<1>7. wire' = [wire EXCEPT ![<<t, Other(t, n)>>] = Append(@, m)]
      /\ UNCHANGED <<known, tunnels, waiting, dispatches>>
  BY <1>2, <1>5 DEF PingPeer, Send
<1>8. wire' \in Wires
  BY <1>3, <1>4, <1>6, <1>7, Sent DEF P2PInv, P2PTypes
<1>9. P2PTypes'
  BY <1>7, <1>8 DEF P2PInv, P2PTypes
<1> QED BY <1>7, <1>9, EntriesStay, PendingStay DEF P2PInv

LEMMA P2PHearsPing ==
  ASSUME P2PInv, NEW t \in Tunnels, tunnels[t] # << >>,
         NEW n \in {tunnels[t].client, tunnels[t].server}, OnPing(t, n)
  PROVE  P2PInv'
<1>1. PICK o : o = Other(t, n)
  OBVIOUS
<1>2. n \in Routers /\ o \in Routers /\ o # n /\ Joins(t, n, o)
  BY <1>1, OtherEnd
<1>3. n \in tunnels[t].listening /\ wire[<<t, n>>] # << >>
  BY DEF OnPing, Arrived
<1>4. PICK a : a = AddPeer(known[n], o, "connected", t)
  OBVIOUS
<1>5. /\ a \in [Routers -> PeerRecords \cup {<< >>}] /\ a[o] # << >> /\ a[o].ws = t
      /\ \A q \in Routers : q # o => a[q] = known[n][q]
  BY <1>2, <1>4, TunnelNumbers, Led, PeerAdded
<1>6. a[n] = << >> /\ \A q \in Routers : q # n => a[q] # << >>
  BY <1>2, <1>5, Led
<1>7. PICK others : others = Head(wire[<<t, n>>]).known
  OBVIOUS
<1>8. PICK met : met = Learn(a, n, others)
  OBVIOUS
<1>9. /\ met \in [Routers -> PeerRecords \cup {<< >>}] /\ met[n] = << >>
      /\ \A q \in Routers : q # n => met[q] # << >> /\ met[q].ws = a[q].ws
  BY <1>2, <1>5, <1>6, <1>8, Learnt
<1>10. PICK m : m = [type |-> "pong", known |-> {p \in Routers : met[p] # << >>}]
  OBVIOUS
<1>11. m \in P2PMessages
  BY <1>10 DEF P2PMessages
<1>12. /\ known' = [known EXCEPT ![n] = met]
       /\ wire' = [Take(t, n) EXCEPT ![<<t, o>>] = Append(@, m)]
       /\ UNCHANGED <<tunnels, waiting, dispatches, pings>>
  BY <1>1, <1>4, <1>7, <1>8, <1>10 DEF OnPing
<1>13. wire' \in Wires
  BY <1>2, <1>3, <1>11, <1>12, Taken, Sent
<1>14. \A m1, q \in Routers, u \in {0} \cup Tunnels : Leads(m1, q, u) => Leads(m1, q, u)'
  BY <1>12 DEF Leads, Joins
<1>15. Leads(n, o, t)'
  BY <1>2, <1>3, <1>12 DEF Leads, Joins
<1>16. \A q \in Routers : q # n => met[q] # << >> /\ Leads(n, q, met[q].ws)'
  BY <1>2, <1>5, <1>9, <1>14, <1>15, Led
<1>17. \A m1, q \in Routers : m1 # n /\ m1 # q => Leads(m1, q, known[m1][q].ws)'
  <2>1. \A m1 \in Routers : m1 # n => known'[m1] = known[m1]
    BY <1>12 DEF P2PInv, P2PTypes
  <2> QED BY <1>14, <2>1, Led
<1>18. known' \in [Routers -> [Routers -> PeerRecords \cup {<< >>}]] /\ EntriesLead'
  BY <1>2, <1>9, <1>12, <1>16, <1>17, EntriesChange
<1>19. P2PTypes' /\ TunnelsHaveTwoEnds'
  BY <1>12, <1>13, <1>18 DEF P2PInv, P2PTypes, TunnelsHaveTwoEnds
<1> QED BY <1>12, <1>18, <1>19, PendingStay DEF P2PInv

LEMMA P2PHearsPong ==
  ASSUME P2PInv, NEW t \in Tunnels, tunnels[t] # << >>,
         NEW n \in {tunnels[t].client, tunnels[t].server}, OnPong(t, n)
  PROVE  P2PInv'
<1>1. PICK o : o = Other(t, n)
  OBVIOUS
<1>2. n \in Routers /\ o \in Routers /\ o # n
  BY <1>1, OtherEnd
<1>3. wire[<<t, n>>] # << >>
  BY DEF OnPong, Arrived
<1>4. PICK a : a = [known[n] EXCEPT ![o].status = "connected"]
  OBVIOUS
<1>5. known[n] \in [Routers -> PeerRecords \cup {<< >>}] /\ known[n][o] \in PeerRecords
  BY <1>2, Led
<1>6. PICK e : e = [known[n][o] EXCEPT !.status = "connected"]
  OBVIOUS
<1>7. e \in PeerRecords /\ e.ws = known[n][o].ws
  BY <1>5, <1>6 DEF PeerRecords
<1>8. /\ a \in [Routers -> PeerRecords \cup {<< >>}] /\ a[o] = e
      /\ \A q \in Routers : q # o => a[q] = known[n][q]
  BY <1>2, <1>4, <1>5, <1>6, <1>7
<1>9. a[n] = << >> /\ \A q \in Routers : q # n => a[q] # << >> /\ a[q].ws = known[n][q].ws
  BY <1>2, <1>7, <1>8, Led, NoneIsNoRecord
<1>10. PICK others : others = Head(wire[<<t, n>>]).known
  OBVIOUS
<1>11. PICK met : met = Learn(a, n, others)
  OBVIOUS
<1>12. /\ met \in [Routers -> PeerRecords \cup {<< >>}] /\ met[n] = << >>
       /\ \A q \in Routers : q # n => met[q] # << >> /\ met[q].ws = a[q].ws
  BY <1>2, <1>8, <1>9, <1>11, Learnt
<1>13. known' = [known EXCEPT ![n] = met] /\ wire' = Take(t, n)
       /\ UNCHANGED <<tunnels, waiting, dispatches, pings>>
  BY <1>1, <1>2, <1>4, <1>10, <1>11 DEF OnPong, P2PInv, P2PTypes
<1>14. wire' \in Wires
  BY <1>2, <1>3, <1>13, Taken
<1>15. \A m1, q \in Routers, u \in {0} \cup Tunnels : Leads(m1, q, u) => Leads(m1, q, u)'
  BY <1>13 DEF Leads, Joins
<1>16. \A q \in Routers : q # n => met[q] # << >> /\ Leads(n, q, met[q].ws)'
  BY <1>2, <1>9, <1>12, <1>15, Led
<1>17. \A m1, q \in Routers : m1 # n /\ m1 # q => Leads(m1, q, known[m1][q].ws)'
  <2>1. \A m1 \in Routers : m1 # n => known'[m1] = known[m1]
    BY <1>13 DEF P2PInv, P2PTypes
  <2> QED BY <1>15, <2>1, Led
<1>18. known' \in [Routers -> [Routers -> PeerRecords \cup {<< >>}]] /\ EntriesLead'
  BY <1>2, <1>12, <1>13, <1>16, <1>17, EntriesChange
<1>19. P2PTypes' /\ TunnelsHaveTwoEnds'
  BY <1>13, <1>14, <1>18 DEF P2PInv, P2PTypes, TunnelsHaveTwoEnds
<1> QED BY <1>13, <1>18, <1>19, PendingStay DEF P2PInv

LEMMA P2PDispatches ==
  ASSUME P2PInv, NEW n \in Routers, NEW p \in Routers, NEW k \in P2PTasks, DispatchTask(n, p, k)
  PROVE  P2PInv'
<1>1. n # p
  BY DEF DispatchTask, P2PInv, EntriesLead
<1>2. PICK t : t = known[n][p].ws
  OBVIOUS
<1>3. t \in {0} \cup Tunnels /\ Leads(n, p, t)
  BY <1>1, <1>2, Led
<1>4. dispatches[k] = << >> /\ UNCHANGED <<known, tunnels, pings>>
  BY DEF DispatchTask
<1>5. dispatches \in [P2PTasks -> Dispatched \cup {<< >>}] /\ waiting \in [Routers -> SUBSET P2PTasks]
      /\ wire \in Wires
  BY DEF P2PInv, P2PTypes
<1>6. \A m \in Routers : waiting[m] = {j \in P2PTasks : dispatches[j] # << >> /\ dispatches[j].by = m
                                                         /\ dispatches[j].state = "waits"}
  BY DEF P2PInv, PendingAreWaiting
<1>7. CASE t # 0 /\ tunnels[t].open
  <2>1. PICK d : d = [by |-> n, on |-> t, state |-> "waits"]
    OBVIOUS
  <2>2. d \in Dispatched /\ d.by = n /\ d.state = "waits"
    BY <1>3, <2>1 DEF Dispatched
  <2>3. d # << >>
    BY <2>2, NoneIsNoRecord
  <2>4. PICK m : m = [type |-> "task", task |-> k]
    OBVIOUS
  <2>5. m \in P2PMessages
    BY <2>4 DEF P2PMessages
  <2>6. /\ wire' = [wire EXCEPT ![<<t, Other(t, n)>>] = Append(@, m)]
        /\ waiting' = [waiting EXCEPT ![n] = waiting[n] \cup {k}]
        /\ dispatches' = [dispatches EXCEPT ![k] = d]
    BY <1>2, <1>5, <1>7, <2>1, <2>4 DEF DispatchTask, Send
  <2>7. t \in Tunnels /\ Other(t, n) \in Routers
    BY <1>3, <1>7, OtherEnd DEF Leads, Joins
  <2>8. wire' \in Wires
    BY <1>5, <2>5, <2>6, <2>7, Sent
  <2>9. P2PTypes'
    BY <1>4, <1>5, <2>2, <2>6, <2>8 DEF P2PInv, P2PTypes
  <2>10. \A j \in P2PTasks : dispatches'[j] = IF j = k THEN d ELSE dispatches[j]
    BY <1>5, <2>6
  <2>11. \A m1 \in Routers : waiting'[m1] = IF m1 = n THEN waiting[n] \cup {k} ELSE waiting[m1]
    BY <1>5, <2>6
  <2>12. \A m1 \in Routers, j \in P2PTasks : j \in waiting'[m1] <=>
           (dispatches'[j] # << >> /\ dispatches'[j].by = m1 /\ dispatches'[j].state = "waits")
    BY <1>4, <1>6, <2>2, <2>3, <2>10, <2>11
  <2>13. PendingAreWaiting'
    BY <2>9, <2>12 DEF PendingAreWaiting, P2PTypes
  <2> QED BY <1>4, <2>9, <2>13, EntriesStay DEF P2PInv
<1>8. CASE ~(t # 0 /\ tunnels[t].open)
  <2>1. PICK d : d = [by |-> n, on |-> 0, state |-> "failed"]
    OBVIOUS
  <2>2. d \in Dispatched /\ d.state = "failed"
    BY <2>1 DEF Dispatched
  <2>3. dispatches' = [dispatches EXCEPT ![k] = d] /\ UNCHANGED <<wire, waiting>>
    BY <1>2, <1>8, <2>1 DEF DispatchTask
  <2>4. P2PTypes'
    BY <1>4, <1>5, <2>2, <2>3 DEF P2PInv, P2PTypes
  <2>5. \A j \in P2PTasks : dispatches'[j] = IF j = k THEN d ELSE dispatches[j]
    BY <1>5, <2>3
  <2>6. \A m1 \in Routers, j \in P2PTasks : j \in waiting'[m1] <=>
           (dispatches'[j] # << >> /\ dispatches'[j].by = m1 /\ dispatches'[j].state = "waits")
    BY <1>4, <1>6, <2>2, <2>3, <2>5
  <2>7. PendingAreWaiting'
    BY <2>4, <2>6 DEF PendingAreWaiting, P2PTypes
  <2> QED BY <1>4, <2>4, <2>7, EntriesStay DEF P2PInv
<1> QED BY <1>7, <1>8

LEMMA P2PRunsTask ==
  ASSUME P2PInv, NEW t \in Tunnels, tunnels[t] # << >>,
         NEW n \in {tunnels[t].client, tunnels[t].server}, OnTask(t, n)
  PROVE  P2PInv'
<1>1. PICK o : o = Other(t, n)
  OBVIOUS
<1>2. n \in Routers /\ o \in Routers
  BY <1>1, OtherEnd
<1>3. wire[<<t, n>>] # << >> /\ Head(wire[<<t, n>>]).type = "task"
  BY DEF OnTask, Arrived
<1>4. PICK m : m = Head(wire[<<t, n>>])
  OBVIOUS
<1>5. m \in P2PMessages /\ m.type = "task"
  BY <1>2, <1>3, <1>4, Taken
<1>6. m.task \in P2PTasks
  BY <1>5 DEF P2PMessages
<1>7. PICK status \in {"completed", "error"} :
        wire' = [Take(t, n) EXCEPT ![<<t, o>>] =
                   Append(@, [type |-> "answer", task |-> m.task, status |-> status])]
  BY <1>1, <1>4 DEF OnTask
<1>8. PICK a : a = [type |-> "answer", task |-> m.task, status |-> status]
  OBVIOUS
<1>9. a \in P2PMessages
  BY <1>6, <1>8 DEF P2PMessages
<1>10. wire' = [Take(t, n) EXCEPT ![<<t, o>>] = Append(@, a)]
  BY <1>7, <1>8
<1>11. wire' \in Wires
  BY <1>2, <1>3, <1>9, <1>10, Taken, Sent
<1>12. UNCHANGED <<known, tunnels, waiting, dispatches>>
  BY DEF OnTask
<1>13. P2PTypes'
  BY <1>11, <1>12 DEF P2PInv, P2PTypes
<1> QED BY <1>12, <1>13, EntriesStay, PendingStay DEF P2PInv

\* A call that stops waiting leaves the list of its router.
LEMMA CallEnds ==
  ASSUME P2PInv, NEW n \in Routers, NEW k \in P2PTasks, dispatches[k] # << >>, dispatches[k].by = n,
         NEW st \in {"failed", "completed", "error"},
         dispatches' = [dispatches EXCEPT ![k].state = st],
         waiting' = [waiting EXCEPT ![n] = waiting[n] \ {k}]
  PROVE  /\ dispatches' \in [P2PTasks -> Dispatched \cup {<< >>}]
         /\ waiting' \in [Routers -> SUBSET P2PTasks]
         /\ PendingAreWaiting'
<1>1. dispatches \in [P2PTasks -> Dispatched \cup {<< >>}] /\ waiting \in [Routers -> SUBSET P2PTasks]
  BY DEF P2PInv, P2PTypes
<1>2. PICK d : d = [dispatches[k] EXCEPT !.state = st]
  OBVIOUS
<1>3. dispatches[k] \in Dispatched
  BY <1>1
<1>4. d \in Dispatched /\ d.by = n /\ d.state = st
  BY <1>2, <1>3 DEF Dispatched
<1>5. dispatches' = [dispatches EXCEPT ![k] = d]
  BY <1>1, <1>2
<1>6. \A j \in P2PTasks : dispatches'[j] = IF j = k THEN d ELSE dispatches[j]
  BY <1>1, <1>5
<1>7. \A m \in Routers : waiting'[m] = IF m = n THEN waiting[n] \ {k} ELSE waiting[m]
  BY <1>1
<1>8. \A m \in Routers : waiting[m] = {j \in P2PTasks : dispatches[j] # << >> /\ dispatches[j].by = m
                                                         /\ dispatches[j].state = "waits"}
  BY DEF P2PInv, PendingAreWaiting
<1>9. \A m \in Routers, j \in P2PTasks : j \in waiting'[m] <=>
        (dispatches'[j] # << >> /\ dispatches'[j].by = m /\ dispatches'[j].state = "waits")
  BY <1>4, <1>6, <1>7, <1>8
<1>10. /\ dispatches' \in [P2PTasks -> Dispatched \cup {<< >>}]
       /\ waiting' \in [Routers -> SUBSET P2PTasks]
  BY <1>1, <1>4, <1>5
<1> QED BY <1>9, <1>10 DEF PendingAreWaiting

LEMMA P2PHearsAnswer ==
  ASSUME P2PInv, NEW t \in Tunnels, tunnels[t] # << >>,
         NEW n \in {tunnels[t].client, tunnels[t].server}, OnAnswer(t, n)
  PROVE  P2PInv'
<1>1. n \in Routers
  BY OtherEnd
<1>2. wire[<<t, n>>] # << >> /\ Head(wire[<<t, n>>]).type = "answer"
  BY DEF OnAnswer, Arrived
<1>3. PICK m : m = Head(wire[<<t, n>>])
  OBVIOUS
<1>4. m \in P2PMessages /\ m.type = "answer" /\ Take(t, n) \in Wires
  BY <1>1, <1>2, <1>3, Taken
<1>5. m.task \in P2PTasks /\ m.status \in {"completed", "error"}
  BY <1>4 DEF P2PMessages
<1>6. /\ wire' = Take(t, n) /\ waiting' = [waiting EXCEPT ![n] = waiting[n] \ {m.task}]
      /\ dispatches' = IF m.task \in waiting[n]
                       THEN [dispatches EXCEPT ![m.task].state = m.status] ELSE dispatches
      /\ UNCHANGED <<known, tunnels, pings>>
  BY <1>1, <1>3 DEF OnAnswer, P2PInv, P2PTypes
<1>7. CASE m.task \in waiting[n]
  <2>1. dispatches[m.task] # << >> /\ dispatches[m.task].by = n
    BY <1>1, <1>5, <1>7 DEF P2PInv, PendingAreWaiting
  <2>2. dispatches' = [dispatches EXCEPT ![m.task].state = m.status]
    BY <1>6, <1>7
  <2>3. /\ dispatches' \in [P2PTasks -> Dispatched \cup {<< >>}]
        /\ waiting' \in [Routers -> SUBSET P2PTasks]
        /\ PendingAreWaiting'
    BY <1>1, <1>5, <1>6, <2>1, <2>2, CallEnds
  <2>4. P2PTypes'
    BY <1>4, <1>6, <2>3 DEF P2PInv, P2PTypes
  <2> QED BY <1>6, <2>3, <2>4, EntriesStay DEF P2PInv
<1>8. CASE m.task \notin waiting[n]
  <2>1. waiting' = waiting /\ dispatches' = dispatches
    BY <1>1, <1>6, <1>8 DEF P2PInv, P2PTypes
  <2>2. P2PTypes'
    BY <1>4, <1>6, <2>1 DEF P2PInv, P2PTypes
  <2> QED BY <1>6, <2>1, <2>2, EntriesStay, PendingStay DEF P2PInv
<1> QED BY <1>7, <1>8

LEMMA P2PTimesOut ==
  ASSUME P2PInv, NEW k \in P2PTasks, DispatchTimesOut(k)
  PROVE  P2PInv'
<1>1. dispatches[k] # << >> /\ dispatches[k].by \in Routers
  <2>1. dispatches[k] # << >> /\ dispatches[k] \in Dispatched \cup {<< >>}
    BY DEF DispatchTimesOut, P2PInv, P2PTypes
  <2> QED BY <2>1 DEF Dispatched
<1>2. PICK n : n = dispatches[k].by
  OBVIOUS
<1>3. /\ dispatches' = [dispatches EXCEPT ![k].state = "failed"]
      /\ waiting' = [waiting EXCEPT ![n] = waiting[n] \ {k}]
      /\ UNCHANGED <<known, tunnels, wire, pings>>
  BY <1>1, <1>2 DEF DispatchTimesOut, Forget, P2PInv, P2PTypes
<1>4. /\ dispatches' \in [P2PTasks -> Dispatched \cup {<< >>}]
      /\ waiting' \in [Routers -> SUBSET P2PTasks]
      /\ PendingAreWaiting'
  BY <1>1, <1>2, <1>3, CallEnds
<1>5. P2PTypes'
  BY <1>3, <1>4 DEF P2PInv, P2PTypes
<1> QED BY <1>3, <1>4, <1>5, EntriesStay DEF P2PInv

LEMMA P2PStepKeeps ==
  ASSUME P2PInv, P2PNext
  PROVE  P2PInv'
<1>1. ASSUME NEW t \in Opened,
             \/ FinishConnect(t) \/ Break(t)
             \/ \E n \in {tunnels[t].client, tunnels[t].server} :
                  \/ StopListening(t, n)
                  \/ OnPing(t, n) \/ OnPong(t, n) \/ OnTask(t, n) \/ OnAnswer(t, n)
      PROVE  P2PInv'
  <2>1. t \in Tunnels /\ tunnels[t] # << >>
    BY DEF Opened
  <2> QED BY <1>1, <2>1, P2PFinishes, P2PBreaks, P2PHangsUp, P2PHearsPing, P2PHearsPong,
             P2PRunsTask, P2PHearsAnswer
<1> QED BY <1>1, P2PConnects, P2PPings, P2PDispatches, P2PTimesOut DEF P2PNext

LEMMA P2PTables ==
  ASSUME P2PInv
  PROVE  TunnelsAreListened /\ PendingAreWaiting
<1>1. \A n, p \in Routers : known[n][p] # << >> => n # p
  BY DEF P2PInv, EntriesLead
<1> QED BY <1>1, Led DEF P2PInv, TunnelsAreListened, Leads

-----------------------------------------------------------------------------
(* The WebSocket sessions.                                                   *)

Phases == {"new", "hello", "open", "publishing", "ended"}
SocketRecords == [kind : {"none", "collab", "dash", "crew"}, phase : Phases,
                  tenant : Tenants \cup {<< >>}, chat : Chats \cup {<< >>}, alive : BOOLEAN]
SockTypes == wsSock \in [Sockets -> SocketRecords]

\* What one publish of a collaboration session may still be sent to.
Publishes == [from : {<< >>} \cup {<< s >> : s \in Sockets}, tenant : Tenants \cup {<< >>},
              left : SUBSET Sockets]
MembersAreOpen ==
    \A s \in Sockets : s \in collabSubs \/ s \in collabKeys => wsSock[s].phase \in {"open", "publishing"}
MembersHaveTenants ==
    \A s \in Sockets : wsSock[s].phase \in {"hello", "open", "publishing"} => collabOf[s] = wsSock[s].tenant
FansStayInTenant ==
    /\ fanouts \in Seq(Publishes)
    /\ \A i \in 1..Len(fanouts) : \A s \in fanouts[i].left :
         wsSock[s].phase # "new" /\ wsSock[s].tenant = fanouts[i].tenant
GotIsOfTenant ==
    \A got \in wsGot : \E s \in Sockets : wsSock[s].phase # "new" /\ got = << s, wsSock[s].tenant >>
NoCrew == \A s \in Sockets : wsSock[s].kind # "crew"
SessionInv ==
    /\ collabSubs \subseteq Sockets /\ collabKeys \subseteq Sockets
    /\ collabOf \in [Sockets -> Tenants \cup {<< >>}]
    /\ MembersAreOpen /\ MembersHaveTenants /\ FansStayInTenant /\ GotIsOfTenant /\ NoCrew

\* Element j of a sequence without element i.
LEMMA Removed ==
  ASSUME NEW S, NEW s \in Seq(S), NEW i \in 1..Len(s)
  PROVE  /\ RemoveAt(s, i) \in Seq(S) /\ Len(RemoveAt(s, i)) = Len(s) - 1
         /\ \A j \in 1..(Len(s) - 1) : RemoveAt(s, i)[j] = IF j < i THEN s[j] ELSE s[j + 1]
<1>1. PICK a : a = SubSeq(s, 1, i - 1)
  OBVIOUS
<1>2. PICK b : b = SubSeq(s, i + 1, Len(s))
  OBVIOUS
<1>3. a \in Seq(S) /\ Len(a) = i - 1 /\ \A j \in 1..(i - 1) : a[j] = s[j]
  BY <1>1
<1>4. b \in Seq(S) /\ Len(b) = Len(s) - i /\ \A j \in 1..(Len(s) - i) : b[j] = s[i + j]
  BY <1>2
<1>5. RemoveAt(s, i) = a \o b
  BY <1>1, <1>2 DEF RemoveAt
<1>6. a \o b \in Seq(S) /\ Len(a \o b) = Len(s) - 1
  BY <1>3, <1>4
<1>7. \A j \in 1..(Len(s) - 1) : (a \o b)[j] = IF j < i THEN s[j] ELSE s[j + 1]
  <2> SUFFICES ASSUME NEW j \in 1..(Len(s) - 1)
               PROVE  (a \o b)[j] = IF j < i THEN s[j] ELSE s[j + 1]
    OBVIOUS
  <2>1. CASE j < i
    BY <2>1, <1>3, <1>4
  <2>2. CASE ~(j < i)
    <3>1. j - (i - 1) \in 1..(Len(s) - i)
      BY <2>2
    <3>2. (a \o b)[j] = b[j - (i - 1)]
      BY <1>3, <1>4, <2>2
    <3>3. b[j - (i - 1)] = s[i + (j - (i - 1))] /\ i + (j - (i - 1)) = j + 1
      BY <1>4, <3>1
    <3> QED BY <2>2, <3>2, <3>3
  <2> QED BY <2>1, <2>2
<1> QED BY <1>5, <1>6, <1>7

\* A change of one socket's phase, and of its network.
LEMMA PhaseChanged ==
  ASSUME SockTypes, NEW s \in Sockets, NEW p \in Phases, wsSock' = Phase(s, p)
  PROVE  /\ SockTypes'
         /\ \A r \in Sockets :
              /\ wsSock'[r].phase = IF r = s THEN p ELSE wsSock[r].phase
              /\ wsSock'[r].tenant = wsSock[r].tenant /\ wsSock'[r].kind = wsSock[r].kind
              /\ wsSock'[r].alive = wsSock[r].alive
<1>1. PICK e : e = [wsSock[s] EXCEPT !.phase = p]
  OBVIOUS
<1>2. /\ e \in SocketRecords /\ e.phase = p /\ e.tenant = wsSock[s].tenant
      /\ e.kind = wsSock[s].kind /\ e.alive = wsSock[s].alive
  BY <1>1 DEF SockTypes, SocketRecords
<1>3. wsSock' = [wsSock EXCEPT ![s] = e]
  BY <1>1 DEF Phase, SockTypes
<1> QED BY <1>2, <1>3 DEF SockTypes

LEMMA NetworkDropped ==
  ASSUME SockTypes, NEW s \in Sockets, NetworkDrops(s)
  PROVE  /\ SockTypes'
         /\ \A r \in Sockets :
              /\ wsSock'[r].phase = wsSock[r].phase
              /\ wsSock'[r].tenant = wsSock[r].tenant /\ wsSock'[r].kind = wsSock[r].kind
              /\ wsSock'[r].alive => wsSock[r].alive
              /\ wsSock[r].phase = "new" => wsSock'[r].alive = wsSock[r].alive
<1>1. PICK e : e = [wsSock[s] EXCEPT !.alive = FALSE]
  OBVIOUS
<1>2. /\ e \in SocketRecords /\ e.phase = wsSock[s].phase /\ e.tenant = wsSock[s].tenant
      /\ e.kind = wsSock[s].kind /\ e.alive = FALSE
  BY <1>1 DEF SockTypes, SocketRecords
<1>3. wsSock' = [wsSock EXCEPT ![s] = e]
  BY <1>1 DEF NetworkDrops, SockTypes
<1>4. wsSock[s].phase # "new"
  BY DEF NetworkDrops
<1> QED BY <1>2, <1>3, <1>4 DEF SockTypes

LEMMA SocketAccepted ==
  ASSUME SockTypes, NEW s \in Sockets, NEW tenant \in Tenants, NEW chat \in Chats,
         NEW kind \in {"collab", "dash", "crew"}, NEW p \in Phases,
         wsSock' = Accepted(s, tenant, chat, kind, p)
  PROVE  /\ SockTypes'
         /\ wsSock'[s].phase = p /\ wsSock'[s].tenant = tenant /\ wsSock'[s].kind = kind
         /\ \A r \in Sockets : r # s => wsSock'[r] = wsSock[r]
<1>1. PICK e : e = [kind |-> kind, phase |-> p, tenant |-> tenant, chat |-> chat, alive |-> TRUE]
  OBVIOUS
<1>2. e \in SocketRecords /\ e.phase = p /\ e.tenant = tenant /\ e.kind = kind
  BY <1>1 DEF SocketRecords
<1>3. wsSock' = [wsSock EXCEPT ![s] = e]
  BY <1>1 DEF Accepted
<1> QED BY <1>2, <1>3 DEF SockTypes

LEMMA CollabStarts ==
  ASSUME CollabInit
  PROVE  SockTypes /\ SessionInv
<1>1. NewSocket \in SocketRecords /\ NewSocket.phase = "new" /\ NewSocket.kind = "none"
  BY DEF NewSocket, SocketRecords, Phases
<1>2. SockTypes /\ NoCrew /\ \A s \in Sockets : wsSock[s].phase = "new"
  BY <1>1 DEF CollabInit, SockTypes, NoCrew
<1>3. fanouts \in Seq(Publishes) /\ Len(fanouts) = 0
  BY DEF CollabInit
<1> QED
  BY <1>2, <1>3 DEF CollabInit, SessionInv, MembersAreOpen, MembersHaveTenants, FansStayInTenant, GotIsOfTenant

\* Sockets that were accepted keep their tenant.
SocketsMoveOn ==
    /\ \A r \in Sockets : wsSock[r].phase # "new" => /\ wsSock'[r].phase # "new"
                                                     /\ wsSock'[r].tenant = wsSock[r].tenant
    /\ \A r \in Sockets : wsSock'[r].kind # "crew"

LEMMA FansGoOn ==
  ASSUME SessionInv, SocketsMoveOn, fanouts' = fanouts, wsGot' = wsGot
  PROVE  FansStayInTenant' /\ GotIsOfTenant' /\ NoCrew'
<1>1. FansStayInTenant'
  <2>1. \A i \in 1..Len(fanouts) : fanouts[i].left \subseteq Sockets
    <3> SUFFICES ASSUME NEW i \in 1..Len(fanouts) PROVE fanouts[i].left \subseteq Sockets
      OBVIOUS
    <3>1. fanouts[i] \in Publishes
      BY DEF SessionInv, FansStayInTenant
    <3> QED BY <3>1 DEF Publishes
  <2> QED BY <2>1 DEF SessionInv, FansStayInTenant, SocketsMoveOn
<1>2. GotIsOfTenant'
  BY DEF SessionInv, GotIsOfTenant, SocketsMoveOn
<1> QED BY <1>1, <1>2 DEF NoCrew, SocketsMoveOn

\* A socket that is forgotten may end.
LEMMA ForgottenEnds ==
  ASSUME SockTypes, SessionInv, NEW s \in Sockets, wsSock' = Phase(s, "ended"), wsSock[s].phase # "new",
         CollabForget(s), fanouts' = fanouts, wsGot' = wsGot
  PROVE  SockTypes' /\ SessionInv'
<1>1. /\ SockTypes'
      /\ \A r \in Sockets :
           /\ wsSock'[r].phase = IF r = s THEN "ended" ELSE wsSock[r].phase
           /\ wsSock'[r].tenant = wsSock[r].tenant /\ wsSock'[r].kind = wsSock[r].kind
  BY PhaseChanged DEF Phases
<1>2. SocketsMoveOn
  BY <1>1 DEF SocketsMoveOn, SessionInv, NoCrew
<1>3. /\ collabKeys' = collabKeys \ {s} /\ collabSubs' = collabSubs \ {s}
      /\ collabOf' = [collabOf EXCEPT ![s] = << >>]
  BY DEF CollabForget
<1>4. /\ collabOf' \in [Sockets -> Tenants \cup {<< >>}]
      /\ \A r \in Sockets : r # s => collabOf'[r] = collabOf[r]
  BY <1>3 DEF SessionInv
<1>5. MembersAreOpen' /\ MembersHaveTenants'
  BY <1>1, <1>3, <1>4 DEF SessionInv, MembersAreOpen, MembersHaveTenants
<1> QED BY <1>1, <1>2, <1>3, <1>4, <1>5, FansGoOn DEF SessionInv

\* A fan-out begins with the subscribers of its tenant.
LEMMA PublishBegins ==
  ASSUME SockTypes, SessionInv, NEW tenant \in Tenants \cup {<< >>}, NEW chat,
         NEW from \in {<< >>} \cup {<< s >> : s \in Sockets},
         StartPublish(tenant, chat, from), wsGot' = wsGot, UNCHANGED <<collabSubs, collabKeys, collabOf>>,
         \A r \in Sockets :
              /\ wsSock'[r].phase = wsSock[r].phase \/ {wsSock[r].phase, wsSock'[r].phase} = {"open", "publishing"}
              /\ wsSock'[r].tenant = wsSock[r].tenant /\ wsSock'[r].kind = wsSock[r].kind
  PROVE  SessionInv'
<1>1. PICK f : f = [from |-> from, tenant |-> tenant, left |-> Recipients(tenant, chat)]
  OBVIOUS
<1>2. \A s \in Recipients(tenant, chat) : s \in Sockets /\ s \in collabSubs /\ collabOf[s] = tenant
  BY DEF Recipients, SessionInv
<1>3. f \in Publishes /\ f.tenant = tenant /\ f.left = Recipients(tenant, chat)
  BY <1>1, <1>2 DEF Publishes
<1>4. fanouts' = Append(fanouts, f) /\ fanouts \in Seq(Publishes)
  BY <1>1 DEF StartPublish, SessionInv, FansStayInTenant
<1>5. /\ fanouts' \in Seq(Publishes) /\ Len(fanouts') = Len(fanouts) + 1
      /\ \A i \in 1..Len(fanouts) : fanouts'[i] = fanouts[i]
      /\ fanouts'[Len(fanouts) + 1] = f
  BY <1>3, <1>4, AppendProperties
<1>6. \A i \in 1..Len(fanouts) : \A s \in fanouts[i].left :
        s \in Sockets /\ wsSock[s].phase # "new" /\ wsSock[s].tenant = fanouts[i].tenant
  <2> SUFFICES ASSUME NEW i \in 1..Len(fanouts), NEW s \in fanouts[i].left
               PROVE  s \in Sockets /\ wsSock[s].phase # "new" /\ wsSock[s].tenant = fanouts[i].tenant
    OBVIOUS
  <2>1. fanouts[i] \in Publishes
    BY <1>4
  <2> QED BY <2>1 DEF Publishes, SessionInv, FansStayInTenant
<1>7. \A s \in f.left : s \in Sockets /\ wsSock[s].phase # "new" /\ wsSock[s].tenant = f.tenant
  BY <1>2, <1>3 DEF SessionInv, MembersAreOpen, MembersHaveTenants
<1>8. \A r \in Sockets : wsSock[r].phase # "new" => wsSock'[r].phase # "new"
  OBVIOUS
<1>9. FansStayInTenant'
  <2> SUFFICES ASSUME NEW i \in 1..Len(fanouts'), NEW s \in fanouts'[i].left
               PROVE  wsSock'[s].phase # "new" /\ wsSock'[s].tenant = fanouts'[i].tenant
    BY <1>5 DEF FansStayInTenant
  <2>1. CASE i = Len(fanouts) + 1
    BY <2>1, <1>5, <1>7, <1>8
  <2>2. CASE i # Len(fanouts) + 1
    <3>1. Len(fanouts) \in Nat
      BY <1>4
    <3>2. i \in 1..Len(fanouts)
      BY <2>2, <1>5, <3>1
    <3> QED BY <3>2, <1>5, <1>6, <1>8
  <2> QED BY <2>1, <2>2
<1>10. MembersAreOpen' /\ MembersHaveTenants' /\ NoCrew'
  BY DEF SessionInv, MembersAreOpen, MembersHaveTenants, NoCrew
<1>11. GotIsOfTenant'
  BY <1>8 DEF SessionInv, GotIsOfTenant
<1> QED BY <1>9, <1>10, <1>11 DEF SessionInv

\* The answer to the publisher, or its end.
LEMMA PublishEnded ==
  ASSUME SockTypes, SessionInv, NEW i \in 1..Len(fanouts), PublishEnds(i)
  PROVE  SockTypes' /\ SessionInv'
<1>1. fanouts \in Seq(Publishes) /\ fanouts[i] \in Publishes
  BY DEF SessionInv, FansStayInTenant
<1>2. fanouts' = RemoveAt(fanouts, i) /\ wsGot' = wsGot
  BY DEF PublishEnds
<1>3. /\ fanouts' \in Seq(Publishes) /\ Len(fanouts') = Len(fanouts) - 1
      /\ \A j \in 1..Len(fanouts') : \E k \in 1..Len(fanouts) : fanouts'[j] = fanouts[k]
  <2>1. /\ fanouts' \in Seq(Publishes) /\ Len(fanouts') = Len(fanouts) - 1
        /\ \A j \in 1..(Len(fanouts) - 1) : fanouts'[j] = IF j < i THEN fanouts[j] ELSE fanouts[j + 1]
    BY <1>1, <1>2, Removed
  <2>2. Len(fanouts) \in Nat
    BY <1>1
  <2>3. \A j \in 1..(Len(fanouts) - 1) : j \in 1..Len(fanouts) /\ j + 1 \in 1..Len(fanouts)
    BY <2>2
  <2> QED BY <2>1, <2>3
<1>4. \A k \in 1..Len(fanouts) : fanouts[k].left \subseteq Sockets
  <2> SUFFICES ASSUME NEW k \in 1..Len(fanouts) PROVE fanouts[k].left \subseteq Sockets
    OBVIOUS
  <2>1. fanouts[k] \in Publishes
    BY <1>1
  <2> QED BY <2>1 DEF Publishes
<1>5. ASSUME SocketsMoveOn PROVE FansStayInTenant' /\ GotIsOfTenant' /\ NoCrew'
  <2>1. FansStayInTenant'
    BY <1>3, <1>4, <1>5 DEF SessionInv, FansStayInTenant, SocketsMoveOn
  <2>2. GotIsOfTenant'
    BY <1>2, <1>5 DEF SessionInv, GotIsOfTenant, SocketsMoveOn
  <2> QED BY <2>1, <2>2, <1>5 DEF NoCrew, SocketsMoveOn
<1>6. CASE UNCHANGED << wsSock, collabKeys, collabOf, collabSubs >>
  <2>1. SocketsMoveOn
    BY <1>6 DEF SocketsMoveOn, SessionInv, NoCrew
  <2> QED BY <1>5, <1>6, <2>1 DEF SessionInv, SockTypes, MembersAreOpen, MembersHaveTenants
<1>7. ASSUME NEW s \in Sockets, s \in collabKeys, wsSock' = Phase(s, "open"),
             UNCHANGED << collabKeys, collabOf, collabSubs >>
      PROVE  SockTypes' /\ SessionInv'
  <2>1. /\ SockTypes'
        /\ \A r \in Sockets :
             /\ wsSock'[r].phase = IF r = s THEN "open" ELSE wsSock[r].phase
             /\ wsSock'[r].tenant = wsSock[r].tenant /\ wsSock'[r].kind = wsSock[r].kind
    BY <1>7, PhaseChanged DEF Phases
  <2>2. SocketsMoveOn
    BY <2>1 DEF SocketsMoveOn, SessionInv, NoCrew
  <2> QED BY <1>5, <1>7, <2>1, <2>2 DEF SessionInv, MembersAreOpen, MembersHaveTenants
<1>8. ASSUME NEW s \in Sockets, wsSock' = Phase(s, "ended"), CollabForget(s)
      PROVE  SockTypes' /\ SessionInv'
  <2>1. /\ SockTypes'
        /\ \A r \in Sockets :
             /\ wsSock'[r].phase = IF r = s THEN "ended" ELSE wsSock[r].phase
             /\ wsSock'[r].tenant = wsSock[r].tenant /\ wsSock'[r].kind = wsSock[r].kind
    BY <1>8, PhaseChanged DEF Phases
  <2>2. SocketsMoveOn
    BY <2>1 DEF SocketsMoveOn, SessionInv, NoCrew
  <2>3. /\ collabKeys' = collabKeys \ {s} /\ collabSubs' = collabSubs \ {s}
        /\ collabOf' = [collabOf EXCEPT ![s] = << >>]
    BY <1>8 DEF CollabForget
  <2>4. /\ collabOf' \in [Sockets -> Tenants \cup {<< >>}]
        /\ \A r \in Sockets : r # s => collabOf'[r] = collabOf[r]
    BY <2>3 DEF SessionInv
  <2>5. MembersAreOpen' /\ MembersHaveTenants'
    BY <2>1, <2>3, <2>4 DEF SessionInv, MembersAreOpen, MembersHaveTenants
  <2> QED BY <1>5, <2>1, <2>2, <2>3, <2>4, <2>5 DEF SessionInv
<1>9. CASE fanouts[i].from = << >>
  BY <1>6, <1>9 DEF PublishEnds
<1>10. CASE fanouts[i].from # << >>
  <2>1. fanouts[i].from[1] \in Sockets
    BY <1>1, <1>10 DEF Publishes
  <2>2. PICK s : s = fanouts[i].from[1]
    OBVIOUS
  <2>3. \/ s \in collabKeys /\ wsSock' = Phase(s, "open") /\ UNCHANGED << collabKeys, collabOf, collabSubs >>
        \/ wsSock' = Phase(s, "ended") /\ CollabForget(s)
    BY <1>10, <2>2 DEF PublishEnds, Answers
  <2> QED BY <2>1, <2>2, <2>3, <1>7, <1>8
<1> QED BY <1>9, <1>10

\* One send goes to a socket of the publisher's tenant.
LEMMA OneSent ==
  ASSUME SockTypes, SessionInv, NEW i \in 1..Len(fanouts), NEW s \in Sockets, SendOne(i, s)
  PROVE  SockTypes' /\ SessionInv'
<1>1. fanouts \in Seq(Publishes) /\ fanouts[i] \in Publishes
  BY DEF SessionInv, FansStayInTenant
<1>2. PICK f : f = [fanouts[i] EXCEPT !.left = fanouts[i].left \ {s}]
  OBVIOUS
<1>3. f \in Publishes /\ f.tenant = fanouts[i].tenant /\ f.left \subseteq fanouts[i].left
  BY <1>1, <1>2 DEF Publishes
<1>4. /\ fanouts' = [fanouts EXCEPT ![i] = f] /\ s \in fanouts[i].left
      /\ UNCHANGED << wsSock, collabSubs, collabKeys, collabOf >>
  BY <1>1, <1>2 DEF SendOne
<1>5. /\ fanouts' \in Seq(Publishes) /\ Len(fanouts') = Len(fanouts)
      /\ \A j \in 1..Len(fanouts) : fanouts'[j] = IF j = i THEN f ELSE fanouts[j]
  BY <1>1, <1>3, <1>4, ExceptSeq
<1>6. wsSock[s].phase # "new" /\ wsSock[s].tenant = fanouts[i].tenant
  BY <1>4 DEF SessionInv, FansStayInTenant
<1>7. wsGot' = wsGot \/ wsGot' = wsGot \union {<< s, wsSock[s].tenant >>}
  BY <1>6 DEF SendOne
<1>8. GotIsOfTenant'
  BY <1>4, <1>6, <1>7 DEF SessionInv, GotIsOfTenant
<1>9. FansStayInTenant'
  BY <1>3, <1>4, <1>5 DEF SessionInv, FansStayInTenant
<1> QED BY <1>4, <1>8, <1>9 DEF SockTypes, SessionInv, MembersAreOpen, MembersHaveTenants, NoCrew

LEMMA SessionStepKeeps ==
  ASSUME SockTypes, SessionInv, CollabNext
  PROVE  SockTypes' /\ SessionInv'
<1>0. NoCrew /\ MembersAreOpen /\ MembersHaveTenants
  BY DEF SessionInv
<1>1. ASSUME NEW s \in Sockets, Refuse(s)
      PROVE  SockTypes' /\ SessionInv'
  <2>1. wsSock[s].phase = "new" /\ wsSock' = Phase(s, "ended")
        /\ UNCHANGED << collabSubs, collabKeys, collabOf, fanouts, wsGot >>
    BY <1>1 DEF Refuse
  <2>2. /\ SockTypes'
        /\ \A r \in Sockets :
             /\ wsSock'[r].phase = IF r = s THEN "ended" ELSE wsSock[r].phase
             /\ wsSock'[r].tenant = wsSock[r].tenant /\ wsSock'[r].kind = wsSock[r].kind
    BY <2>1, PhaseChanged DEF Phases
  <2>3. SocketsMoveOn
    BY <2>2, <1>0 DEF SocketsMoveOn, NoCrew
  <2>4. s \notin collabSubs /\ s \notin collabKeys
    BY <2>1, <1>0 DEF MembersAreOpen
  <2>5. MembersAreOpen' /\ MembersHaveTenants'
    BY <2>1, <2>2, <2>4, <1>0 DEF MembersAreOpen, MembersHaveTenants
  <2> QED BY <2>1, <2>2, <2>3, <2>5, FansGoOn DEF SessionInv
<1>2. ASSUME NEW s \in Sockets, NetworkDrops(s)
      PROVE  SockTypes' /\ SessionInv'
  <2>1. UNCHANGED << collabSubs, collabKeys, collabOf, fanouts, wsGot >>
    BY <1>2 DEF NetworkDrops
  <2>2. /\ SockTypes'
        /\ \A r \in Sockets :
             /\ wsSock'[r].phase = wsSock[r].phase
             /\ wsSock'[r].tenant = wsSock[r].tenant /\ wsSock'[r].kind = wsSock[r].kind
    BY <1>2, NetworkDropped
  <2>3. SocketsMoveOn
    BY <2>2, <1>0 DEF SocketsMoveOn, NoCrew
  <2>4. MembersAreOpen' /\ MembersHaveTenants'
    BY <2>1, <2>2, <1>0 DEF MembersAreOpen, MembersHaveTenants
  <2> QED BY <2>1, <2>2, <2>3, <2>4, FansGoOn DEF SessionInv
<1>3. ASSUME NEW s \in Sockets, Subscribe(s)
      PROVE  SockTypes' /\ SessionInv'
  <2>1. wsSock[s].phase = "open" /\ UNCHANGED << fanouts, wsGot >>
    BY <1>3 DEF Subscribe
  <2>2. CASE wsSock' = Phase(s, "ended") /\ CollabForget(s)
    BY <2>1, <2>2, ForgottenEnds
  <2>3. CASE collabSubs' = collabSubs \union {s} /\ UNCHANGED << wsSock, collabKeys, collabOf >>
    <3>1. SocketsMoveOn
      BY <2>3, <1>0 DEF SocketsMoveOn, NoCrew
    <3>2. MembersAreOpen'
      BY <2>1, <2>3, <1>0 DEF MembersAreOpen
    <3>3. MembersHaveTenants'
      BY <2>1, <2>3, <1>0 DEF MembersHaveTenants
    <3> QED BY <2>1, <2>3, <3>1, <3>2, <3>3, FansGoOn DEF SockTypes, SessionInv
  <2> QED BY <1>3, <2>2, <2>3 DEF Subscribe
<1>4. ASSUME NEW s \in Sockets, Unsubscribe(s)
      PROVE  SockTypes' /\ SessionInv'
  <2>1. collabSubs' = collabSubs \ {s} /\ UNCHANGED << wsSock, collabKeys, collabOf, fanouts, wsGot >>
    BY <1>4 DEF Unsubscribe
  <2>2. SocketsMoveOn
    BY <2>1, <1>0 DEF SocketsMoveOn, NoCrew
  <2>3. MembersAreOpen' /\ MembersHaveTenants'
    BY <2>1, <1>0 DEF MembersAreOpen, MembersHaveTenants
  <2> QED BY <2>1, <2>2, <2>3, FansGoOn DEF SockTypes, SessionInv
<1>5. ASSUME NEW s \in Sockets, Publish(s)
      PROVE  SockTypes' /\ SessionInv'
  <2>1. /\ wsSock[s].phase = "open" /\ wsSock' = Phase(s, "publishing")
        /\ StartPublish(wsSock[s].tenant, wsSock[s].chat, << s >>)
        /\ UNCHANGED << collabSubs, collabKeys, collabOf, wsGot >>
    BY <1>5 DEF Publish
  <2>2. /\ SockTypes'
        /\ \A r \in Sockets :
             /\ wsSock'[r].phase = IF r = s THEN "publishing" ELSE wsSock[r].phase
             /\ wsSock'[r].tenant = wsSock[r].tenant /\ wsSock'[r].kind = wsSock[r].kind
    BY <2>1, PhaseChanged DEF Phases
  <2>3. wsSock[s].tenant \in Tenants \cup {<< >>}
    BY DEF SockTypes, SocketRecords
  <2>4. \A r \in Sockets :
          /\ wsSock'[r].phase = wsSock[r].phase \/ {wsSock[r].phase, wsSock'[r].phase} = {"open", "publishing"}
          /\ wsSock'[r].tenant = wsSock[r].tenant /\ wsSock'[r].kind = wsSock[r].kind
    BY <2>1, <2>2
  <2> QED BY <2>1, <2>2, <2>3, <2>4, PublishBegins
<1>6. ASSUME NEW s \in Sockets, CollabGone(s)
      PROVE  SockTypes' /\ SessionInv'
  BY <1>6, ForgottenEnds DEF CollabGone
<1>7. ASSUME NEW s \in Sockets, NEW tenant \in Tenants, NEW chat \in Chats, CollabConnect(s, tenant, chat)
      PROVE  SockTypes' /\ SessionInv'
  <2>1. /\ wsSock[s].phase = "new" /\ wsSock' = Accepted(s, tenant, chat, "collab", "hello")
        /\ collabOf' = [collabOf EXCEPT ![s] = tenant]
        /\ UNCHANGED << collabSubs, collabKeys, fanouts, wsGot >>
    BY <1>7 DEF CollabConnect
  <2>2. /\ SockTypes'
        /\ wsSock'[s].phase = "hello" /\ wsSock'[s].tenant = tenant /\ wsSock'[s].kind = "collab"
        /\ \A r \in Sockets : r # s => wsSock'[r] = wsSock[r]
    BY <2>1, SocketAccepted DEF Phases
  <2>3. SocketsMoveOn
    BY <2>1, <2>2, <1>0 DEF SocketsMoveOn, NoCrew
  <2>4. /\ collabOf' \in [Sockets -> Tenants \cup {<< >>}] /\ collabOf'[s] = tenant
        /\ \A r \in Sockets : r # s => collabOf'[r] = collabOf[r]
    BY <2>1 DEF SessionInv
  <2>5. s \notin collabSubs /\ s \notin collabKeys
    BY <2>1, <1>0 DEF MembersAreOpen
  <2>6. MembersAreOpen' /\ MembersHaveTenants'
    BY <2>1, <2>2, <2>4, <2>5, <1>0 DEF MembersAreOpen, MembersHaveTenants
  <2> QED BY <2>1, <2>2, <2>3, <2>4, <2>6, FansGoOn DEF SessionInv
<1>8. ASSUME NEW s \in Sockets, NEW b \in BOOLEAN, KeyExchanged(s, b)
      PROVE  SockTypes' /\ SessionInv'
  <2>1. /\ wsSock[s].phase = "hello" /\ wsSock' = Phase(s, "open")
        /\ collabKeys' \subseteq collabKeys \union {s}
        /\ UNCHANGED << collabSubs, collabOf, fanouts, wsGot >>
    BY <1>8 DEF KeyExchanged
  <2>2. /\ SockTypes'
        /\ \A r \in Sockets :
             /\ wsSock'[r].phase = IF r = s THEN "open" ELSE wsSock[r].phase
             /\ wsSock'[r].tenant = wsSock[r].tenant /\ wsSock'[r].kind = wsSock[r].kind
    BY <2>1, PhaseChanged DEF Phases
  <2>3. SocketsMoveOn
    BY <2>2, <1>0 DEF SocketsMoveOn, NoCrew
  <2>4. MembersAreOpen' /\ MembersHaveTenants'
    BY <2>1, <2>2, <1>0 DEF MembersAreOpen, MembersHaveTenants
  <2> QED BY <2>1, <2>2, <2>3, <2>4, FansGoOn DEF SessionInv
<1>9. ASSUME NEW s \in Sockets, NEW b \in BOOLEAN, KeyExchangeFails(s, b)
      PROVE  SockTypes' /\ SessionInv'
  <2>1. wsSock[s].phase = "hello" /\ wsSock' = Phase(s, "ended") /\ UNCHANGED << fanouts, wsGot >>
    BY <1>9 DEF KeyExchangeFails
  <2>2. CASE CollabForget(s)
    BY <2>1, <2>2, ForgottenEnds
  <2>3. CASE UNCHANGED << collabKeys, collabOf, collabSubs >>
    <3>1. /\ SockTypes'
          /\ \A r \in Sockets :
               /\ wsSock'[r].phase = IF r = s THEN "ended" ELSE wsSock[r].phase
               /\ wsSock'[r].tenant = wsSock[r].tenant /\ wsSock'[r].kind = wsSock[r].kind
      BY <2>1, PhaseChanged DEF Phases
    <3>2. SocketsMoveOn
      BY <3>1, <1>0 DEF SocketsMoveOn, NoCrew
    <3>3. s \notin collabSubs /\ s \notin collabKeys
      BY <2>1, <1>0 DEF MembersAreOpen
    <3>4. MembersAreOpen' /\ MembersHaveTenants'
      BY <2>1, <2>3, <3>1, <3>3, <1>0 DEF MembersAreOpen, MembersHaveTenants
    <3> QED BY <2>1, <2>3, <3>1, <3>2, <3>4, FansGoOn DEF SessionInv
  <2> QED BY <1>9, <2>2, <2>3 DEF KeyExchangeFails
<1>10. ASSUME NEW tenant \in Tenants, NEW chat \in Chats, ServerPublish(tenant, chat)
       PROVE  SockTypes' /\ SessionInv'
  BY <1>10, PublishBegins DEF ServerPublish, SockTypes
<1> QED
  BY <1>1, <1>2, <1>3, <1>4, <1>5, <1>6, <1>7, <1>8, <1>9, <1>10, PublishEnded, OneSent DEF CollabNext

LEMMA SessionsAreTrue ==
  ASSUME SockTypes, SessionInv
  PROVE  TenantsStayApart /\ EndedSocketsAreForgotten /\ ListenersStayListed /\ DashboardsHearOnce
<1>1. TenantsStayApart
  BY DEF SessionInv, GotIsOfTenant, TenantsStayApart
<1>2. EndedSocketsAreForgotten
  BY DEF SessionInv, MembersAreOpen, EndedSocketsAreForgotten
<1>3. ListenersStayListed
  BY DEF SessionInv, NoCrew, ListenersStayListed
<1>4. \A i \in 1..Len(fanouts) : "list" \notin DOMAIN fanouts[i]
  <2> SUFFICES ASSUME NEW i \in 1..Len(fanouts) PROVE "list" \notin DOMAIN fanouts[i]
    OBVIOUS
  <2>1. fanouts[i] \in Publishes
    BY DEF SessionInv, FansStayInTenant
  <2> QED BY <2>1 DEF Publishes
<1> QED BY <1>1, <1>2, <1>3, <1>4 DEF DashboardsHearOnce

\* The crew: a broadcast's sender is at it, and its dead are gone.
CrewCasts == [sender : Sockets, snap : SUBSET Sockets, left : SUBSET Sockets, dead : SUBSET Sockets]
NobodyPublished == collabSubs = {} /\ collabKeys = {} /\ wsGot = {}
SendersAreBusy ==
    /\ fanouts \in Seq(CrewCasts)
    /\ \A i \in 1..Len(fanouts) : wsSock[fanouts[i].sender].phase = "publishing"
    /\ \A i, j \in 1..Len(fanouts) : fanouts[i].sender = fanouts[j].sender => i = j
DeadAreGone ==
    /\ \A s \in Sockets : wsSock[s].phase = "new" => wsSock[s].alive
    /\ \A i \in 1..Len(fanouts) : \A s \in fanouts[i].dead : ~wsSock[s].alive \/ wsSock[s].phase = "ended"
CrewInv ==
    /\ NobodyPublished /\ crewList \subseteq Sockets
    /\ SendersAreBusy /\ DeadAreGone /\ ListenersStayListed

LEMMA CrewStarts ==
  ASSUME CollabInit
  PROVE  CrewInv
<1>1. NewSocket.kind = "none" /\ NewSocket.alive
  BY DEF NewSocket
<1>2. ListenersStayListed /\ \A s \in Sockets : wsSock[s].alive
  BY <1>1 DEF CollabInit, ListenersStayListed
<1>3. fanouts \in Seq(CrewCasts) /\ Len(fanouts) = 0
  BY DEF CollabInit
<1> QED BY <1>2, <1>3 DEF CollabInit, CrewInv, NobodyPublished, SendersAreBusy, DeadAreGone

LEMMA CrewTypes ==
  ASSUME CrewInv, NEW i \in 1..Len(fanouts)
  PROVE  fanouts[i] \in CrewCasts /\ fanouts[i].sender \in Sockets /\ fanouts[i].dead \subseteq Sockets
<1>1. fanouts[i] \in CrewCasts
  BY DEF CrewInv, SendersAreBusy
<1> QED BY <1>1 DEF CrewCasts

LEMMA CrewStepKeeps ==
  ASSUME SockTypes, CrewInv, CrewNext
  PROVE  SockTypes' /\ CrewInv'
<1>0. NobodyPublished /\ SendersAreBusy /\ DeadAreGone /\ ListenersStayListed /\ fanouts \in Seq(CrewCasts)
  BY DEF CrewInv, SendersAreBusy
<1>1. ASSUME NEW s \in Sockets, NetworkDrops(s)
      PROVE  SockTypes' /\ CrewInv'
  <2>1. UNCHANGED << collabSubs, collabKeys, crewList, fanouts, wsGot >>
    BY <1>1 DEF NetworkDrops
  <2>2. /\ SockTypes'
        /\ \A r \in Sockets :
             /\ wsSock'[r].phase = wsSock[r].phase /\ wsSock'[r].kind = wsSock[r].kind
             /\ wsSock'[r].alive => wsSock[r].alive
             /\ wsSock[r].phase = "new" => wsSock'[r].alive = wsSock[r].alive
    BY <1>1, NetworkDropped
  <2>3. SendersAreBusy' /\ DeadAreGone'
    BY <2>1, <2>2, <1>0, CrewTypes DEF SendersAreBusy, DeadAreGone
  <2>4. ListenersStayListed'
    BY <2>1, <2>2, <1>0 DEF ListenersStayListed
  <2> QED BY <2>1, <2>2, <2>3, <2>4 DEF CrewInv, NobodyPublished
<1>2. ASSUME NEW s \in Sockets, CrewConnect(s)
      PROVE  SockTypes' /\ CrewInv'
  <2>1. /\ wsSock[s].phase = "new" /\ crewList' = crewList \union {s}
        /\ UNCHANGED << collabSubs, collabKeys, fanouts, wsGot >>
    BY <1>2 DEF CrewConnect
  <2>2. PICK tenant \in Tenants : wsSock' = Accepted(s, tenant, Global, "crew", "open")
    BY <1>2 DEF CrewConnect
  <2>3. SockTypes' /\ wsSock'[s].phase = "open" /\ \A r \in Sockets : r # s => wsSock'[r] = wsSock[r]
    BY <2>2, SocketAccepted, CollabConstants DEF Phases
  <2>4. SendersAreBusy'
    BY <2>1, <2>3, <1>0, CrewTypes DEF SendersAreBusy
  <2>5. DeadAreGone'
    <3>0. \A r \in Sockets : wsSock'[r].phase = "new" => wsSock'[r].alive
      BY <2>3, <1>0 DEF DeadAreGone
    <3> SUFFICES ASSUME NEW i \in 1..Len(fanouts), NEW r \in fanouts[i].dead
                 PROVE  ~wsSock'[r].alive \/ wsSock'[r].phase = "ended"
      BY <2>1, <3>0 DEF DeadAreGone
    <3>1. r \in Sockets /\ (~wsSock[r].alive \/ wsSock[r].phase = "ended")
      BY <1>0, CrewTypes DEF DeadAreGone
    <3>2. CASE r # s
      BY <2>3, <3>1, <3>2
    <3>3. CASE r = s
      BY <3>1, <3>3, <2>1, <1>0 DEF DeadAreGone
    <3> QED BY <3>2, <3>3
  <2>6. ListenersStayListed'
    BY <2>1, <2>3, <1>0 DEF ListenersStayListed
  <2> QED BY <2>1, <2>3, <2>4, <2>5, <2>6 DEF CrewInv, NobodyPublished
<1>3. ASSUME NEW s \in Sockets, CrewGone(s)
      PROVE  SockTypes' /\ CrewInv'
  <2>1. /\ wsSock[s].phase = "open" /\ wsSock' = Phase(s, "ended") /\ crewList' = crewList \ {s}
        /\ UNCHANGED << collabSubs, collabKeys, fanouts, wsGot >>
    BY <1>3 DEF CrewGone
  <2>2. /\ SockTypes'
        /\ \A r \in Sockets :
             /\ wsSock'[r].phase = IF r = s THEN "ended" ELSE wsSock[r].phase
             /\ wsSock'[r].kind = wsSock[r].kind /\ wsSock'[r].alive = wsSock[r].alive
    BY <2>1, PhaseChanged DEF Phases
  <2>3. SendersAreBusy'
    BY <2>1, <2>2, <1>0, CrewTypes DEF SendersAreBusy
  <2>4. DeadAreGone'
    BY <2>1, <2>2, <1>0, CrewTypes DEF DeadAreGone
  <2>5. ListenersStayListed'
    BY <2>1, <2>2, <1>0 DEF ListenersStayListed
  <2> QED BY <2>1, <2>2, <2>3, <2>4, <2>5 DEF CrewInv, NobodyPublished
<1>4. ASSUME NEW s \in Sockets, CrewBroadcast(s)
      PROVE  SockTypes' /\ CrewInv'
  <2>1. PICK f : f = [sender |-> s, snap |-> crewList, left |-> crewList \ {s}, dead |-> {}]
    OBVIOUS
  <2>2. f \in CrewCasts /\ f.sender = s /\ f.dead = {}
    BY <2>1 DEF CrewCasts, CrewInv
  <2>3. /\ wsSock[s].phase = "open" /\ wsSock' = Phase(s, "publishing") /\ fanouts' = Append(fanouts, f)
        /\ UNCHANGED << collabSubs, collabKeys, crewList, wsGot >>
    BY <1>4, <2>1 DEF CrewBroadcast
  <2>4. /\ SockTypes'
        /\ \A r \in Sockets :
             /\ wsSock'[r].phase = IF r = s THEN "publishing" ELSE wsSock[r].phase
             /\ wsSock'[r].kind = wsSock[r].kind /\ wsSock'[r].alive = wsSock[r].alive
    BY <2>3, PhaseChanged DEF Phases
  <2>5. /\ fanouts' \in Seq(CrewCasts) /\ Len(fanouts') = Len(fanouts) + 1 /\ Len(fanouts) \in Nat
        /\ \A i \in 1..Len(fanouts) : fanouts'[i] = fanouts[i]
        /\ fanouts'[Len(fanouts) + 1] = f
    BY <1>0, <2>2, <2>3, AppendProperties
  <2>6. \A i \in 1..Len(fanouts') : i \in 1..Len(fanouts) \/ i = Len(fanouts) + 1
    BY <2>5
  <2>7. \A i \in 1..Len(fanouts) : fanouts[i].sender # s
    BY <2>3, <1>0 DEF SendersAreBusy
  <2>8. \A i \in 1..Len(fanouts') : fanouts'[i].sender \in Sockets /\ wsSock'[fanouts'[i].sender].phase = "publishing"
    BY <2>2, <2>4, <2>5, <2>6, <2>7, <1>0, CrewTypes DEF SendersAreBusy
  <2>9. \A i, j \in 1..Len(fanouts') : fanouts'[i].sender = fanouts'[j].sender => i = j
    BY <2>2, <2>5, <2>6, <2>7, <1>0 DEF SendersAreBusy
  <2>10. DeadAreGone'
    BY <2>2, <2>3, <2>4, <2>5, <2>6, <1>0, CrewTypes DEF DeadAreGone
  <2>11. ListenersStayListed'
    BY <2>3, <2>4, <1>0 DEF ListenersStayListed
  <2> QED BY <2>3, <2>4, <2>5, <2>8, <2>9, <2>10, <2>11 DEF CrewInv, NobodyPublished, SendersAreBusy
<1>5. ASSUME NEW i \in 1..Len(fanouts), NEW s \in Sockets, CrewSend(i, s)
      PROVE  SockTypes' /\ CrewInv'
  <2>1. PICK d : d = IF wsSock[s].alive /\ wsSock[s].phase # "ended" THEN fanouts[i].dead
                     ELSE fanouts[i].dead \union {s}
    OBVIOUS
  <2>2. d \subseteq Sockets /\ \A r \in d : ~wsSock[r].alive \/ wsSock[r].phase = "ended"
    BY <2>1, <1>0, CrewTypes DEF DeadAreGone
  <2>3. PICK f : f = [fanouts[i] EXCEPT !.left = fanouts[i].left \ {s}, !.dead = d]
    OBVIOUS
  <2>4. fanouts[i] \in CrewCasts
    BY CrewTypes
  <2>5. f \in CrewCasts /\ f.sender = fanouts[i].sender /\ f.dead = d
    BY <2>2, <2>3, <2>4 DEF CrewCasts
  <2>6. fanouts' = [fanouts EXCEPT ![i] = f]
    BY <1>0, <1>5, <2>1, <2>3, <2>4 DEF CrewSend, CrewCasts
  <2>7. UNCHANGED << wsSock, collabSubs, collabKeys, crewList, wsGot >>
    BY <1>5 DEF CrewSend
  <2>8. /\ fanouts' \in Seq(CrewCasts) /\ Len(fanouts') = Len(fanouts)
        /\ \A j \in 1..Len(fanouts) : fanouts'[j] = IF j = i THEN f ELSE fanouts[j]
    BY <1>0, <2>5, <2>6, ExceptSeq
  <2>9. \A j \in 1..Len(fanouts) : fanouts'[j].sender = fanouts[j].sender
    BY <2>5, <2>8
  <2>10. SendersAreBusy'
    BY <2>7, <2>8, <2>9, <1>0 DEF SendersAreBusy
  <2>11. DeadAreGone'
    BY <2>2, <2>5, <2>7, <2>8, <1>0 DEF DeadAreGone
  <2> QED BY <2>7, <2>10, <2>11, <1>0 DEF SockTypes, CrewInv, NobodyPublished, ListenersStayListed
<1>6. ASSUME NEW i \in 1..Len(fanouts), CrewBroadcastEnds(i)
      PROVE  SockTypes' /\ CrewInv'
  <2>1. PICK s : s = fanouts[i].sender
    OBVIOUS
  <2>2. s \in Sockets /\ wsSock[s].phase = "publishing"
    BY <2>1, <1>0, CrewTypes DEF SendersAreBusy
  <2>3. /\ crewList' = (IF fanouts[i].dead = {} THEN crewList ELSE crewList \ fanouts[i].dead)
        /\ wsSock' = Phase(s, "open") /\ fanouts' = RemoveAt(fanouts, i)
        /\ UNCHANGED << collabSubs, collabKeys, wsGot >>
    BY <1>6, <2>1 DEF CrewBroadcastEnds, Reaped
  <2>4. /\ SockTypes'
        /\ \A r \in Sockets :
             /\ wsSock'[r].phase = IF r = s THEN "open" ELSE wsSock[r].phase
             /\ wsSock'[r].kind = wsSock[r].kind /\ wsSock'[r].alive = wsSock[r].alive
    BY <2>2, <2>3, PhaseChanged DEF Phases
  <2>5. /\ fanouts' \in Seq(CrewCasts) /\ Len(fanouts') = Len(fanouts) - 1 /\ Len(fanouts) \in Nat
        /\ \A j \in 1..(Len(fanouts) - 1) : fanouts'[j] = IF j < i THEN fanouts[j] ELSE fanouts[j + 1]
    BY <1>0, <2>3, Removed
  <2>6. PICK k : k = [j \in 1..(Len(fanouts) - 1) |-> IF j < i THEN j ELSE j + 1]
    OBVIOUS
  <2>7. /\ \A j \in 1..Len(fanouts') : k[j] \in 1..Len(fanouts) /\ k[j] # i
        /\ \A j, l \in 1..Len(fanouts') : k[j] = k[l] => j = l
    BY <2>5, <2>6
  <2>8. \A j \in 1..Len(fanouts') : fanouts'[j] = fanouts[k[j]]
    BY <2>5, <2>6
  <2>9. \A j \in 1..Len(fanouts') : fanouts'[j].sender # s
    BY <2>1, <2>7, <2>8, <1>0 DEF SendersAreBusy
  <2>10. SendersAreBusy'
    <3>1. \A j \in 1..Len(fanouts') : wsSock'[fanouts'[j].sender].phase = "publishing"
      BY <2>4, <2>7, <2>8, <2>9, <1>0, CrewTypes DEF SendersAreBusy
    <3>2. \A j, l \in 1..Len(fanouts') : fanouts'[j].sender = fanouts'[l].sender => j = l
      BY <2>7, <2>8, <1>0 DEF SendersAreBusy
    <3> QED BY <3>1, <3>2, <2>5 DEF SendersAreBusy
  <2>11. \A r \in Sockets : ~wsSock[r].alive \/ wsSock[r].phase = "ended"
                              => ~wsSock'[r].alive \/ wsSock'[r].phase = "ended"
    BY <2>2, <2>4
  <2>12. DeadAreGone'
    BY <2>4, <2>7, <2>8, <2>11, <1>0, CrewTypes DEF DeadAreGone
  <2>13. \A r \in crewList : r \notin crewList' => ~wsSock[r].alive \/ wsSock[r].phase = "ended"
    BY <2>3, <1>0 DEF DeadAreGone
  <2>14. ListenersStayListed'
    <3> SUFFICES ASSUME NEW r \in Sockets, wsSock'[r].kind = "crew", wsSock'[r].alive,
                        wsSock'[r].phase \in {"open", "publishing"}
                 PROVE  r \in crewList'
      BY DEF ListenersStayListed
    <3>1. wsSock[r].kind = "crew" /\ wsSock[r].alive /\ wsSock[r].phase \in {"open", "publishing"}
      BY <2>2, <2>4
    <3>2. r \in crewList
      BY <3>1, <1>0 DEF ListenersStayListed
    <3> QED BY <3>1, <3>2, <2>13
  <2> QED BY <2>3, <2>4, <2>10, <2>12, <2>14 DEF CrewInv, NobodyPublished
<1> QED BY <1>1, <1>2, <1>3, <1>4, <1>5, <1>6 DEF CrewNext

LEMMA CrewIsTrue ==
  ASSUME CrewInv
  PROVE  TenantsStayApart /\ EndedSocketsAreForgotten /\ ListenersStayListed /\ DashboardsHearOnce
<1>1. \A i \in 1..Len(fanouts) : "list" \notin DOMAIN fanouts[i]
  <2> SUFFICES ASSUME NEW i \in 1..Len(fanouts) PROVE "list" \notin DOMAIN fanouts[i]
    OBVIOUS
  <2>1. fanouts[i] \in CrewCasts
    BY CrewTypes
  <2> QED BY <2>1 DEF CrewCasts
<1> QED BY <1>1 DEF CrewInv, NobodyPublished, TenantsStayApart, EndedSocketsAreForgotten, DashboardsHearOnce

\* The dashboard: a broadcast has sent to the tenant's sockets of the part of
\* its list it has walked, to each once, and who is due is in the list.
DashCasts == [list : Seq(Sockets), pos : Nat, shared : BOOLEAN, tenant : Tenants,
              due : SUBSET Sockets, sent : Seq(Sockets)]
Distinct(q) == \A a, b \in 1..Len(q) : q[a] = q[b] => a = b
AllConnected(q) == \A a \in 1..Len(q) : wsSock[q[a]].phase # "new"
Walks(f) ==
    /\ f.pos >= 1 /\ f.pos <= Len(f.list) + 1
    /\ Distinct(f.list) /\ AllConnected(f.list) /\ Distinct(f.sent)
    /\ \A b \in 1..Len(f.sent) : \E a \in 1..Len(f.list) : a < f.pos /\ f.sent[b] = f.list[a]
    /\ \A a \in 1..Len(f.list) : a < f.pos /\ wsSock[f.list[a]].tenant = f.tenant
                                   => \E b \in 1..Len(f.sent) : f.sent[b] = f.list[a]
    /\ \A s \in f.due : wsSock[s].tenant = f.tenant /\ \E a \in 1..Len(f.list) : f.list[a] = s
DashInv ==
    /\ NobodyPublished /\ NoCrew
    /\ dashList \in Seq(Sockets) /\ Distinct(dashList) /\ AllConnected(dashList)
    /\ fanouts \in Seq(DashCasts) /\ \A i \in 1..Len(fanouts) : Walks(fanouts[i])

LEMMA DashStarts ==
  ASSUME CollabInit
  PROVE  DashInv
<1>1. NewSocket.kind = "none"
  BY DEF NewSocket
<1>2. NoCrew
  BY <1>1 DEF CollabInit, NoCrew
<1>3. fanouts \in Seq(DashCasts) /\ Len(fanouts) = 0 /\ dashList \in Seq(Sockets) /\ Len(dashList) = 0
  BY DEF CollabInit
<1> QED BY <1>2, <1>3 DEF CollabInit, DashInv, NobodyPublished, Distinct, AllConnected

\* The list without a socket.
LEMMA DistinctWithout ==
  ASSUME NEW q \in Seq(Sockets), Distinct(q), NEW s
  PROVE  /\ Without(q, s) \in Seq(Sockets) /\ Distinct(Without(q, s))
         /\ \A a \in 1..Len(Without(q, s)) : \E b \in 1..Len(q) : Without(q, s)[a] = q[b]
<1>1. CASE ~\E i \in 1..Len(q) : q[i] = s
  <2>1. Without(q, s) = q
    BY <1>1 DEF Without, RemoveFirst
  <2> QED BY <2>1
<1>2. CASE \E i \in 1..Len(q) : q[i] = s
  <2>1. PICK i \in 1..Len(q) : q[i] = s
    BY <1>2
  <2>2. {k \in 1..Len(q) : q[k] = s} = {i}
    BY <2>1 DEF Distinct
  <2>3. Min({i}) = i
    BY <2>1 DEF Min
  <2>4. Without(q, s) = RemoveAt(q, i)
    BY <1>2, <2>2, <2>3 DEF Without, RemoveFirst, SelectInSeq
  <2>5. PICK w : w = Without(q, s)
    OBVIOUS
  <2>6. /\ w \in Seq(Sockets) /\ Len(w) = Len(q) - 1 /\ Len(q) \in Nat
        /\ \A j \in 1..(Len(q) - 1) : w[j] = IF j < i THEN q[j] ELSE q[j + 1]
    BY <2>4, <2>5, Removed
  <2>7. PICK k : k = [j \in 1..(Len(q) - 1) |-> IF j < i THEN j ELSE j + 1]
    OBVIOUS
  <2>8. /\ \A j \in 1..Len(w) : k[j] \in 1..Len(q)
        /\ \A j, l \in 1..Len(w) : k[j] = k[l] => j = l
    BY <2>6, <2>7
  <2>9. \A j \in 1..Len(w) : w[j] = q[k[j]]
    BY <2>6, <2>7
  <2>10. Distinct(w)
    BY <2>8, <2>9 DEF Distinct
  <2>11. \A a \in 1..Len(w) : \E b \in 1..Len(q) : w[a] = q[b]
    BY <2>8, <2>9
  <2> QED BY <2>5, <2>6, <2>10, <2>11
<1> QED BY <1>1, <1>2

\* A distinct sequence has as many elements as places.
LEMMA DistinctCounts ==
  ASSUME NEW S, NEW q \in Seq(S), Distinct(q)
  PROVE  Cardinality(Range(q)) = Len(q)
<1>1. Len(q) \in Nat /\ DOMAIN q = 1..Len(q)
  OBVIOUS
<1>2. q \in [1..Len(q) -> Range(q)]
  BY <1>1 DEF Range
<1>3. q \in Injection(1..Len(q), Range(q))
  BY <1>1, <1>2 DEF Injection, IsInjective, Distinct
<1>4. q \in Surjection(1..Len(q), Range(q))
  BY <1>1, <1>2 DEF Surjection, Range
<1>5. ExistsBijection(1..Len(q), Range(q))
  BY <1>3, <1>4 DEF ExistsBijection, Bijection
<1>6. IsFiniteSet(1..Len(q)) /\ Cardinality(1..Len(q)) = Len(q)
  BY <1>1, FS_Interval
<1> QED BY <1>5, <1>6, FS_Bijection

\* A walk whose sockets stay accepted, with fewer due and the rest as it was.
LEMMA WalkGoesOn ==
  ASSUME NEW f \in DashCasts, Walks(f), NEW g \in DashCasts,
         g.list = f.list, g.pos = f.pos, g.tenant = f.tenant, g.sent = f.sent, g.due \subseteq f.due,
         \A r \in Sockets : wsSock[r].phase # "new" => /\ wsSock'[r].phase # "new"
                                                       /\ wsSock'[r].tenant = wsSock[r].tenant
  PROVE  Walks(g)'
<1>1. f.list \in Seq(Sockets) /\ \A a \in 1..Len(f.list) : f.list[a] \in Sockets /\ wsSock[f.list[a]].phase # "new"
  BY DEF DashCasts, Walks, AllConnected
<1>2. \A a \in 1..Len(f.list) : wsSock'[f.list[a]].phase # "new" /\ wsSock'[f.list[a]].tenant = wsSock[f.list[a]].tenant
  BY <1>1
<1>3. AllConnected(g.list)'
  BY <1>2 DEF AllConnected
<1>4. \A s \in g.due : wsSock'[s].tenant = g.tenant /\ \E a \in 1..Len(g.list) : g.list[a] = s
  BY <1>2 DEF Walks
<1>5. \A a \in 1..Len(g.list) : a < g.pos /\ wsSock'[g.list[a]].tenant = g.tenant
                                   => \E b \in 1..Len(g.sent) : g.sent[b] = g.list[a]
  BY <1>2 DEF Walks
<1>6. /\ g.pos >= 1 /\ g.pos <= Len(g.list) + 1 /\ Distinct(g.list) /\ Distinct(g.sent)
      /\ \A b \in 1..Len(g.sent) : \E a \in 1..Len(g.list) : a < g.pos /\ g.sent[b] = g.list[a]
  BY DEF Walks
<1> QED BY <1>3, <1>4, <1>5, <1>6 DEF Walks, Distinct

\* A walk whose list gets a new socket behind.
LEMMA WalkGrows ==
  ASSUME NEW f \in DashCasts, Walks(f), NEW s \in Sockets, wsSock[s].phase = "new", wsSock'[s].phase # "new",
         NEW g \in DashCasts, g.list = Append(f.list, s), g.pos = f.pos, g.tenant = f.tenant,
         g.sent = f.sent, g.due = f.due,
         \A r \in Sockets : r # s => wsSock'[r] = wsSock[r]
  PROVE  Walks(g)'
<1>1. f.list \in Seq(Sockets) /\ Len(f.list) \in Nat /\ f.pos \in Nat
      /\ \A a \in 1..Len(f.list) : f.list[a] \in Sockets /\ f.list[a] # s
  BY DEF DashCasts, Walks, AllConnected
<1>2. /\ Len(g.list) = Len(f.list) + 1 /\ g.list[Len(f.list) + 1] = s
      /\ \A a \in 1..Len(f.list) : g.list[a] = f.list[a]
  BY <1>1, AppendProperties
<1>3. \A a \in 1..Len(g.list) : a \in 1..Len(f.list) \/ a = Len(f.list) + 1
  BY <1>1, <1>2
<1>4. \A a \in 1..Len(f.list) : a \in 1..Len(g.list) /\ wsSock'[g.list[a]] = wsSock[f.list[a]]
  BY <1>1, <1>2
<1>5. Distinct(g.list)
  BY <1>1, <1>2, <1>3 DEF Walks, Distinct
<1>6. AllConnected(g.list)'
  BY <1>2, <1>3, <1>4 DEF Walks, AllConnected
<1>7. g.pos >= 1 /\ g.pos <= Len(g.list) + 1 /\ \A a \in 1..Len(g.list) : a < g.pos => a \in 1..Len(f.list)
  BY <1>1, <1>2, <1>3 DEF Walks
<1>8. \A b \in 1..Len(g.sent) : \E a \in 1..Len(g.list) : a < g.pos /\ g.sent[b] = g.list[a]
  BY <1>2, <1>4 DEF Walks
<1>9. \A a \in 1..Len(g.list) : a < g.pos /\ wsSock'[g.list[a]].tenant = g.tenant
                                   => \E b \in 1..Len(g.sent) : g.sent[b] = g.list[a]
  BY <1>2, <1>4, <1>7 DEF Walks
<1>10. \A r \in g.due : wsSock'[r].tenant = g.tenant /\ \E a \in 1..Len(g.list) : g.list[a] = r
  BY <1>1, <1>2, <1>4 DEF Walks
<1> QED BY <1>5, <1>6, <1>7, <1>8, <1>9, <1>10 DEF Walks, Distinct

\* One step of a walk.
LEMMA WalkSteps ==
  ASSUME NEW f \in DashCasts, Walks(f), f.pos <= Len(f.list), NEW g \in DashCasts,
         g.list = f.list, g.pos = f.pos + 1, g.tenant = f.tenant, g.due = f.due,
         g.sent = IF wsSock[f.list[f.pos]].tenant = f.tenant THEN Append(f.sent, f.list[f.pos]) ELSE f.sent
  PROVE  Walks(g)
<1>1. /\ f.list \in Seq(Sockets) /\ Len(f.list) \in Nat /\ f.pos \in 1..Len(f.list)
      /\ f.sent \in Seq(Sockets) /\ Len(f.sent) \in Nat /\ f.list[f.pos] \in Sockets
  BY DEF DashCasts, Walks
<1>2. g.pos >= 1 /\ g.pos <= Len(g.list) + 1
      /\ \A a \in 1..Len(f.list) : a < g.pos <=> a < f.pos \/ a = f.pos
  BY <1>1
<1>3. \A s \in g.due : wsSock[s].tenant = g.tenant /\ \E a \in 1..Len(g.list) : g.list[a] = s
  BY DEF Walks
<1>4. CASE wsSock[f.list[f.pos]].tenant # f.tenant
  <2>1. g.sent = f.sent
    BY <1>4
  <2>2. \A b \in 1..Len(g.sent) : \E a \in 1..Len(g.list) : a < g.pos /\ g.sent[b] = g.list[a]
    BY <1>1, <1>2, <2>1 DEF Walks
  <2>3. \A a \in 1..Len(g.list) : a < g.pos /\ wsSock[g.list[a]].tenant = g.tenant
                                   => \E b \in 1..Len(g.sent) : g.sent[b] = g.list[a]
    BY <1>2, <1>4, <2>1 DEF Walks
  <2> QED BY <1>2, <1>3, <2>1, <2>2, <2>3 DEF Walks
<1>5. CASE wsSock[f.list[f.pos]].tenant = f.tenant
  <2>1. g.sent = Append(f.sent, f.list[f.pos])
    BY <1>5
  <2>2. /\ Len(g.sent) = Len(f.sent) + 1 /\ g.sent[Len(f.sent) + 1] = f.list[f.pos]
        /\ \A b \in 1..Len(f.sent) : g.sent[b] = f.sent[b]
    BY <1>1, <2>1, AppendProperties
  <2>3. \A b \in 1..Len(g.sent) : b \in 1..Len(f.sent) \/ b = Len(f.sent) + 1
    BY <1>1, <2>2
  <2>4. \A b \in 1..Len(f.sent) : b \in 1..Len(g.sent) /\ f.sent[b] # f.list[f.pos]
    BY <1>1, <2>2 DEF Walks, Distinct
  <2>5. Distinct(g.sent)
    BY <2>2, <2>3, <2>4 DEF Walks, Distinct
  <2>6. \A b \in 1..Len(g.sent) : \E a \in 1..Len(g.list) : a < g.pos /\ g.sent[b] = g.list[a]
    BY <1>1, <1>2, <2>2, <2>3 DEF Walks
  <2>7. Len(f.sent) + 1 \in 1..Len(g.sent)
    BY <1>1, <2>2
  <2>8. \A a \in 1..Len(g.list) : a < g.pos /\ wsSock[g.list[a]].tenant = g.tenant
                                   => \E b \in 1..Len(g.sent) : g.sent[b] = g.list[a]
    BY <1>2, <2>2, <2>4, <2>7 DEF Walks
  <2> QED BY <1>2, <1>3, <2>5, <2>6, <2>8 DEF Walks
<1> QED BY <1>4, <1>5

LEMMA DashTypes ==
  ASSUME DashInv, NEW i \in 1..Len(fanouts)
  PROVE  fanouts[i] \in DashCasts /\ Walks(fanouts[i])
BY DEF DashInv

\* Every broadcast is changed in its place.
LEMMA FansMapped ==
  ASSUME DashInv, DOMAIN fanouts' = DOMAIN fanouts,
         \A i \in 1..Len(fanouts) : fanouts'[i] \in DashCasts /\ Walks(fanouts[i])',
         fanouts' = [i \in DOMAIN fanouts |-> fanouts'[i]]
  PROVE  fanouts' \in Seq(DashCasts) /\ \A i \in 1..Len(fanouts') : Walks(fanouts[i])'
<1>1. fanouts \in Seq(DashCasts)
  BY DEF DashInv
<1>2. DOMAIN fanouts = 1..Len(fanouts) /\ Len(fanouts) \in Nat
  BY <1>1
<1>3. fanouts' \in [1..Len(fanouts) -> DashCasts]
  BY <1>2
<1>4. fanouts' \in Seq(DashCasts)
  BY <1>2, <1>3
<1>5. DOMAIN fanouts' = 1..Len(fanouts')
  BY <1>4
<1> QED BY <1>2, <1>4, <1>5

LEMMA DashStepKeeps ==
  ASSUME SockTypes, DashInv, DashNext
  PROVE  SockTypes' /\ DashInv'
<1>0. /\ NobodyPublished /\ NoCrew /\ dashList \in Seq(Sockets) /\ Distinct(dashList) /\ AllConnected(dashList)
      /\ fanouts \in Seq(DashCasts) /\ DOMAIN fanouts = 1..Len(fanouts) /\ Len(fanouts) \in Nat
      /\ \A a \in 1..Len(dashList) : dashList[a] \in Sockets
  BY DEF DashInv
<1>1. ASSUME NEW s \in Sockets, NetworkDrops(s)
      PROVE  SockTypes' /\ DashInv'
  <2>1. UNCHANGED << collabSubs, collabKeys, dashList, fanouts, wsGot >>
    BY <1>1 DEF NetworkDrops
  <2>2. /\ SockTypes'
        /\ \A r \in Sockets :
             /\ wsSock'[r].phase = wsSock[r].phase
             /\ wsSock'[r].tenant = wsSock[r].tenant /\ wsSock'[r].kind = wsSock[r].kind
    BY <1>1, NetworkDropped
  <2>3. \A i \in 1..Len(fanouts) : Walks(fanouts[i])'
    BY <2>1, <2>2, DashTypes, WalkGoesOn
  <2>4. NoCrew' /\ AllConnected(dashList)'
    BY <2>1, <2>2, <1>0 DEF NoCrew, AllConnected
  <2> QED BY <2>1, <2>2, <2>3, <2>4, <1>0 DEF DashInv, NobodyPublished, Distinct
<1>2. ASSUME NEW s \in Sockets, NEW tenant \in Tenants, DashConnect(s, tenant)
      PROVE  SockTypes' /\ DashInv'
  <2>1. /\ wsSock[s].phase = "new" /\ wsSock' = Accepted(s, tenant, Global, "dash", "open")
        /\ dashList' = Append(dashList, s)
        /\ UNCHANGED << collabSubs, collabKeys, wsGot >>
    BY <1>2 DEF DashConnect
  <2>2. /\ SockTypes' /\ wsSock'[s].phase = "open" /\ wsSock'[s].kind = "dash"
        /\ \A r \in Sockets : r # s => wsSock'[r] = wsSock[r]
    BY <2>1, SocketAccepted, CollabConstants DEF Phases
  <2>3. /\ Len(dashList') = Len(dashList) + 1 /\ Len(dashList) \in Nat /\ dashList' \in Seq(Sockets)
        /\ dashList'[Len(dashList) + 1] = s /\ \A a \in 1..Len(dashList) : dashList'[a] = dashList[a]
    BY <2>1, <1>0, AppendProperties
  <2>4. \A a \in 1..Len(dashList') : a \in 1..Len(dashList) \/ a = Len(dashList) + 1
    BY <2>3
  <2>5. \A a \in 1..Len(dashList) : dashList[a] # s
    BY <2>1, <1>0 DEF AllConnected
  <2>6. Distinct(dashList')
    BY <2>3, <2>4, <2>5, <1>0 DEF Distinct
  <2>7. AllConnected(dashList)' /\ NoCrew'
    BY <2>2, <2>3, <2>4, <1>0 DEF AllConnected, NoCrew
  <2>8. /\ DOMAIN fanouts' = DOMAIN fanouts /\ fanouts' = [i \in DOMAIN fanouts |-> fanouts'[i]]
        /\ \A i \in DOMAIN fanouts : fanouts'[i] =
             IF fanouts[i].shared THEN [fanouts[i] EXCEPT !.list = Append(fanouts[i].list, s)] ELSE fanouts[i]
    BY <1>2 DEF DashConnect
  <2>9. ASSUME NEW i \in 1..Len(fanouts)
        PROVE  fanouts'[i] \in DashCasts /\ Walks(fanouts[i])'
    <3>1. PICK f : f = fanouts[i]
      OBVIOUS
    <3>2. PICK g : g = fanouts'[i]
      OBVIOUS
    <3>3. f \in DashCasts /\ Walks(f)
      BY <3>1, DashTypes
    <3>4. f.list \in Seq(Sockets)
      BY <3>3 DEF DashCasts
    <3>5. Append(f.list, s) \in Seq(Sockets)
      BY <3>4, AppendProperties
    <3>6. CASE f.shared
      <4>1. g = [f EXCEPT !.list = Append(f.list, s)]
        BY <2>8, <3>1, <3>2, <3>6, <1>0
      <4>2. /\ g \in DashCasts /\ g.list = Append(f.list, s) /\ g.pos = f.pos /\ g.tenant = f.tenant
            /\ g.sent = f.sent /\ g.due = f.due
        BY <4>1, <3>3, <3>5 DEF DashCasts
      <4>3. Walks(g)'
        BY <4>2, <3>3, <2>1, <2>2, WalkGrows
      <4> QED BY <4>2, <4>3, <3>2
    <3>7. CASE ~f.shared
      <4>1. g = f
        BY <2>8, <3>1, <3>2, <3>7, <1>0
      <4>2. \A r \in Sockets : wsSock[r].phase # "new" => wsSock'[r] = wsSock[r]
        BY <2>1, <2>2
      <4>3. Walks(g)'
        BY <4>1, <4>2, <3>3, WalkGoesOn
      <4> QED BY <4>1, <4>3, <3>2, <3>3
    <3> QED BY <3>6, <3>7
  <2>10. fanouts' \in Seq(DashCasts) /\ \A i \in 1..Len(fanouts') : Walks(fanouts[i])'
    BY <2>8, <2>9, FansMapped
  <2> QED BY <2>1, <2>2, <2>3, <2>6, <2>7, <2>10, <1>0 DEF DashInv, NobodyPublished, Distinct
<1>3. ASSUME NEW s \in Sockets, DashGone(s)
      PROVE  SockTypes' /\ DashInv'
  <2>1. /\ wsSock[s].phase = "open" /\ wsSock' = Phase(s, "ended") /\ dashList' = Without(dashList, s)
        /\ UNCHANGED << collabSubs, collabKeys, wsGot >>
    BY <1>3 DEF DashGone
  <2>2. /\ SockTypes'
        /\ \A r \in Sockets :
             /\ wsSock'[r].phase = IF r = s THEN "ended" ELSE wsSock[r].phase
             /\ wsSock'[r].tenant = wsSock[r].tenant /\ wsSock'[r].kind = wsSock[r].kind
    BY <2>1, PhaseChanged DEF Phases
  <2>3. /\ dashList' \in Seq(Sockets) /\ Distinct(dashList')
        /\ \A a \in 1..Len(dashList') : \E b \in 1..Len(dashList) : dashList'[a] = dashList[b]
    BY <2>1, <1>0, DistinctWithout
  <2>4. AllConnected(dashList)' /\ NoCrew'
    <3>1. \A b \in 1..Len(dashList) : wsSock'[dashList[b]].phase # "new"
      BY <2>1, <2>2, <1>0 DEF AllConnected
    <3>2. AllConnected(dashList)'
      BY <3>1, <2>3 DEF AllConnected
    <3>3. NoCrew'
      BY <2>2, <1>0 DEF NoCrew
    <3> QED BY <3>2, <3>3
  <2>5. /\ DOMAIN fanouts' = DOMAIN fanouts /\ fanouts' = [i \in DOMAIN fanouts |-> fanouts'[i]]
        /\ \A i \in DOMAIN fanouts :
             fanouts'[i] = [fanouts[i] EXCEPT !.shared = FALSE, !.due = fanouts[i].due \ {s}]
    BY <1>3 DEF DashGone, ListReplaced
  <2>6. ASSUME NEW i \in 1..Len(fanouts)
        PROVE  fanouts'[i] \in DashCasts /\ Walks(fanouts[i])'
    <3>1. PICK f : f = fanouts[i]
      OBVIOUS
    <3>2. PICK g : g = fanouts'[i]
      OBVIOUS
    <3>3. f \in DashCasts /\ Walks(f)
      BY <3>1, DashTypes
    <3>4. g = [f EXCEPT !.shared = FALSE, !.due = f.due \ {s}]
      BY <2>5, <3>1, <3>2, <1>0
    <3>5. /\ g \in DashCasts /\ g.list = f.list /\ g.pos = f.pos /\ g.tenant = f.tenant
          /\ g.sent = f.sent /\ g.due \subseteq f.due
      BY <3>3, <3>4 DEF DashCasts
    <3>6. Walks(g)'
      BY <3>3, <3>5, <2>2, WalkGoesOn
    <3> QED BY <3>2, <3>5, <3>6
  <2>7. fanouts' \in Seq(DashCasts) /\ \A i \in 1..Len(fanouts') : Walks(fanouts[i])'
    BY <2>5, <2>6, FansMapped
  <2> QED BY <2>1, <2>2, <2>3, <2>4, <2>7, <1>0 DEF DashInv, NobodyPublished, Distinct
<1>4. ASSUME NEW s \in Sockets, DashCrashes(s)
      PROVE  SockTypes' /\ DashInv'
  <2>1. UNCHANGED << collabSubs, collabKeys, dashList, wsGot >>
    BY <1>4 DEF DashCrashes
  <2>2. /\ SockTypes'
        /\ \A r \in Sockets :
             /\ wsSock'[r].phase = IF r = s THEN "ended" ELSE wsSock[r].phase
             /\ wsSock'[r].tenant = wsSock[r].tenant /\ wsSock'[r].kind = wsSock[r].kind
    <3>1. PICK e : e = [wsSock[s] EXCEPT !.phase = "ended", !.alive = FALSE]
      OBVIOUS
    <3>2. /\ e \in SocketRecords /\ e.phase = "ended" /\ e.tenant = wsSock[s].tenant /\ e.kind = wsSock[s].kind
      BY <3>1 DEF SockTypes, SocketRecords, Phases
    <3>3. wsSock' = [wsSock EXCEPT ![s] = e]
      BY <1>4, <3>1 DEF DashCrashes, SockTypes, SocketRecords
    <3> QED BY <3>2, <3>3 DEF SockTypes
  <2>3. AllConnected(dashList)' /\ NoCrew'
    BY <2>1, <2>2, <1>0 DEF AllConnected, NoCrew
  <2>4. /\ DOMAIN fanouts' = DOMAIN fanouts /\ fanouts' = [i \in DOMAIN fanouts |-> fanouts'[i]]
        /\ \A i \in DOMAIN fanouts : fanouts'[i] = [fanouts[i] EXCEPT !.due = fanouts[i].due \ {s}]
    BY <1>4 DEF DashCrashes
  <2>5. ASSUME NEW i \in 1..Len(fanouts)
        PROVE  fanouts'[i] \in DashCasts /\ Walks(fanouts[i])'
    <3>1. PICK f : f = fanouts[i]
      OBVIOUS
    <3>2. PICK g : g = fanouts'[i]
      OBVIOUS
    <3>3. f \in DashCasts /\ Walks(f)
      BY <3>1, DashTypes
    <3>4. g = [f EXCEPT !.due = f.due \ {s}]
      BY <2>4, <3>1, <3>2, <1>0
    <3>5. /\ g \in DashCasts /\ g.list = f.list /\ g.pos = f.pos /\ g.tenant = f.tenant
          /\ g.sent = f.sent /\ g.due \subseteq f.due
      BY <3>3, <3>4 DEF DashCasts
    <3>6. Walks(g)'
      BY <3>3, <3>5, <2>2, WalkGoesOn
    <3> QED BY <3>2, <3>5, <3>6
  <2>6. fanouts' \in Seq(DashCasts) /\ \A i \in 1..Len(fanouts') : Walks(fanouts[i])'
    BY <2>4, <2>5, FansMapped
  <2> QED BY <2>1, <2>2, <2>3, <2>6, <1>0 DEF DashInv, NobodyPublished, Distinct
<1>5. ASSUME NEW tenant \in Tenants, DashBroadcast(tenant)
      PROVE  SockTypes' /\ DashInv'
  <2>1. PICK due : due = {s \in Range(dashList) : wsSock[s].tenant = tenant}
    OBVIOUS
  <2>2. \A s \in due : s \in Sockets /\ wsSock[s].tenant = tenant /\ \E a \in 1..Len(dashList) : dashList[a] = s
    BY <2>1, <1>0 DEF Range
  <2>3. PICK f : f = [list |-> dashList, pos |-> 1, shared |-> TRUE, tenant |-> tenant,
                      due |-> due, sent |-> << >>]
    OBVIOUS
  <2>4. /\ f \in DashCasts /\ f.list = dashList /\ f.pos = 1 /\ f.tenant = tenant /\ f.due = due
        /\ f.sent = << >>
    BY <2>2, <2>3, <1>0 DEF DashCasts
  <2>5. Len(dashList) \in Nat /\ Len(f.sent) = 0
    BY <2>4, <1>0
  <2>6. Walks(f)
    BY <2>2, <2>4, <2>5, <1>0 DEF Walks, Distinct
  <2>7. fanouts' = Append(fanouts, f) /\ UNCHANGED << wsSock, collabSubs, collabKeys, dashList, wsGot >>
    BY <1>5, <2>1, <2>3 DEF DashBroadcast
  <2>8. /\ fanouts' \in Seq(DashCasts) /\ Len(fanouts') = Len(fanouts) + 1
        /\ \A i \in 1..Len(fanouts) : fanouts'[i] = fanouts[i]
        /\ fanouts'[Len(fanouts) + 1] = f
    BY <2>4, <2>7, <1>0, AppendProperties
  <2>9. \A i \in 1..Len(fanouts') : i \in 1..Len(fanouts) \/ i = Len(fanouts) + 1
    BY <2>8, <1>0
  <2>10. \A i \in 1..Len(fanouts') : Walks(fanouts'[i])
    BY <2>6, <2>8, <2>9, DashTypes
  <2>11. \A i \in 1..Len(fanouts') : Walks(fanouts[i])'
    BY <2>7, <2>10 DEF Walks, AllConnected
  <2> QED BY <2>7, <2>8, <2>11, <1>0 DEF SockTypes, DashInv, NobodyPublished, NoCrew, AllConnected, Distinct
<1>6. ASSUME NEW i \in 1..Len(fanouts), DashSend(i)
      PROVE  SockTypes' /\ DashInv'
  <2>1. PICK f : f = fanouts[i]
    OBVIOUS
  <2>2. f \in DashCasts /\ Walks(f) /\ f.pos <= Len(f.list)
    BY <1>6, <2>1, DashTypes DEF DashSend
  <2>3. f.list \in Seq(Sockets) /\ f.sent \in Seq(Sockets) /\ f.pos \in 1..Len(f.list)
    BY <2>2 DEF DashCasts, Walks
  <2>4. PICK sent : sent = IF wsSock[f.list[f.pos]].tenant = f.tenant THEN Append(f.sent, f.list[f.pos]) ELSE f.sent
    OBVIOUS
  <2>5. sent \in Seq(Sockets)
    BY <2>3, <2>4, AppendProperties
  <2>6. PICK g : g = [f EXCEPT !.pos = f.pos + 1, !.sent = sent]
    OBVIOUS
  <2>7. /\ g \in DashCasts /\ g.list = f.list /\ g.pos = f.pos + 1 /\ g.tenant = f.tenant
        /\ g.due = f.due /\ g.sent = sent
    <3>1. f.pos + 1 \in Nat
      BY <2>2 DEF DashCasts
    <3> QED BY <2>2, <2>5, <2>6, <3>1 DEF DashCasts
  <2>8. Walks(g)
    BY <2>2, <2>4, <2>7, WalkSteps
  <2>9. fanouts' = [fanouts EXCEPT ![i] = g] /\ UNCHANGED << wsSock, collabSubs, collabKeys, dashList, wsGot >>
    BY <1>6, <2>1, <2>2, <2>4, <2>6, <1>0 DEF DashSend, DashCasts
  <2>10. /\ fanouts' \in Seq(DashCasts) /\ Len(fanouts') = Len(fanouts)
         /\ \A j \in 1..Len(fanouts) : fanouts'[j] = IF j = i THEN g ELSE fanouts[j]
    BY <2>7, <2>9, <1>0, ExceptSeq
  <2>11. \A j \in 1..Len(fanouts') : Walks(fanouts'[j])
    BY <2>8, <2>10, DashTypes
  <2>12. \A f1 : Walks(f1) => Walks(f1)'
    BY <2>9 DEF Walks, AllConnected, Distinct
  <2>13. \A j \in 1..Len(fanouts') : Walks(fanouts[j])'
    BY <2>11, <2>12
  <2> QED BY <2>9, <2>10, <2>13, <1>0 DEF SockTypes, DashInv, NobodyPublished, NoCrew, AllConnected, Distinct
<1> QED BY <1>1, <1>2, <1>3, <1>4, <1>5, <1>6 DEF DashNext

LEMMA DashboardIsTrue ==
  ASSUME DashInv
  PROVE  TenantsStayApart /\ EndedSocketsAreForgotten /\ ListenersStayListed /\ DashboardsHearOnce
<1>1. TenantsStayApart /\ EndedSocketsAreForgotten /\ ListenersStayListed
  BY DEF DashInv, NobodyPublished, NoCrew, TenantsStayApart, EndedSocketsAreForgotten, ListenersStayListed
<1>2. ASSUME NEW i \in 1..Len(fanouts), fanouts[i].pos > Len(fanouts[i].list)
      PROVE  /\ fanouts[i].due \subseteq Range(fanouts[i].sent)
             /\ Cardinality(Range(fanouts[i].sent)) = Len(fanouts[i].sent)
  <2>1. PICK f : f = fanouts[i]
    OBVIOUS
  <2>2. f \in DashCasts /\ Walks(f)
    BY <2>1, DashTypes
  <2>3. f.sent \in Seq(Sockets) /\ f.list \in Seq(Sockets) /\ f.pos \in Nat /\ Len(f.list) \in Nat
    BY <2>2 DEF DashCasts
  <2>4. Cardinality(Range(f.sent)) = Len(f.sent)
    BY <2>2, <2>3, DistinctCounts DEF Walks
  <2>5. \A s \in f.due : \E b \in 1..Len(f.sent) : f.sent[b] = s
    <3> SUFFICES ASSUME NEW s \in f.due PROVE \E b \in 1..Len(f.sent) : f.sent[b] = s
      OBVIOUS
    <3>1. PICK a \in 1..Len(f.list) : f.list[a] = s /\ wsSock[s].tenant = f.tenant
      BY <2>2 DEF Walks
    <3>2. a < f.pos
      BY <1>2, <2>1, <2>3
    <3> QED BY <2>2, <3>1, <3>2 DEF Walks
  <2>6. f.due \subseteq Range(f.sent)
    BY <2>3, <2>5 DEF Range
  <2> QED BY <2>1, <2>4, <2>6
<1>3. DashboardsHearOnce
  BY <1>2 DEF DashboardsHearOnce
<1> QED BY <1>1, <1>3

\* The three uses of the sockets in one.
WsInv ==
    /\ SockTypes
    /\ CASE focus = "dashboard" -> DashInv [] focus = "crew" -> CrewInv [] OTHER -> SessionInv

LEMMA WsStarts ==
  ASSUME CollabInit
  PROVE  WsInv
BY CollabStarts, CrewStarts, DashStarts DEF WsInv

LEMMA WsStays ==
  ASSUME WsInv, UNCHANGED <<focus, wsVars>>
  PROVE  WsInv'
<1>1. SessionInv => SessionInv'
  BY DEF wsVars, SessionInv, MembersAreOpen, MembersHaveTenants, FansStayInTenant, GotIsOfTenant, NoCrew
<1>2. CrewInv => CrewInv'
  BY DEF wsVars, CrewInv, NobodyPublished, SendersAreBusy, DeadAreGone, ListenersStayListed
<1>3. DashInv => DashInv'
  <2>1. \A f : Walks(f) => Walks(f)'
    BY DEF wsVars, Walks, AllConnected, Distinct
  <2> QED BY <2>1 DEF wsVars, DashInv, NobodyPublished, NoCrew, AllConnected, Distinct
<1> QED BY <1>1, <1>2, <1>3 DEF WsInv, SockTypes, wsVars

LEMMA WsSteps ==
  ASSUME WsInv, [Next]_netVars
  PROVE  WsInv'
<1>1. \/ focus = "sessions" /\ CollabNext /\ focus' = focus
      \/ focus = "dashboard" /\ DashNext /\ focus' = focus
      \/ focus = "crew" /\ CrewNext /\ focus' = focus
      \/ UNCHANGED <<focus, wsVars>>
  BY DEF netVars, Next, MeshStep, RegionStep, RouterStep, TopologyStep, CloudStep, SessionStep,
         DashboardStep, CrewStep, OverlayStep
<1> QED BY <1>1, WsStays, SessionStepKeeps, DashStepKeeps, CrewStepKeeps DEF WsInv

LEMMA WsIsTrue ==
  ASSUME WsInv
  PROVE  TenantsStayApart /\ EndedSocketsAreForgotten /\ ListenersStayListed /\ DashboardsHearOnce
BY SessionsAreTrue, CrewIsTrue, DashboardIsTrue DEF WsInv

LEMMA RoutersStep ==
  ASSUME P2PInv, [Next]_netVars
  PROVE  P2PInv'
<1>1. P2PNext \/ UNCHANGED p2pVars
  BY DEF netVars, Next, MeshStep, RegionStep, RouterStep, TopologyStep, CloudStep, SessionStep,
         DashboardStep, CrewStep, OverlayStep
<1> QED BY <1>1, P2PStepKeeps, P2PStays

LEMMA OverlaySteps ==
  ASSUME OvInv, [Next]_netVars
  PROVE  OvInv'
<1>1. OverlayNext \/ UNCHANGED ovVars
  BY DEF netVars, Next, MeshStep, RegionStep, RouterStep, TopologyStep, CloudStep, SessionStep,
         DashboardStep, CrewStep, OverlayStep
<1> QED BY <1>1, OverlayStepKeeps, OvStays

\* The tables of the processes are true of the network: the tunnels routers
\* use are listened on and their waiting calls listed, routes between clouds
\* lead to open tunnels (an open tunnel may be unlisted), no socket that ended is left in a table and none that
\* listens is lost, and no overlay address is ever two nodes'.
THEOREM NetworkTablesMatch == Spec => []TablesMatchTheNetwork
<1>1. Init => P2PInv /\ CcInv /\ WsInv /\ OvInv
  BY P2PStarts, CcStarts, WsStarts, OvStarts DEF Init
<1>2. P2PInv /\ CcInv /\ WsInv /\ OvInv /\ [Next]_netVars => (P2PInv /\ CcInv /\ WsInv /\ OvInv)'
  BY RoutersStep, CcOnly, WsSteps, OverlaySteps
<1>3. P2PInv /\ CcInv /\ WsInv /\ OvInv => TablesMatchTheNetwork
  BY P2PTables, RoutesAreOpen, WsIsTrue, AddressesAreOwned DEF TablesMatchTheNetwork
<1> QED BY <1>1, <1>2, <1>3, PTL DEF Spec

-----------------------------------------------------------------------------
(* The topology: what is saved is what is loaded, and a running node waits   *)
(* for a result, or never gets one.                                          *)

IsNodes(f) == f = [n \in DOMAIN f |-> f[n]] /\ \A n \in DOMAIN f : f[n] \in Statuses
Streams == [session : StreamSessions \cup {<< >>},
            phase : {"idle", "stream", "results", "end", "failed", "done"},
            calls : Seq(StreamTools), batches : Nat]
SavedIsStored ==
    \/ tpFile = << >> /\ tpSaved = << >>
    \/ \E s, f : IsNodes(f) /\ tpSaved = << s, f >> /\ tpFile = << s, Built(f) >>
CallsHaveNodes ==
    /\ \A i \in 1..Len(tpRun.calls) : tpRun.calls[i] \in DOMAIN tpActive
    /\ tpRun.phase \in {"end", "failed", "done"} => tpRun.calls = << >>
    /\ tpRun.phase = "results" => tpRun.calls # << >>
Awaited(n) == \E i \in 1..Len(tpRun.calls) : tpActive[tpRun.calls[i]] = n
RunningIsAwaited ==
    \A n \in DOMAIN tpNodes : tpNodes[n] = "running" =>
        n \in tpLeft \/ (n = RootNode /\ tpRun.phase # "done") \/ Awaited(n)
TpInv == IsNodes(tpNodes) /\ tpRun \in Streams /\ SavedIsStored /\ CallsHaveNodes /\ RunningIsAwaited

\* The two status tables are inverse to each other.
LEMMA TablesMatch ==
  ASSUME NEW st \in Statuses
  PROVE  LoadedStatus(UiStatus(st)) = st
<1>1. CASE st = "pending"           BY <1>1 DEF LoadedStatus, UiStatus
<1>2. CASE st = "running"           BY <1>2 DEF LoadedStatus, UiStatus
<1>3. CASE st = "completed"         BY <1>3 DEF LoadedStatus, UiStatus
<1>4. CASE st = "error"             BY <1>4 DEF LoadedStatus, UiStatus
<1>5. CASE st = "awaiting_approval" BY <1>5 DEF LoadedStatus, UiStatus
<1> QED BY <1>1, <1>2, <1>3, <1>4, <1>5 DEF Statuses

LEMMA RestoredBuilt ==
  ASSUME NEW f, IsNodes(f)
  PROVE  Restored(Built(f)) = f
<1>1. DOMAIN Built(f) = DOMAIN f /\ \A n \in DOMAIN f : Built(f)[n] = UiStatus(f[n])
  BY DEF Built
<1>2. \A n \in DOMAIN f : LoadedStatus(Built(f)[n]) = f[n] /\ f[n] \in Statuses
  BY <1>1, TablesMatch DEF IsNodes
<1>3. {n \in DOMAIN Built(f) : LoadedStatus(Built(f)[n]) \in Statuses} = DOMAIN f
  BY <1>1, <1>2
<1>4. Restored(Built(f)) = [n \in DOMAIN f |-> LoadedStatus(Built(f)[n])]
  BY <1>3 DEF Restored
<1>5. [n \in DOMAIN f |-> LoadedStatus(Built(f)[n])] = [n \in DOMAIN f |-> f[n]]
  BY <1>2
<1> QED BY <1>4, <1>5 DEF IsNodes

LEMMA NoNodes == IsNodes(<< >>) /\ DOMAIN << >> = {}
BY DEF IsNodes

LEMMA NodesRestored ==
  ASSUME NEW stored
  PROVE  IsNodes(Restored(stored))
BY DEF Restored, IsNodes

LEMMA TpStarts ==
  ASSUME TopologyInit
  PROVE  TpInv
<1>1. tpRun \in Streams /\ tpRun.calls = << >> /\ tpRun.phase = "idle"
  BY DEF TopologyInit, NoRun, Streams
<1>2. CallsHaveNodes
  BY <1>1 DEF CallsHaveNodes
<1>3. RunningIsAwaited
  BY NoNodes DEF TopologyInit, RunningIsAwaited
<1> QED BY <1>1, <1>2, <1>3, NoNodes DEF TopologyInit, TpInv, SavedIsStored

LEMMA TpStays ==
  ASSUME TpInv, UNCHANGED tpVars
  PROVE  TpInv'
<1>1. UNCHANGED << tpRun, tpNodes, tpActive, tpFile, tpSaved, tpLeft >>
  BY DEF tpVars
<1>2. SavedIsStored'
  BY <1>1 DEF TpInv, SavedIsStored
<1>3. RunningIsAwaited' /\ CallsHaveNodes'
  BY <1>1 DEF TpInv, RunningIsAwaited, CallsHaveNodes, Awaited
<1> QED BY <1>1, <1>2, <1>3 DEF TpInv

\* A step that emits one node.
LEMMA Emitted ==
  ASSUME TpInv, NEW n, NEW st \in Statuses, tpNodes' = With(tpNodes, n, st),
         tpRun' \in Streams, CallsHaveNodes', UNCHANGED << tpFile, tpSaved >>,
         st = "running" => n \in tpLeft' \/ Awaited(n)',
         \A x \in DOMAIN tpNodes : tpNodes[x] = "running" /\ x # n =>
            x \in tpLeft' \/ (x = RootNode /\ tpRun'.phase # "done") \/ Awaited(x)'
  PROVE  TpInv'
<1>1. /\ IsNodes(tpNodes') /\ DOMAIN tpNodes' = DOMAIN tpNodes \cup {n} /\ tpNodes'[n] = st
      /\ \A x \in DOMAIN tpNodes : x # n => tpNodes'[x] = tpNodes[x]
  <2>1. IsNodes(tpNodes)
    BY DEF TpInv
  <2>2. PICK m : m = With(tpNodes, n, st)
    OBVIOUS
  <2>3. /\ IsNodes(m) /\ DOMAIN m = DOMAIN tpNodes \cup {n} /\ m[n] = st
        /\ \A x \in DOMAIN tpNodes : x # n => m[x] = tpNodes[x]
    BY <2>1, <2>2 DEF IsNodes, With
  <2> QED BY <2>2, <2>3
<1>2. RunningIsAwaited'
  <2> SUFFICES ASSUME NEW x \in DOMAIN tpNodes', tpNodes'[x] = "running"
               PROVE  x \in tpLeft' \/ (x = RootNode /\ tpRun'.phase # "done") \/ Awaited(x)'
    BY DEF RunningIsAwaited
  <2>1. CASE x = n
    BY <1>1, <2>1
  <2>2. CASE x # n
    BY <1>1, <2>2
  <2> QED BY <2>1, <2>2
<1>3. SavedIsStored'
  BY DEF TpInv, SavedIsStored
<1> QED BY <1>1, <1>2, <1>3 DEF TpInv, IsNodes

LEMMA StreamStarts ==
  ASSUME TpInv, NEW s \in StreamSessions, StartStream(s)
  PROVE  TpInv'
<1>1. PICK found : found = IF tpFile # << >> /\ tpFile[1] = s THEN Restored(tpFile[2]) ELSE << >>
  OBVIOUS
<1>2. IsNodes(found)
  BY <1>1, NodesRestored, NoNodes
<1>3. tpNodes' = With(found, RootNode, "running") /\ tpLeft' = {n \in DOMAIN found : found[n] = "running"}
  BY <1>1 DEF StartStream
<1>4. tpRun' = [NoRun EXCEPT !.session = s, !.phase = "stream"] /\ UNCHANGED << tpFile, tpSaved >>
  BY DEF StartStream
<1>5. tpRun' \in Streams /\ tpRun'.calls = << >> /\ tpRun'.phase = "stream"
  <2>1. << >> \in Seq(StreamTools)
    OBVIOUS
  <2>2. tpRun' = [session |-> s, phase |-> "stream", calls |-> << >>, batches |-> 0]
    BY <1>4 DEF NoRun
  <2> QED BY <2>1, <2>2 DEF Streams
<1>6. CallsHaveNodes'
  BY <1>5 DEF CallsHaveNodes
<1>7. PICK m : m = With(found, RootNode, "running")
  OBVIOUS
<1>8. /\ IsNodes(m) /\ DOMAIN m = DOMAIN found \cup {RootNode}
      /\ \A x \in DOMAIN found : x # RootNode => m[x] = found[x]
  BY <1>2, <1>7 DEF IsNodes, With, Statuses
<1>9. RunningIsAwaited'
  BY <1>3, <1>5, <1>7, <1>8 DEF RunningIsAwaited
<1>10. SavedIsStored'
  BY <1>4 DEF TpInv, SavedIsStored
<1> QED BY <1>3, <1>5, <1>6, <1>7, <1>8, <1>9, <1>10 DEF TpInv, IsNodes

LEMMA FileReplaced ==
  ASSUME TpInv, ReplaceFile
  PROVE  TpInv'
<1>1. /\ tpFile' = << tpRun.session, Built(tpNodes) >> /\ tpSaved' = << tpRun.session, tpNodes >>
      /\ UNCHANGED << tpRun, tpNodes, tpActive, tpLeft >>
  BY DEF ReplaceFile
<1>2. SavedIsStored'
  <2>1. IsNodes(tpNodes)
    BY DEF TpInv
  <2> QED BY <1>1, <2>1 DEF SavedIsStored
<1>3. RunningIsAwaited' /\ CallsHaveNodes'
  BY <1>1 DEF TpInv, RunningIsAwaited, CallsHaveNodes, Awaited
<1> QED BY <1>1, <1>2, <1>3 DEF TpInv

LEMMA CallSeen ==
  ASSUME TpInv, NEW t \in StreamTools, ToolCallSeen(t)
  PROVE  TpInv'
<1>1. PICK n : n = ToolNode(t, Cardinality(DOMAIN tpActive) + 1)
  OBVIOUS
<1>2. PICK same : same = {i \in 1..Len(tpRun.calls) : tpRun.calls[i] = t}
  OBVIOUS
<1>3. /\ tpNodes' = With(tpNodes, n, "running") /\ tpActive' = With(tpActive, t, n)
      /\ tpLeft' = (tpLeft \ {n}) \union (IF same = {} THEN {} ELSE {tpActive[t]} \ {n})
      /\ tpRun' = [tpRun EXCEPT !.calls = Append(tpRun.calls, t)]
      /\ tpRun.phase = "stream" /\ UNCHANGED << tpFile, tpSaved >>
  BY <1>1, <1>2 DEF ToolCallSeen, Emit, Activated, Streaming, TpInv, Streams
<1>4. /\ DOMAIN tpActive' = DOMAIN tpActive \cup {t} /\ tpActive'[t] = n
      /\ \A u \in DOMAIN tpActive : u # t => tpActive'[u] = tpActive[u]
  BY <1>3 DEF With
<1>5. tpRun \in Streams /\ tpRun.calls \in Seq(StreamTools) /\ Len(tpRun.calls) \in Nat
  BY DEF TpInv, Streams
<1>6. PICK c : c = Append(tpRun.calls, t)
  OBVIOUS
<1>7. /\ c \in Seq(StreamTools) /\ Len(c) = Len(tpRun.calls) + 1 /\ c[Len(tpRun.calls) + 1] = t
      /\ \A i \in 1..Len(tpRun.calls) : c[i] = tpRun.calls[i]
  BY <1>5, <1>6, AppendProperties
<1>8. tpRun' \in Streams /\ tpRun'.calls = c /\ tpRun'.phase = "stream"
  BY <1>3, <1>5, <1>6, <1>7 DEF Streams
<1>9. \A i \in 1..Len(c) : i \in 1..Len(tpRun.calls) \/ i = Len(tpRun.calls) + 1
  BY <1>5, <1>7
<1>10. \A i \in 1..Len(tpRun.calls) : tpRun.calls[i] \in DOMAIN tpActive
  BY DEF TpInv, CallsHaveNodes
<1>11. CallsHaveNodes'
  BY <1>4, <1>7, <1>8, <1>9, <1>10 DEF CallsHaveNodes
<1>12. Awaited(n)'
  <2>1. Len(tpRun.calls) + 1 \in 1..Len(c)
    BY <1>5, <1>7
  <2> QED BY <2>1, <1>4, <1>7, <1>8 DEF Awaited
<1>13. ASSUME NEW x, Awaited(x), x # n
       PROVE  x \in tpLeft' \/ Awaited(x)'
  <2>1. PICK i \in 1..Len(tpRun.calls) : tpActive[tpRun.calls[i]] = x
    BY <1>13 DEF Awaited
  <2>2. CASE tpRun.calls[i] = t
    BY <1>2, <1>3, <1>13, <2>1, <2>2
  <2>3. CASE tpRun.calls[i] # t
    <3>1. i \in 1..Len(c) /\ tpActive'[c[i]] = x
      BY <1>4, <1>5, <1>7, <1>10, <2>1, <2>3
    <3> QED BY <3>1, <1>8 DEF Awaited
  <2> QED BY <2>2, <2>3
<1>14. \A x \in DOMAIN tpNodes : tpNodes[x] = "running" /\ x # n =>
         x \in tpLeft' \/ (x = RootNode /\ tpRun'.phase # "done") \/ Awaited(x)'
  BY <1>3, <1>8, <1>13 DEF TpInv, RunningIsAwaited
<1> QED BY <1>3, <1>8, <1>11, <1>12, <1>14, Emitted DEF Statuses

LEMMA ResultSeen ==
  ASSUME TpInv, NEW failed \in BOOLEAN, NEW handoff \in BOOLEAN, ToolResultSeen(failed, handoff)
  PROVE  TpInv'
<1>1. tpRun.phase = "results" /\ tpRun \in Streams /\ tpRun.calls \in Seq(StreamTools) /\ tpRun.calls # << >>
  BY DEF ToolResultSeen, TpInv, CallsHaveNodes, Streams
<1>2. PICK t : t = Head(tpRun.calls)
  OBVIOUS
<1>3. PICK rest : rest = Tail(tpRun.calls)
  OBVIOUS
<1>4. /\ rest \in Seq(StreamTools) /\ Len(rest) = Len(tpRun.calls) - 1 /\ t = tpRun.calls[1]
      /\ \A i \in 1..Len(rest) : rest[i] = tpRun.calls[i + 1]
      /\ Len(tpRun.calls) \in Nat /\ Len(rest) \in Nat
  BY <1>1, <1>2, <1>3, HeadTailProperties
<1>5. PICK st : st = IF failed THEN "error" ELSE "completed"
  OBVIOUS
<1>6. st \in Statuses /\ st # "running"
  BY <1>5 DEF Statuses
<1>7. /\ tpNodes' = With(tpNodes, tpActive[t], st)
      /\ tpRun' = [tpRun EXCEPT !.calls = IF handoff THEN << >> ELSE rest,
                     !.phase = IF handoff THEN "end" ELSE IF rest = << >> THEN "stream" ELSE "results"]
      /\ tpLeft' = IF handoff THEN tpLeft \union {tpActive[rest[i]] : i \in 1..Len(rest)} ELSE tpLeft
      /\ UNCHANGED << tpActive, tpFile, tpSaved >>
  BY <1>1, <1>2, <1>3, <1>5 DEF ToolResultSeen, Emit
<1>8. /\ tpRun' \in Streams /\ tpRun'.calls = (IF handoff THEN << >> ELSE rest)
      /\ tpRun'.phase = IF handoff THEN "end" ELSE IF rest = << >> THEN "stream" ELSE "results"
  <2>1. PICK c : c = IF handoff THEN << >> ELSE rest
    OBVIOUS
  <2>2. PICK p : p = IF handoff THEN "end" ELSE IF rest = << >> THEN "stream" ELSE "results"
    OBVIOUS
  <2>3. c \in Seq(StreamTools) /\ p \in {"end", "stream", "results"}
    BY <1>4, <2>1, <2>2
  <2>4. tpRun' = [tpRun EXCEPT !.calls = c, !.phase = p]
    BY <1>7, <2>1, <2>2
  <2>5. tpRun' \in Streams /\ tpRun'.calls = c /\ tpRun'.phase = p
    BY <1>1, <2>3, <2>4 DEF Streams
  <2> QED BY <2>1, <2>2, <2>5
<1>9. \A i \in 1..Len(rest) : rest[i] \in DOMAIN tpActive
  <2>1. \A i \in 1..Len(rest) : i + 1 \in 1..Len(tpRun.calls)
    BY <1>4
  <2> QED BY <2>1, <1>4 DEF TpInv, CallsHaveNodes
<1>10. CallsHaveNodes'
  BY <1>7, <1>8, <1>9 DEF CallsHaveNodes
<1>11. \A x : Awaited(x) /\ x # tpActive[t] => \E i \in 1..Len(rest) : tpActive[rest[i]] = x
  <2> SUFFICES ASSUME NEW x, Awaited(x), x # tpActive[t]
               PROVE  \E i \in 1..Len(rest) : tpActive[rest[i]] = x
    OBVIOUS
  <2>1. PICK i \in 1..Len(tpRun.calls) : tpActive[tpRun.calls[i]] = x
    BY DEF Awaited
  <2>2. i # 1
    BY <1>4, <2>1
  <2>3. i - 1 \in 1..Len(rest) /\ (i - 1) + 1 = i
    BY <1>4, <2>2
  <2> QED BY <1>4, <2>1, <2>3
<1>12. \A x : Awaited(x) /\ x # tpActive[t] => x \in tpLeft' \/ Awaited(x)'
  <2>1. CASE handoff
    BY <1>7, <1>11, <2>1
  <2>2. CASE ~handoff
    <3>1. tpRun'.calls = rest /\ tpActive' = tpActive
      BY <1>7, <1>8, <2>2
    <3>2. \A x : (\E i \in 1..Len(rest) : tpActive[rest[i]] = x) => Awaited(x)'
      BY <3>1 DEF Awaited
    <3> QED BY <1>11, <3>2
  <2> QED BY <2>1, <2>2
<1>13. \A x \in DOMAIN tpNodes : tpNodes[x] = "running" /\ x # tpActive[t] =>
         x \in tpLeft' \/ (x = RootNode /\ tpRun'.phase # "done") \/ Awaited(x)'
  BY <1>7, <1>8, <1>12 DEF TpInv, RunningIsAwaited
<1> QED BY <1>6, <1>7, <1>8, <1>10, <1>13, Emitted

LEMMA StreamErrs ==
  ASSUME TpInv, ErrorSeen
  PROVE  TpInv'
<1>1. /\ tpNodes' = With(tpNodes, ErrorNode, "error")
      /\ tpLeft' = tpLeft \union {tpActive[tpRun.calls[i]] : i \in 1..Len(tpRun.calls)}
      /\ tpRun' = [tpRun EXCEPT !.phase = "failed", !.calls = << >>]
      /\ UNCHANGED << tpActive, tpFile, tpSaved >>
  BY DEF ErrorSeen, Emit
<1>2. tpRun' \in Streams /\ tpRun'.calls = << >> /\ tpRun'.phase = "failed"
  <2>1. << >> \in Seq(StreamTools)
    OBVIOUS
  <2> QED BY <1>1, <2>1 DEF TpInv, Streams
<1>3. CallsHaveNodes'
  BY <1>2 DEF CallsHaveNodes
<1>4. \A x \in DOMAIN tpNodes : tpNodes[x] = "running" /\ x # ErrorNode =>
         x \in tpLeft' \/ (x = RootNode /\ tpRun'.phase # "done") \/ Awaited(x)'
  BY <1>1, <1>2 DEF TpInv, RunningIsAwaited, Awaited
<1> QED BY <1>1, <1>2, <1>3, <1>4, Emitted DEF Statuses

LEMMA RootEmitted ==
  ASSUME TpInv, NEW st \in {"completed", "error"}, tpNodes' = With(tpNodes, RootNode, st),
         tpRun.calls = << >>, tpRun' = [tpRun EXCEPT !.phase = "done"],
         UNCHANGED << tpActive, tpFile, tpSaved, tpLeft >>
  PROVE  TpInv'
<1>1. tpRun' \in Streams /\ tpRun'.calls = << >> /\ tpRun'.phase = "done"
  BY DEF TpInv, Streams
<1>2. CallsHaveNodes'
  BY <1>1 DEF CallsHaveNodes
<1>3. \A x \in DOMAIN tpNodes : tpNodes[x] = "running" /\ x # RootNode =>
         x \in tpLeft' \/ (x = RootNode /\ tpRun'.phase # "done") \/ Awaited(x)'
  BY DEF TpInv, RunningIsAwaited, Awaited
<1> QED BY <1>1, <1>2, <1>3, Emitted DEF Statuses

LEMMA TopologyStepKeeps ==
  ASSUME TpInv, TopologyNext
  PROVE  TpInv'
<1>1. CASE WriteTmp
  <2>1. UNCHANGED << tpRun, tpNodes, tpActive, tpFile, tpSaved, tpLeft >>
    BY <1>1 DEF WriteTmp
  <2>2. SavedIsStored'
    BY <2>1 DEF TpInv, SavedIsStored
  <2>3. RunningIsAwaited' /\ CallsHaveNodes'
    BY <2>1 DEF TpInv, RunningIsAwaited, CallsHaveNodes, Awaited
  <2> QED BY <2>1, <2>2, <2>3 DEF TpInv
<1>2. CASE BatchAnnounced
  <2>1. /\ tpRun.calls # << >> /\ tpRun' = [tpRun EXCEPT !.phase = "results", !.batches = tpRun.batches + 1]
        /\ UNCHANGED << tpNodes, tpActive, tpFile, tpSaved, tpLeft >>
    BY <1>2 DEF BatchAnnounced, TpInv, Streams
  <2>2. tpRun' \in Streams /\ tpRun'.calls = tpRun.calls /\ tpRun'.phase = "results"
    <3>1. tpRun.batches + 1 \in Nat
      BY DEF TpInv, Streams
    <3> QED BY <2>1, <3>1 DEF TpInv, Streams
  <2>3. SavedIsStored'
    BY <2>1 DEF TpInv, SavedIsStored
  <2>4. RunningIsAwaited' /\ CallsHaveNodes'
    BY <2>1, <2>2 DEF TpInv, RunningIsAwaited, CallsHaveNodes, Awaited
  <2> QED BY <2>1, <2>2, <2>3, <2>4 DEF TpInv
<1>3. CASE TraceSeen
  <2>1. tpNodes' = With(tpNodes, TraceNode, "completed")
        /\ UNCHANGED << tpRun, tpActive, tpFile, tpSaved, tpLeft >>
    BY <1>3 DEF TraceSeen, Emit
  <2>2. tpRun' \in Streams /\ CallsHaveNodes'
    BY <2>1 DEF TpInv, CallsHaveNodes
  <2>3. \A x \in DOMAIN tpNodes : tpNodes[x] = "running" /\ x # TraceNode =>
           x \in tpLeft' \/ (x = RootNode /\ tpRun'.phase # "done") \/ Awaited(x)'
    BY <2>1 DEF TpInv, RunningIsAwaited, Awaited
  <2> QED BY <2>1, <2>2, <2>3, Emitted DEF Statuses
<1>4. CASE DoneSeen
  <2>1. tpRun.calls = << >>
    BY <1>4 DEF DoneSeen, TpInv, CallsHaveNodes
  <2> QED BY <1>4, <2>1, RootEmitted DEF DoneSeen, Emit
<1>5. CASE ErrorRoot
  <2>1. tpRun.calls = << >>
    BY <1>5 DEF ErrorRoot, TpInv, CallsHaveNodes
  <2> QED BY <1>5, <2>1, RootEmitted DEF ErrorRoot, Emit
<1>6. CASE EndStream
  <2>1. tpRun' = NoRun /\ tpNodes' = << >> /\ UNCHANGED << tpFile, tpSaved >>
    BY <1>6 DEF EndStream
  <2>2. NoRun \in Streams /\ NoRun.calls = << >> /\ NoRun.phase = "idle"
    BY DEF NoRun, Streams
  <2>3. CallsHaveNodes'
    BY <2>1, <2>2 DEF CallsHaveNodes
  <2>4. RunningIsAwaited'
    BY <2>1, NoNodes DEF RunningIsAwaited
  <2>5. SavedIsStored'
    BY <2>1 DEF TpInv, SavedIsStored
  <2> QED BY <2>1, <2>2, <2>3, <2>4, <2>5, NoNodes DEF TpInv, IsNodes
<1> QED
  BY <1>1, <1>2, <1>3, <1>4, <1>5, <1>6, StreamStarts, FileReplaced, CallSeen, ResultSeen, StreamErrs
     DEF TopologyNext

LEMMA TopologyIsTrue ==
  ASSUME TpInv
  PROVE  ReloadGivesBackTheTopology /\ ToolNodesSettle
<1>1. ReloadGivesBackTheTopology
  <2>1. CASE tpFile = << >> /\ tpSaved = << >>
    BY <2>1 DEF ReloadGivesBackTheTopology
  <2>2. ASSUME NEW s, NEW f, IsNodes(f), tpSaved = << s, f >>, tpFile = << s, Built(f) >>
        PROVE  ReloadGivesBackTheTopology
    <3>1. tpFile # << >> /\ tpSaved # << >> /\ tpFile[1] = tpSaved[1] /\ tpFile[2] = Built(f) /\ tpSaved[2] = f
      BY <2>2
    <3> QED BY <3>1, <2>2, RestoredBuilt DEF ReloadGivesBackTheTopology
  <2> QED BY <2>1, <2>2 DEF TpInv, SavedIsStored
<1>2. ToolNodesSettle
  <2>1. tpRun.phase = "done" => tpRun.calls = << >>
    BY DEF TpInv, CallsHaveNodes
  <2> QED BY <2>1 DEF TpInv, RunningIsAwaited, Awaited, ToolNodesSettle
<1> QED BY <1>1, <1>2

\* What a viewer sees is its tenant's and is true: no publish to collaboration
\* sessions crosses tenants, a dashboard broadcast reaches everybody due once, a topology file loads as
\* it was saved, and a stream that is done leaves no node running for which a
\* result was still to come.
THEOREM NetworkViewersSeeTheTruth == Spec => []ViewersSeeTheTruth
<1>1. Init => TpInv /\ WsInv
  BY TpStarts, WsStarts DEF Init
<1>2. TpInv /\ WsInv /\ [Next]_netVars => (TpInv /\ WsInv)'
  <2> SUFFICES ASSUME TpInv, WsInv, [Next]_netVars PROVE TpInv' /\ WsInv'
    OBVIOUS
  <2>1. TopologyNext \/ UNCHANGED tpVars
    BY DEF netVars, Next, MeshStep, RegionStep, RouterStep, TopologyStep, CloudStep, SessionStep,
           DashboardStep, CrewStep, OverlayStep
  <2> QED BY <2>1, TopologyStepKeeps, TpStays, WsSteps
<1>3. TpInv /\ WsInv => ViewersSeeTheTruth
  BY TopologyIsTrue, WsIsTrue DEF ViewersSeeTheTruth
<1> QED BY <1>1, <1>2, <1>3, PTL DEF Spec

=============================================================================
