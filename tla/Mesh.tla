-------------------------------- MODULE Mesh --------------------------------
(***************************************************************************)
(* The federated mesh of core/federated_mesh.py: peers are registered,     *)
(* attested by a challenge and delegate work to each other.  A certificate *)
(* is <<holder, generation>>; only the holder signs with it, and a         *)
(* signature verifies against exactly one certificate.  Proofs and         *)
(* requests travel as HTTP bodies: they may be late, lost or delivered     *)
(* twice, and they carry the name of their origin, which nothing ties to   *)
(* the certificate: a node is called what it was configured with.  The     *)
(* routes run on a pool of threads.                                        *)
(***************************************************************************)
EXTENDS Naturals, FiniteSets

CONSTANTS
    MeshNodes,
    MaxGenerations,   \* bound: certificates of one node
    MaxChallenges,    \* bound: challenges issued in all
    MaxInFlight       \* bound: proofs and requests ever sent

ASSUME MeshAssumption ==
    MaxGenerations \in Nat /\ MaxChallenges \in Nat /\ MaxInFlight \in Nat

VARIABLES
    strict,      \* strict_attestation, the same at every node
    meshCert,    \* per node: the generation of its certificate
    meshStale,   \* certificates whose validity has ended
    directory,   \* per node and peer: << >>, or certificate and status
    challenges,  \* per node: active_challenges, as numbers
    lateOnes,    \* challenges whose time is over
    issuing,     \* per node: calls of generate_attestation_challenge under way
    issued,      \* challenges issued so far
    inFlight,    \* proofs and requests somebody has sent
    proven,      \* history: per node and peer, the certificates it proved since it registered
    uses,        \* history: per challenge, the proofs it verified
    returned,    \* history: per challenge, how often a rebuilt dictionary brought it back
    earned       \* history: every delegation accepted or handed out was on a proven certificate

challengeVars == <<challenges, lateOnes, issuing, issued, uses, returned>>
meshVars == <<strict, meshCert, meshStale, directory, challengeVars, inFlight, proven, earned>>

Cert(h) == <<h, meshCert[h]>>
NoCert == << >>

Registered(n, p) == directory[n][p] # << >>
Verified(n, p) == Registered(n, p) /\ directory[n][p].status = "VERIFIED"

MeshInit ==
    /\ strict \in BOOLEAN
    /\ meshCert = [n \in MeshNodes |-> 1]
    /\ meshStale = {}
    /\ directory = [n \in MeshNodes |-> [p \in MeshNodes |-> << >>]]
    /\ challenges = [n \in MeshNodes |-> {}]
    /\ issuing = [n \in MeshNodes |-> {}]
    /\ issued = 0 /\ lateOnes = {} /\ inFlight = {}
    /\ proven = [n \in MeshNodes |-> [p \in MeshNodes |-> {}]]
    /\ uses = [c \in 1 .. MaxChallenges |-> 0]
    /\ returned = [c \in 1 .. MaxChallenges |-> 0]
    /\ earned = TRUE
-----------------------------------------------------------------------------
\* register_peer replaces the profile.
Register(n, p, cert) ==
    directory' = [directory EXCEPT ![n][p] = [cert |-> cert, status |-> "PENDING"]]

\* POST /join, without a certificate or with the one the caller gives for the peer.
JoinPeer(n, p) ==
    /\ n # p
    /\ \E cert \in {NoCert} \cup {Cert(h) : h \in MeshNodes} : Register(n, p, cert)
    /\ proven' = [proven EXCEPT ![n][p] = {}]
    /\ UNCHANGED <<strict, meshCert, meshStale, challengeVars, inFlight, earned>>

\* generate_self_signed_cert: a new key and certificate every time.
NewCert(n) == meshCert[n] + 1

\* rotate_cert: only the node's own copy changes.
RotateCert(n) ==
    /\ meshCert[n] < MaxGenerations
    /\ meshCert' = [meshCert EXCEPT ![n] = NewCert(n)]
    /\ UNCHANGED <<strict, meshStale, directory, challengeVars, inFlight, proven, earned>>

\* A certificate outlives its validity; check_and_auto_rotate_cert was not called in time.
\* (Bound: one certificate in a behaviour.)
CertExpires(n) ==
    /\ meshStale = {}
    /\ meshStale' = meshStale \cup {Cert(n)}
    /\ UNCHANGED <<strict, meshCert, directory, challengeVars, inFlight, proven, earned>>

\* generate_attestation_challenge reads the challenges that have not expired,
KeepChallenges(n) ==
    /\ issued < MaxChallenges /\ issued' = issued + 1
    /\ issuing' = [issuing EXCEPT ![n] =
         @ \cup {[id |-> issued + 1, kept |-> challenges[n] \ lateOnes, assigned |-> FALSE]}]
    /\ UNCHANGED <<strict, meshCert, meshStale, directory, challenges, lateOnes, uses, returned,
                   inFlight, proven, earned>>

\* ... makes them active_challenges: what another thread took out in between is back, what it
\* added is lost,
AssignKept(n) ==
    \E g \in issuing[n] :
        /\ ~g.assigned
        /\ challenges' = [challenges EXCEPT ![n] = g.kept]
        /\ returned' = [c \in DOMAIN returned |->
             IF c \in g.kept \ challenges[n] THEN returned[c] + 1 ELSE returned[c]]
        /\ issuing' = [issuing EXCEPT ![n] = (@ \ {g}) \cup {[g EXCEPT !.assigned = TRUE]}]
        /\ UNCHANGED <<strict, meshCert, meshStale, directory, lateOnes, issued, uses, inFlight, proven, earned>>

\* ... and adds the new one to what is there now.
AddChallenge(n) ==
    \E g \in issuing[n] :
        /\ g.assigned
        /\ challenges' = [challenges EXCEPT ![n] = @ \cup {g.id}]
        /\ issuing' = [issuing EXCEPT ![n] = @ \ {g}]
        /\ UNCHANGED <<strict, meshCert, meshStale, directory, lateOnes, issued, uses, returned,
                       inFlight, proven, earned>>

ChallengeExpires(c) ==
    /\ c \notin lateOnes /\ lateOnes' = lateOnes \cup {c}
    /\ UNCHANGED <<strict, meshCert, meshStale, directory, challenges, issuing, issued, uses, returned,
                   inFlight, proven, earned>>

\* create_attestation_proof: h signs a challenge of n with its current key, as the node it says it is.
\* Whom the challenge was issued for is not looked at.
CreateProof(h, n) ==
    \E c \in challenges[n], name \in MeshNodes \ {n} :
        /\ h # n /\ Cardinality(inFlight) < MaxInFlight
        /\ inFlight' = inFlight \cup
             {[kind |-> "proof", from |-> name, to |-> n, cert |-> Cert(h), id |-> c]}
        /\ UNCHANGED <<strict, meshCert, meshStale, directory, challengeVars, proven, earned>>

\* Mutant: a challenge is dropped only by a proof that verifies a registered peer.
TakeChallengeIfRegistered(n, c, p) ==
    challenges' = IF Registered(n, p) THEN [challenges EXCEPT ![n] = @ \ {c}] ELSE challenges

\* active_challenges.pop comes first.
TakeChallenge(n, c, p) == challenges' = [challenges EXCEPT ![n] = @ \ {c}]

\* is_cert_valid: the structure is right and now is within the validity.
CertValid(cert) == cert \notin meshStale

\* verify_attestation_proof.  Behind the pop it reads the proof and the clock only, so the rest
\* is one step with it.  A proof of a node that is not registered counts but promotes nobody.
VerifyProof(m) ==
    /\ m.kind = "proof" /\ m.id \in challenges[m.to]
    /\ TakeChallenge(m.to, m.id, m.from)
    /\ IF m.id \in lateOnes \/ ~CertValid(m.cert) THEN UNCHANGED <<directory, proven, uses>>
       ELSE /\ uses' = [uses EXCEPT ![m.id] = @ + 1]
            /\ IF Registered(m.to, m.from)
               THEN /\ directory' = [directory EXCEPT ![m.to][m.from] =
                                       [cert |-> m.cert, status |-> "VERIFIED"]]
                    /\ proven' = [proven EXCEPT ![m.to][m.from] = @ \cup {m.cert}]
               ELSE UNCHANGED <<directory, proven>>
    /\ UNCHANGED <<strict, meshCert, meshStale, lateOnes, issuing, issued, returned, inFlight, earned>>
-----------------------------------------------------------------------------
\* select_best_peer: the candidates; latency and load choose among them.
Candidates(n) ==
    {p \in MeshNodes \ {n} : Registered(n, p) /\ (strict => Verified(n, p))}

\* sign_delegation_request, and a request that is not signed.
Requests(h, name, n) ==
    {[kind |-> "request", from |-> name, to |-> n, cert |-> cert, id |-> 0] : cert \in {Cert(h), NoCert}}

\* A request on its way to POST /delegate/turn or /delegate/verify.
SendRequest(h, n) ==
    /\ Cardinality(inFlight) < MaxInFlight
    /\ \E name \in MeshNodes \ {n} : \E m \in Requests(h, name, n) : inFlight' = inFlight \cup {m}
    /\ UNCHANGED <<strict, meshCert, meshStale, directory, challengeVars, proven, earned>>

\* delegate_debate_speech, delegate_test_verification and delegate_multimodal_verification:
\* the work is handed to the best peer, or stays here.  _send_delegation_request signs the
\* request and answers in the peer's place.
Delegate(n) ==
    \E p \in Candidates(n) :
        /\ earned' = (earned /\ directory[n][p].cert \in proven[n][p])
        /\ UNCHANGED <<strict, meshCert, meshStale, directory, challengeVars, inFlight, proven>>

\* Mutant: the status is taken for enough, whatever the request is signed with.
AcceptsByStatus(m) ==
    strict => Verified(m.to, m.from) /\ directory[m.to][m.from].cert # NoCert

\* verify_delegation_request
Accepts(m) ==
    /\ m.cert # NoCert /\ Registered(m.to, m.from) /\ directory[m.to][m.from].cert # NoCert =>
           m.cert = directory[m.to][m.from].cert
    /\ strict => /\ Verified(m.to, m.from)
                 /\ directory[m.to][m.from].cert # NoCert /\ m.cert # NoCert

\* POST /delegate/turn and /delegate/verify: an unverified request is answered with 403.
ReceiveRequest(m) ==
    /\ m.kind = "request"
    /\ Accepts(m)
    /\ earned' = (earned /\ m.cert \in proven[m.to][m.from])
    /\ UNCHANGED <<strict, meshCert, meshStale, directory, challengeVars, inFlight, proven>>
-----------------------------------------------------------------------------
MeshNext ==
    \/ \E n, p \in MeshNodes : JoinPeer(n, p) \/ CreateProof(n, p) \/ SendRequest(n, p)
    \/ \E n \in MeshNodes :
         \/ RotateCert(n) \/ CertExpires(n) \/ Delegate(n)
         \/ KeepChallenges(n) \/ AssignKept(n) \/ AddChallenge(n)
    \/ \E c \in 1 .. issued : ChallengeExpires(c)
    \/ \E m \in inFlight : VerifyProof(m) \/ ReceiveRequest(m)

MeshSpec == MeshInit /\ [][MeshNext]_meshVars
-----------------------------------------------------------------------------
\* Under strict attestation a node works with a peer only on a certificate whose holder answered
\* one of the node's own challenges under that peer's name, in time, after the peer was last
\* registered: certificates given at a join, rotations, proofs delivered late or twice and other
\* holders under the same name never leave an unproven certificate in force.  Whose name it is,
\* nobody proves (verify_attestation_proof, verify_delegation_request).
TrustIsEarned == strict => earned

\* Every challenge verifies at most one proof, and one more for each time that a dictionary
\* rebuilt on another thread brought it back (generate_attestation_challenge).
ChallengesAreSingleUse == \A c \in 1 .. issued : uses[c] <= 1 + returned[c]

\* "Issues a single-use cryptographic challenge": false, for such a dictionary.
ChallengesVerifyOnce == \A c \in 1 .. issued : uses[c] <= 1
=============================================================================
