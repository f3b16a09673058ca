------------------------------ MODULE Governance ------------------------------
(***************************************************************************)
(* Swarm governance: calibration proposals and votes (core/governance.py), *)
(* consensus certificates (core/discussion/consensus.py), and the          *)
(* intrusion detection that counts bad signatures, quarantines members and *)
(* then rotates every key (core/discussion/ids.py). A signature is the key *)
(* it was made with: it verifies while that key is current.                *)
(***************************************************************************)
EXTENDS Integers, Sequences, FiniteSets, SequencesExt

CONSTANTS
    GovMembers,        \* the roles of the swarm, in order (five in the code)
    Rules,          \* kinds of rule: the payload hash depends on nothing else
    MaxProposals,   \* bound: proposals
    FailureLimit,   \* bad signatures until the quarantine (3 in the code)
    MaxKeys         \* bound: generations of keys

ASSUME GovernanceAssumption ==
    /\ GovMembers \in Seq(STRING) /\ IsInjective(GovMembers)
    /\ {MaxProposals, FailureLimit, MaxKeys} \subseteq Nat

VARIABLES
    gProposals,     \* the proposals file, in order
    gRegistry,      \* the registry file: a certificate per payload hash
    gKey,           \* generation of the keys in memory
    gNewKey,        \* the last generation made
    gConfigured,    \* the generation in the configuration
    gFailures, gQuarantined,
    gBad            \* history: members whose signature was not their own

govVars == <<gProposals, gRegistry, gKey, gNewKey, gConfigured, gFailures, gQuarantined, gBad>>
ids == <<gKey, gNewKey, gFailures, gQuarantined>>

MemberSet == Range(GovMembers)

\* Mutant: half of the swarm is enough.
MajorityHalf == Len(GovMembers) \div 2

Majority == Len(GovMembers) \div 2 + 1

NoCert == [approvals |-> <<>>, key |-> 0]
\* Members, in the order of the swarm.
InOrder(ms) ==
    LET list[n \in 0 .. Len(GovMembers)] ==
            IF n = 0 THEN << >>
            ELSE IF GovMembers[n] \in ms THEN Append(list[n - 1], GovMembers[n]) ELSE list[n - 1]
    IN  list[Len(GovMembers)]

Voters(p, v) == {m \in MemberSet : p.votes[m] = v}
Voting(p, v) == InOrder(Voters(p, v))

GovInit ==
    /\ gProposals = <<>> /\ gRegistry = [r \in Rules |-> NoCert]
    /\ gKey = 1 /\ gNewKey = 1 /\ gConfigured = 1
    /\ gFailures = [m \in MemberSet |-> 0] /\ gQuarantined = {} /\ gBad = {}
-----------------------------------------------------------------------------
\* check_and_trigger_calibration: one open proposal per kind of rule.
Propose(r) ==
    /\ Len(gProposals) < MaxProposals
    /\ \A i \in DOMAIN gProposals : gProposals[i].rule = r => gProposals[i].status = "rejected"
    /\ gProposals' = Append(gProposals, [rule |-> r, status |-> "proposed",
                                         votes |-> [m \in MemberSet |-> "none"]])
    /\ UNCHANGED <<gRegistry, gKey, gNewKey, gConfigured, gFailures, gQuarantined, gBad>>

Ids0 == [key |-> gKey, new |-> gNewKey, fails |-> gFailures, quarantined |-> gQuarantined, valid |-> <<>>]

\* Mutant: a quarantine keeps the keys.
RecordFailureKeepsKeys(s, m) ==
    LET fails == [s.fails EXCEPT ![m] = @ + 1]
    IN  IF fails[m] >= FailureLimit /\ m \notin s.quarantined
        THEN [s EXCEPT !.fails = fails, !.quarantined = @ \cup {m}]
        ELSE [s EXCEPT !.fails = fails]

\* record_failure and, at the limit, quarantine_node, which rotates all keys.
RecordFailure(s, m) ==
    LET fails == [s.fails EXCEPT ![m] = @ + 1]
    IN  IF fails[m] >= FailureLimit /\ m \notin s.quarantined
        THEN [s EXCEPT !.fails = fails, !.quarantined = @ \cup {m}, !.new = @ + 1, !.key = s.new + 1]
        ELSE [s EXCEPT !.fails = fails]

\* verify_consensus_certificate goes through the approvals in order: a
\* rotation on the way makes the signatures that follow bad as well.
CheckSignature(cert, s, m) ==
    IF m \in s.quarantined THEN s
    ELSE IF cert.key = s.key THEN [s EXCEPT !.valid = Append(@, m)]
    ELSE RecordFailure(s, m)

CheckSignatures(cert) ==
    LET after[n \in 0 .. Len(cert.approvals)] ==
            IF n = 0 THEN Ids0 ELSE CheckSignature(cert, after[n - 1], cert.approvals[n])
    IN  after[Len(cert.approvals)]

\* A majority of valid signatures, and a master signature over exactly them
\* with the current key.
Verified(cert, s) ==
    /\ Len(s.valid) >= Majority
    /\ Range(s.valid) = Range(cert.approvals) /\ cert.key = s.key

GovRecord(s) ==
    /\ gKey' = s.key /\ gNewKey' = s.new /\ gFailures' = s.fails /\ gQuarantined' = s.quarantined

\* create_consensus_certificate: the approvals of members not quarantined.
Certificate(p) ==
    [approvals |-> InOrder(Voters(p, "approve") \ gQuarantined), key |-> gKey]

\* cast_vote with a current signature (any other is turned away). The status
\* of the proposal is not looked at, and a member may vote again. Accepting
\* needs a certificate that can be made and registered: when that fails
\* nothing of the vote is saved.
CastVote(i, m, v) ==
    LET p == [gProposals[i] EXCEPT !.votes[m] = v]
        cert == Certificate(p)
        s == CheckSignatures(cert)
    IN  /\ IF Len(Voting(p, "approve")) >= Majority
           THEN /\ Len(cert.approvals) >= Majority /\ Verified(cert, s)
                /\ gProposals' = [gProposals EXCEPT ![i] = [p EXCEPT !.status = "accepted"]]
                /\ gRegistry' = [gRegistry EXCEPT ![p.rule] = cert]
           ELSE /\ gProposals' = [gProposals EXCEPT ![i] =
                       IF Len(Voting(p, "reject")) >= Majority THEN [p EXCEPT !.status = "rejected"] ELSE p]
                /\ UNCHANGED gRegistry
        /\ UNCHANGED <<ids, gConfigured, gBad>>

\* is_consensus_approved, which get_active_rules, the policy gate, the sandbox
\* and the skill loader ask: a read that counts bad signatures.
CheckApproved(r) ==
    /\ gRegistry[r] # NoCert /\ GovRecord(CheckSignatures(gRegistry[r]))
    /\ UNCHANGED <<gProposals, gRegistry, gConfigured, gBad>>

\* The policy gate is handed a certificate in which a member's signature is
\* not the member's own.
CheckForeign(m) ==
    /\ m \notin gQuarantined /\ gNewKey < MaxKeys
    /\ GovRecord(RecordFailure(Ids0, m))
    /\ gBad' = gBad \cup {m}
    /\ UNCHANGED <<gProposals, gRegistry, gConfigured>>

\* A restart forgets the quarantine and the rotated keys, not the registry.
Restart ==
    /\ gKey' = gConfigured /\ gFailures' = [m \in MemberSet |-> 0] /\ gQuarantined' = {}
    /\ UNCHANGED <<gProposals, gRegistry, gNewKey, gConfigured, gBad>>

GovNext ==
    /\ \/ \E r \in Rules : Propose(r) \/ CheckApproved(r)
       \/ \E i \in DOMAIN gProposals, m \in MemberSet, v \in {"approve", "reject"} : CastVote(i, m, v)
       \/ \E m \in MemberSet : CheckForeign(m)
       \/ Restart
    /\ gNewKey' <= MaxKeys
-----------------------------------------------------------------------------
\* The rules get_active_rules returns: accepted, and the registered
\* certificate still verifies.
ActiveRules ==
    {r \in Rules : /\ \E i \in DOMAIN gProposals : gProposals[i].rule = r /\ gProposals[i].status = "accepted"
                   /\ Verified(gRegistry[r], CheckSignatures(gRegistry[r]))}

\* An active rule is certified by a majority of the swarm, none of them
\* quarantined now, with the keys the swarm uses now: a quarantine, the
\* rotation that follows it and a restart between them never leave a rule
\* active on signatures that no longer count.
ActiveRulesAreCertified ==
    \A r \in ActiveRules :
        /\ 2 * Cardinality(Range(gRegistry[r].approvals)) > Len(GovMembers)
        /\ Range(gRegistry[r].approvals) \cap gQuarantined = {}
        /\ gRegistry[r].key = gKey

\* A quarantine ends every certificate the swarm has given: no rule stays
\* active through it until the members left have voted again.
QuarantineRevokes == [][~(gQuarantined' \subseteq gQuarantined) => ActiveRules' = {}]_govVars

\* The members in quarantine are ones that produced a bad signature
\* (docs/obsidian/modules/core/core-discussion-room.md: "An agent producing 3
\* consecutive malformed outputs is automatically quarantined by SwarmIDS").
OnlyTheBadAreQuarantined == gQuarantined \subseteq gBad
=============================================================================
