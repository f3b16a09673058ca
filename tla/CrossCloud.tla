----------------------------- MODULE CrossCloud -----------------------------
(***************************************************************************)
(* The cross-cloud gateway (core/cross_cloud_gateway.py), its routes       *)
(* (routes/cross_cloud.py) and the certificate revocation list kept in the *)
(* audit ledger's database (core/audit_ledger.py).  Several processes run  *)
(* a gateway over one database: each caches revoked fingerprints in memory *)
(* and asks the database as well.  Remote clouds open tunnels with a       *)
(* certificate; a tunnel is entered in peers after the handshake has been  *)
(* answered, and leaves it when its loop ends.                             *)
(*                                                                         *)
(* A certificate is its fingerprint.  A handshake whose signature does not *)
(* verify is refused and changes nothing, so only good ones are modelled.  *)
(***************************************************************************)
EXTENDS Naturals, FiniteSets

CONSTANTS
    Gateways,      \* processes over one database
    Clouds,        \* names of remote clouds
    Certs,         \* fingerprints remote clouds present
    CcTunnels,       \* WebSocket connections, each used once
    MaxCcRestarts, \* bound: process restarts
    MaxRotations   \* bound: rotations of a gateway's own certificate

ASSUME CrossCloudConstants == MaxCcRestarts \in Nat /\ MaxRotations \in Nat

VARIABLES
    ccCache,     \* revoked_certs of each gateway
    ccDb,        \* table revoked_certificates
    ccTunnels,   \* tunnel -> [state, gate, cloud, cert]
    ccPeers,     \* gateway -> cloud -> << >>, << "tunnel", t >> or << "seed", cert >>
    ccOwn,       \* gateway -> [sha, prev, timers]: its own certificate
    ccRestarts   \* restarts so far

ccVars == << ccCache, ccDb, ccTunnels, ccPeers, ccOwn, ccRestarts >>

Fresh(gen) == [sha |-> gen, prev |-> 0, timers |-> 0]
NoTunnel == [state |-> "new", gate |-> << >>, cloud |-> << >>, cert |-> << >>]

CcInit ==
    /\ ccCache = [g \in Gateways |-> {}] /\ ccDb = {}
    /\ ccTunnels = [t \in CcTunnels |-> NoTunnel]
    /\ ccPeers = [g \in Gateways |-> [c \in Clouds |-> << >>]]
    /\ ccOwn = [g \in Gateways |-> Fresh(1)]
    /\ ccRestarts = 0

\* the revoked_certificates table: revoke_certificate, reinstate_certificate,
\* is_certificate_revoked and get_revoked_certificates
StoreRevocation(cert) == ccDb' = ccDb \union {cert}
StoreReinstatement(cert) == ccDb' = ccDb \ {cert}
RevokedInDb(cert) == cert \in ccDb
RevokedList == ccDb
NotStored == UNCHANGED ccDb

\* the cache of the process, then the database
IsRevoked(g, cert) == cert \in ccCache[g] \/ RevokedInDb(cert)

\* validate_handshake refuses, and remembers the fingerprint; the socket is closed
HandshakeRefused(g, t, cert) ==
    /\ ccTunnels[t].state = "new" /\ IsRevoked(g, cert)
    /\ ccCache' = [ccCache EXCEPT ![g] = @ \union {cert}]
    /\ ccTunnels' = [ccTunnels EXCEPT ![t].state = "closed"]
    /\ UNCHANGED << ccDb, ccPeers, ccOwn, ccRestarts >>

\* validate_handshake accepts; websocket.accept() is awaited
HandshakeAccepted(g, t, c, cert) ==
    /\ ccTunnels[t].state = "new" /\ ~IsRevoked(g, cert)
    /\ ccTunnels' = [ccTunnels EXCEPT ![t] =
           [state |-> "accepting", gate |-> g, cloud |-> c, cert |-> cert]]
    /\ UNCHANGED << ccCache, ccDb, ccPeers, ccOwn, ccRestarts >>

\* the tunnel is entered under its cloud's name, without its fingerprint
TunnelOpens(t) ==
    /\ ccTunnels[t].state = "accepting"
    /\ ccTunnels' = [ccTunnels EXCEPT ![t].state = "open"]
    /\ ccPeers' = [ccPeers EXCEPT ![ccTunnels[t].gate][ccTunnels[t].cloud] = << "tunnel", t >>]
    /\ UNCHANGED << ccCache, ccDb, ccOwn, ccRestarts >>

\* accept() failed: the endpoint ends before its try block
AcceptFails(t) ==
    /\ ccTunnels[t].state = "accepting"
    /\ ccTunnels' = [ccTunnels EXCEPT ![t].state = "closed"]
    /\ UNCHANGED << ccCache, ccDb, ccPeers, ccOwn, ccRestarts >>

\* Mutant: the entry of the cloud stays.
LeftPeers(t) == ccPeers

\* the receive loop ends (the peer left, or the socket was closed): finally
EndedPeers(t) == [ccPeers EXCEPT ![ccTunnels[t].gate][ccTunnels[t].cloud] = << >>]

TunnelEnds(t) ==
    /\ ccTunnels[t].state \in {"open", "closing"}
    /\ ccTunnels' = [ccTunnels EXCEPT ![t].state = "closed"]
    /\ ccPeers' = EndedPeers(t)
    /\ UNCHANGED << ccCache, ccDb, ccOwn, ccRestarts >>

(***************************************************************************)
(* POST /v1/cross-cloud/revoke, for a fingerprint or for a cloud.  The     *)
(* database write may fail and is then only logged.                        *)
(***************************************************************************)
Associated(g, cert) == {c \in Clouds : ccPeers[g][c] = << "seed", cert >>}

RevokeCert(g, cert, stored) ==
    /\ ccCache' = [ccCache EXCEPT ![g] = @ \union {cert}]
    /\ IF stored THEN StoreRevocation(cert) ELSE NotStored
    /\ ccPeers' = [ccPeers EXCEPT ![g] =
           [c \in Clouds |-> IF c \in Associated(g, cert) THEN << >> ELSE @[c]]]
    /\ UNCHANGED << ccTunnels, ccOwn, ccRestarts >>

RevokeCloud(g, c) ==
    /\ ccPeers[g][c] # << >>
    /\ ccPeers' = [ccPeers EXCEPT ![g][c] = << >>]
    /\ ccTunnels' = IF ccPeers[g][c][1] = "tunnel"
                    THEN [ccTunnels EXCEPT ![ccPeers[g][c][2]].state = "closing"]
                    ELSE ccTunnels
    /\ UNCHANGED << ccCache, ccDb, ccOwn, ccRestarts >>

\* POST /v1/cross-cloud/reinstate
Reinstate(g, cert, stored) ==
    /\ ccCache' = [ccCache EXCEPT ![g] = @ \ {cert}]
    /\ IF stored THEN StoreReinstatement(cert) ELSE NotStored
    /\ UNCHANGED << ccTunnels, ccPeers, ccOwn, ccRestarts >>

\* rotate_certificate: the old fingerprint keeps a grace period
RotateOwn(g) ==
    /\ ccOwn[g].sha < MaxRotations
    /\ ccOwn' = [ccOwn EXCEPT ![g] =
           [sha |-> @.sha + 1, prev |-> @.sha, timers |-> @.timers + 1]]
    /\ UNCHANGED << ccCache, ccDb, ccTunnels, ccPeers, ccRestarts >>

\* clear_prev_sha, thirty seconds after a rotation
GraceEnds(g) ==
    /\ ccOwn[g].timers > 0
    /\ ccOwn' = [ccOwn EXCEPT ![g].timers = @ - 1,
                    ![g].prev = IF @ = ccOwn[g].sha THEN @ ELSE 0]
    /\ UNCHANGED << ccCache, ccDb, ccTunnels, ccPeers, ccRestarts >>

\* discover_peers enters a simulated peer with a fingerprint, unchecked
DiscoverPeer(g, c, cert) ==
    /\ ccPeers' = [ccPeers EXCEPT ![g][c] = << "seed", cert >>]
    /\ UNCHANGED << ccCache, ccDb, ccTunnels, ccOwn, ccRestarts >>

\* a new process: the constructor loads the list from the database
CcRestart(g) ==
    /\ ccRestarts < MaxCcRestarts
    /\ ccRestarts' = ccRestarts + 1
    /\ ccCache' = [ccCache EXCEPT ![g] = RevokedList]
    /\ ccOwn' = [ccOwn EXCEPT ![g] = Fresh(1)]
    /\ ccPeers' = [ccPeers EXCEPT ![g] = [c \in Clouds |-> << >>]]
    /\ ccTunnels' = [t \in CcTunnels |->
           IF ccTunnels[t].gate = g THEN [ccTunnels[t] EXCEPT !.state = "closed"] ELSE ccTunnels[t]]
    /\ UNCHANGED ccDb

CcNext ==
    \/ \E g \in Gateways, t \in CcTunnels, cert \in Certs :
          \/ HandshakeRefused(g, t, cert)
          \/ \E c \in Clouds : HandshakeAccepted(g, t, c, cert)
    \/ \E t \in CcTunnels : TunnelOpens(t) \/ AcceptFails(t) \/ TunnelEnds(t)
    \/ \E g \in Gateways, cert \in Certs :
          \/ \E stored \in BOOLEAN : RevokeCert(g, cert, stored) \/ Reinstate(g, cert, stored)
          \/ \E c \in Clouds : DiscoverPeer(g, c, cert)
    \/ \E g \in Gateways, c \in Clouds : RevokeCloud(g, c)
    \/ \E g \in Gateways : RotateOwn(g) \/ GraceEnds(g) \/ CcRestart(g)

-----------------------------------------------------------------------------
(***************************************************************************)
(* A packet is routed only into a tunnel that is still open: whatever      *)
(* order tunnels of one cloud open and end in, a peers entry never names a *)
(* socket whose endpoint is gone (the finally of the endpoint).  The       *)
(* converse is not promised: the end of an older tunnel of the cloud takes *)
(* the newer one's entry away.                                             *)
(***************************************************************************)
RoutesLeadToOpenTunnels ==
    \A g \in Gateways, c \in Clouds :
        (ccPeers[g][c] # << >> /\ ccPeers[g][c][1] = "tunnel")
            => ccTunnels[ccPeers[g][c][2]].state = "open"

(***************************************************************************)
(* The revoke route's comment: "Disconnect any peer associated with this   *)
(* certificate".  No tunnel opened with a certificate stays open in the    *)
(* gateway that has revoked it.                                            *)
(***************************************************************************)
RevokedPeersAreDisconnected ==
    [][\A t \in CcTunnels : \A g \in Gateways :
          (/\ ccTunnels[t].state = "open" /\ ccTunnels[t].gate = g
           /\ ccTunnels[t].cert \notin ccCache[g] /\ ccTunnels[t].cert \in ccCache'[g])
              => ccTunnels'[t].state # "open"]_ccVars
=============================================================================
