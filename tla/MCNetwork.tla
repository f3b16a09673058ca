----------------------------- MODULE MCNetwork ------------------------------
(* The parts that hold nodes, regions, clouds and viewers together over a    *)
(* network, for TLC.  An instance explores one of them (focus) and keeps the *)
(* others as they start.                                                     *)
EXTENDS Mesh, MultiCluster, P2P, Topology, CrossCloud, Collab, Overlay

VARIABLE focus

\* One node alone in its region, the others together.
TwoRegions ==
    LET lone == CHOOSE n \in Nodes : TRUE
    IN  [n \in Nodes |-> IF n = lone THEN "EU_CENTRAL" ELSE "US_EAST"]

Init ==
    /\ focus \in {"mesh", "regions", "routers", "topology", "clouds", "sessions", "dashboard", "crew", "overlay"}
    /\ strict \in IF focus = "mesh" THEN BOOLEAN ELSE {TRUE}
    /\ MeshInit /\ McInit /\ P2PInit /\ TopologyInit /\ CcInit /\ CollabInit /\ OverlayInit

netVars == <<focus, meshVars, mcVars, p2pVars, tpVars, ccVars, wsVars, ovVars>>

\* The mesh as one node sees it: a peer that rotates its certificate, and a third node that may
\* go by the peer's name.  What a node keeps depends on nothing that other nodes keep.
Watching == CHOOSE n \in MeshNodes : TRUE
Watched == CHOOSE n \in MeshNodes \ {Watching} : TRUE

MeshStep ==
    /\ focus = "mesh" /\ MeshNext
    /\ \A n \in MeshNodes \ {Watched} : meshCert'[n] = 1
    /\ \A n \in MeshNodes \ {Watching} : issuing'[n] = {}
    /\ \A n, p \in MeshNodes : directory'[n][p] # << >> =>
         n = Watching /\ p = Watched /\ directory'[n][p].cert # Cert(Watching)
    /\ \A m \in inFlight' : m.to = Watching /\ m.from = Watched /\ m.cert # Cert(Watching)
    /\ strict \/ Cardinality(inFlight') <= 1
    /\ UNCHANGED <<focus, mcVars, p2pVars, tpVars, ccVars, wsVars, ovVars>>
RegionStep == focus = "regions" /\ McNext /\ UNCHANGED <<focus, meshVars, p2pVars, tpVars, ccVars, wsVars, ovVars>>
RouterStep == focus = "routers" /\ P2PNext /\ UNCHANGED <<focus, meshVars, mcVars, tpVars, ccVars, wsVars, ovVars>>
TopologyStep == focus = "topology" /\ TopologyNext /\ UNCHANGED <<focus, meshVars, mcVars, p2pVars, ccVars, wsVars, ovVars>>
CloudStep == focus = "clouds" /\ CcNext /\ UNCHANGED <<focus, meshVars, mcVars, p2pVars, tpVars, wsVars, ovVars>>
\* Collaboration sessions, with one socket unused: the dashboard and the crew need them all.
SessionStep ==
    /\ focus = "sessions" /\ CollabNext
    /\ \E s \in Sockets : wsSock'[s].phase = "new"
    /\ UNCHANGED <<focus, meshVars, mcVars, p2pVars, tpVars, ccVars, ovVars>>
DashboardStep == focus = "dashboard" /\ DashNext /\ UNCHANGED <<focus, meshVars, mcVars, p2pVars, tpVars, ccVars, ovVars>>
OverlayStep == focus = "overlay" /\ OverlayNext /\ UNCHANGED <<focus, meshVars, mcVars, p2pVars, tpVars, ccVars, wsVars>>
CrewStep == focus = "crew" /\ CrewNext /\ UNCHANGED <<focus, meshVars, mcVars, p2pVars, tpVars, ccVars, ovVars>>

Next ==
    \/ MeshStep \/ RegionStep \/ RouterStep \/ TopologyStep
    \/ CloudStep \/ SessionStep \/ DashboardStep \/ CrewStep \/ OverlayStep

Spec == Init /\ [][Next]_netVars
-----------------------------------------------------------------------------
(* Properties that several parts share. *)

\* A peer is trusted for what was proved under its name: a delegation uses a
\* certificate proven since the peer was registered, and a challenge verifies
\* one proof and one for each time a rebuilt dictionary brought it back,
\* whatever is rotated, late, delivered twice or sent under another's name.
PeersAreAttested == TrustIsEarned /\ ChallengesAreSingleUse

\* The regions apply the same entries at the same places and skip none,
\* through elections, replications and lost regions.
RegionsAgree == RegionsApplyTheSame /\ AppliedWasThere

\* What a process keeps about its connections is true of the network: tunnels
\* are listened on, waiting calls are listed, what routes lead to is open, and
\* sockets that come, go and fail leave nothing behind and lose nobody; an
\* overlay address is one node's for ever.
TablesMatchTheNetwork ==
    /\ TunnelsAreListened /\ PendingAreWaiting /\ RoutesLeadToOpenTunnels
    /\ EndedSocketsAreForgotten /\ ListenersStayListed /\ AddressesAreNeverShared

\* What a viewer sees is its tenant's and is true: nothing that another tenant
\* publishes to collaboration sessions, each dashboard event once, and a topology that survives a crash and
\* whose tool nodes settle.
ViewersSeeTheTruth ==
    /\ TenantsStayApart /\ DashboardsHearOnce
    /\ ReloadGivesBackTheTopology /\ ToolNodesSettle
=============================================================================
