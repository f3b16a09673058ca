------------------------------ MODULE Overlay ------------------------------
(***************************************************************************)
(* The overlay tunnels of core/mesh_tunnel/tunnel.py (MeshNATBridge):      *)
(* endpoints register and get a virtual address, a tunnel between two of   *)
(* them is a session under the names of both.  establish_tunnel reads the  *)
(* endpoints, awaits the handshake and then stores the session; endpoints  *)
(* come and go meanwhile.                                                  *)
(***************************************************************************)
EXTENDS Integers, FiniteSets

CONSTANTS
    OvNodes,       \* nodes
    MaxAddresses,  \* bound: registrations
    MaxHandshakes  \* bound: handshakes in flight

ASSUME OverlayAssumption == MaxAddresses \in Nat /\ MaxHandshakes \in Nat

VARIABLES
    ovEndpoints,   \* registered_endpoints: node -> address and kind of NAT, or NoEndpoint
    ovNextVip,     \* _next_vip_index
    ovSessions,    \* active_sessions: <<source, target>> -> addresses, relayed; or NoSession
    ovHandshakes,  \* establish_tunnel at its await
    ovSent         \* history: <<node, address>> packets were sent to

ovVars == <<ovEndpoints, ovNextVip, ovSessions, ovHandshakes, ovSent>>

NoEndpoint == [vip |-> 0, symmetric |-> FALSE]
NoSession == [local |-> 0, remote |-> 0, relayed |-> FALSE]
NodePairs == {p \in OvNodes \X OvNodes : p[1] # p[2]}
OnOverlay == {n \in OvNodes : ovEndpoints[n] # NoEndpoint}

OverlayInit ==
    /\ ovEndpoints = [n \in OvNodes |-> NoEndpoint] /\ ovNextVip = 2
    /\ ovSessions = [p \in NodePairs |-> NoSession] /\ ovHandshakes = {} /\ ovSent = {}

\* Mutant: the address follows the number of endpoints.
NextVipOfTable(n) == Cardinality(OnOverlay \ {n}) + 2

\* The address of a registration: a counter that never goes back.
NextVip(n) == ovNextVip

\* register_endpoint: a node that registers again gets a new address; its
\* sessions keep the old one.
RegisterEndpoint(n, symmetric) ==
    /\ ovNextVip < MaxAddresses + 2
    /\ ovEndpoints' = [ovEndpoints EXCEPT ![n] = [vip |-> NextVip(n), symmetric |-> symmetric]]
    /\ ovNextVip' = ovNextVip + 1
    /\ UNCHANGED <<ovSessions, ovHandshakes, ovSent>>

\* unregister_endpoint
UnregisterEndpoint(n) ==
    /\ ovEndpoints' = [ovEndpoints EXCEPT ![n] = NoEndpoint]
    /\ ovSessions' = [p \in NodePairs |-> IF n \in {p[1], p[2]} THEN NoSession ELSE ovSessions[p]]
    /\ UNCHANGED <<ovNextVip, ovHandshakes, ovSent>>

\* establish_tunnel up to its await: the endpoints as they are now.
BeginHandshake(p) ==
    /\ {p[1], p[2]} \subseteq OnOverlay
    /\ Cardinality(ovHandshakes) < MaxHandshakes
    /\ LET s == ovEndpoints[p[1]]  t == ovEndpoints[p[2]]
       IN  ovHandshakes' = ovHandshakes \cup
               {[pair |-> p, session |-> [local |-> s.vip, remote |-> t.vip,
                                          relayed |-> s.symmetric \/ t.symmetric]]}
    /\ UNCHANGED <<ovEndpoints, ovNextVip, ovSessions, ovSent>>

\* The handshake was in time: the session is stored, whoever is left.
HandshakeInTime(h) ==
    /\ h \in ovHandshakes
    /\ ovHandshakes' = ovHandshakes \ {h}
    /\ ovSessions' = [ovSessions EXCEPT ![h.pair] = h.session]
    /\ UNCHANGED <<ovEndpoints, ovNextVip, ovSent>>

\* It took too long: the caller gets a failed session that is not stored.
HandshakeTooLate(h) ==
    /\ h \in ovHandshakes
    /\ ovHandshakes' = ovHandshakes \ {h}
    /\ UNCHANGED <<ovEndpoints, ovNextVip, ovSessions, ovSent>>

\* transmit_packet counts on a session that is there.
TransmitPacket(p) ==
    /\ ovSessions[p] # NoSession
    /\ ovSent' = ovSent \cup {<<p[2], ovSessions[p].remote>>}
    /\ UNCHANGED <<ovEndpoints, ovNextVip, ovSessions, ovHandshakes>>

OverlayNext ==
    \/ \E n \in OvNodes : UnregisterEndpoint(n) \/ \E s \in BOOLEAN : RegisterEndpoint(n, s)
    \/ \E p \in NodePairs : BeginHandshake(p) \/ TransmitPacket(p)
    \/ \E h \in ovHandshakes : HandshakeInTime(h) \/ HandshakeTooLate(h)
-----------------------------------------------------------------------------
(* Properties. *)

\* An address is one node's for ever ("allocates a unique virtual overlay
\* IP"): whatever sessions outlive an endpoint, and however often it comes
\* back, no packet goes to an address that another node was given.
AddressesAreNeverShared ==
    LET held == {<<n, ovEndpoints[n].vip>> : n \in OnOverlay} \cup ovSent
                \cup UNION {{<<p[1], ovSessions[p].local>>, <<p[2], ovSessions[p].remote>>}
                              : p \in {q \in NodePairs : ovSessions[q] # NoSession}}
    IN  \A a, b \in held : a[2] = b[2] => a[1] = b[1]

\* "Removes an endpoint and terminates its associated active tunnels": both
\* ends of a session are registered.
SessionsHaveEndpoints ==
    \A p \in NodePairs : ovSessions[p] # NoSession => {p[1], p[2]} \subseteq OnOverlay
=============================================================================
