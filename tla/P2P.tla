-------------------------------- MODULE P2P ---------------------------------
(***************************************************************************)
(* The peer-to-peer router of core/p2p_router.py and the tunnel endpoint   *)
(* of routes/collaboration.py: tunnels between nodes, gossip about other   *)
(* nodes, and tasks sent over a tunnel.  Keys and encryption go with the   *)
(* tunnel.  Each router runs on one event loop; what lies between two      *)
(* awaits is one step.                                                     *)
(***************************************************************************)
EXTENDS Naturals, Sequences, FiniteSets

CONSTANTS
    Routers,      \* the nodes
    MaxTunnels,   \* bound: tunnels opened in all
    MaxP2PTasks,  \* bound: tasks dispatched
    MaxPings      \* bound: pings sent

ASSUME P2PAssumption == MaxTunnels \in Nat /\ MaxP2PTasks \in Nat /\ MaxPings \in Nat

VARIABLES
    known,      \* per router and peer: << >>, or status and tunnel (0 is none)
    tunnels,    \* tunnel -> ends, the ends that listen, and whether it is open
    wire,       \* <<tunnel, receiver>> -> messages, in order
    waiting,    \* per router: pending_requests
    dispatches, \* task -> its dispatch_task call
    pings       \* pings sent

p2pVars == <<known, tunnels, wire, waiting, dispatches, pings>>

Tunnels == 1 .. MaxTunnels
Opened == {t \in Tunnels : tunnels[t] # << >>}
P2PTasks == 1 .. MaxP2PTasks
Other(t, n) == IF tunnels[t].client = n THEN tunnels[t].server ELSE tunnels[t].client

P2PInit ==
    \* discover_peers: every router is given the others' addresses.
    /\ known = [n \in Routers |-> [p \in Routers |->
                  IF p = n THEN << >> ELSE [status |-> "disconnected", ws |-> 0]]]
    /\ tunnels = [t \in Tunnels |-> << >>]
    /\ wire = [x \in Tunnels \X Routers |-> << >>]
    /\ waiting = [n \in Routers |-> {}]
    /\ dispatches = [k \in P2PTasks |-> << >>]
    /\ pings = 0
-----------------------------------------------------------------------------
\* add_peer: a tunnel is replaced only by another one.
AddPeer(dir, p, status, ws) ==
    [dir EXCEPT ![p] = [status |-> status,
                        ws |-> IF ws # 0 THEN ws ELSE IF dir[p] = << >> THEN 0 ELSE dir[p].ws]]

\* Gossip: every peer somebody else knows is entered as disconnected.
Learn(dir, n, others) ==
    [p \in Routers |-> IF p \in others \ {n} THEN AddPeer(dir, p, "disconnected", 0)[p] ELSE dir[p]]

KnownTo(n) == {p \in Routers : known[n][p] # << >>}

\* The gossip loop dials a peer that is not connected; the server's endpoint registers the
\* client when its signature is right, and listens.
ConnectToPeer(n, p) ==
    /\ known[n][p] # << >> /\ known[n][p].status = "disconnected"
    /\ \E t \in Tunnels :
         /\ tunnels[t] = << >> /\ \A u \in Tunnels : u < t => tunnels[u] # << >>
         /\ tunnels' = [tunnels EXCEPT ![t] =
                          [client |-> n, server |-> p, open |-> TRUE, listening |-> {p}]]
         /\ known' = [known EXCEPT ![p] = AddPeer(@, n, "connected", t)]
    /\ UNCHANGED <<wire, waiting, dispatches, pings>>

\* The client reads the confirmation; while it waited other calls may have connected, too.
FinishConnect(t) ==
    LET n == tunnels[t].client
    IN /\ tunnels[t].open /\ n \notin tunnels[t].listening
       /\ tunnels' = [tunnels EXCEPT ![t].listening = @ \cup {n}]
       /\ known' = [known EXCEPT ![n] = AddPeer(@, tunnels[t].server, "connected", t)]
       /\ UNCHANGED <<wire, waiting, dispatches, pings>>

\* The tunnel breaks; whoever listens finds out later.
Break(t) ==
    /\ tunnels[t].open
    /\ tunnels' = [tunnels EXCEPT ![t].open = FALSE]
    /\ wire' = [x \in DOMAIN wire |-> IF x[1] = t THEN << >> ELSE wire[x]]
    /\ UNCHANGED <<known, waiting, dispatches, pings>>

\* Mutant: the peer is marked as disconnected and keeps its tunnel.
HangUpKeepsTunnel(dir, p) == [dir EXCEPT ![p].status = "disconnected"]

\* The finally of _listen_to_ws resets the peer, whichever tunnel it has now.
HangUp(dir, p) == [dir EXCEPT ![p] = [status |-> "disconnected", ws |-> 0]]

StopListening(t, n) ==
    /\ ~tunnels[t].open /\ n \in tunnels[t].listening
    /\ tunnels' = [tunnels EXCEPT ![t].listening = @ \ {n}]
    /\ known' = [known EXCEPT ![n] = HangUp(@, Other(t, n))]
    /\ UNCHANGED <<wire, waiting, dispatches, pings>>
-----------------------------------------------------------------------------
\* _send_msg on tunnel t: an exception if it is closed.
Send(t, n, m) == wire' = [wire EXCEPT ![<<t, Other(t, n)>>] = Append(@, m)]
Take(t, n) == [wire EXCEPT ![<<t, n>>] = Tail(@)]

\* ping_peer; a failure is ignored.
PingPeer(n, p) ==
    /\ pings < MaxPings /\ pings' = pings + 1
    /\ known[n][p] # << >> /\ known[n][p].ws # 0 /\ tunnels[known[n][p].ws].open
    /\ Send(known[n][p].ws, n, [type |-> "ping", known |-> KnownTo(n)])
    /\ UNCHANGED <<known, tunnels, waiting, dispatches>>

\* The message a listener has read.
Arrived(t, n, type) ==
    /\ n \in tunnels[t].listening /\ wire[<<t, n>>] # << >>
    /\ Head(wire[<<t, n>>]).type = type

\* _process_ws_message: a ping is answered with a pong.
OnPing(t, n) ==
    LET m == Head(wire[<<t, n>>])
        met == Learn(AddPeer(known[n], Other(t, n), "connected", t), n, m.known)
    IN /\ Arrived(t, n, "ping")
       /\ known' = [known EXCEPT ![n] = met]
       /\ wire' = [Take(t, n) EXCEPT ![<<t, Other(t, n)>>] =
                     Append(@, [type |-> "pong", known |-> {p \in Routers : met[p] # << >>}])]
       /\ UNCHANGED <<tunnels, waiting, dispatches, pings>>

OnPong(t, n) ==
    LET m == Head(wire[<<t, n>>])
    IN /\ Arrived(t, n, "pong")
       /\ known' = [known EXCEPT ![n] =
                      Learn([@ EXCEPT ![Other(t, n)].status = "connected"], n, m.known)]
       /\ wire' = Take(t, n)
       /\ UNCHANGED <<tunnels, waiting, dispatches, pings>>

\* dispatch_task takes the first connected peer of the role.
DispatchTask(n, p, k) ==
    LET t == known[n][p].ws
    IN /\ dispatches[k] = << >> /\ \A j \in P2PTasks : j < k => dispatches[j] # << >>
       /\ known[n][p] # << >> /\ known[n][p].status = "connected"
       /\ IF t # 0 /\ tunnels[t].open
          THEN /\ Send(t, n, [type |-> "task", task |-> k])
               /\ waiting' = [waiting EXCEPT ![n] = @ \cup {k}]
               /\ dispatches' = [dispatches EXCEPT ![k] =
                                   [by |-> n, on |-> t, state |-> "waits"]]
          ELSE /\ dispatches' = [dispatches EXCEPT ![k] =
                                   [by |-> n, on |-> 0, state |-> "failed"]]
               /\ UNCHANGED <<wire, waiting>>
       /\ UNCHANGED <<known, tunnels, pings>>

\* task_request: _run_task_locally answers on the tunnel the request came by.
OnTask(t, n) ==
    LET m == Head(wire[<<t, n>>])
    IN /\ Arrived(t, n, "task")
       /\ \E status \in {"completed", "error"} :
            wire' = [Take(t, n) EXCEPT ![<<t, Other(t, n)>>] =
                       Append(@, [type |-> "answer", task |-> m.task, status |-> status])]
       /\ UNCHANGED <<known, tunnels, waiting, dispatches, pings>>

\* task_response: only a task that is still waited for.
OnAnswer(t, n) ==
    LET m == Head(wire[<<t, n>>])
    IN /\ Arrived(t, n, "answer")
       /\ wire' = Take(t, n)
       /\ waiting' = [waiting EXCEPT ![n] = @ \ {m.task}]
       /\ dispatches' = IF m.task \in waiting[n]
                        THEN [dispatches EXCEPT ![m.task].state = m.status] ELSE dispatches
       /\ UNCHANGED <<known, tunnels, pings>>

\* Mutant: the entry of a task that timed out stays.
ForgetNever(n, k) == waiting' = waiting

Forget(n, k) == waiting' = [waiting EXCEPT ![n] = @ \ {k}]

\* wait_for gives up after five seconds.
DispatchTimesOut(k) ==
    /\ dispatches[k] # << >> /\ dispatches[k].state = "waits"
    /\ dispatches' = [dispatches EXCEPT ![k].state = "failed"]
    /\ Forget(dispatches[k].by, k)
    /\ UNCHANGED <<known, tunnels, wire, pings>>

P2PNext ==
    \/ \E n, p \in Routers :
         \/ ConnectToPeer(n, p) \/ PingPeer(n, p)
         \/ \E k \in P2PTasks : DispatchTask(n, p, k)
    \/ \E t \in Opened :
         \/ FinishConnect(t) \/ Break(t)
         \/ \E n \in {tunnels[t].client, tunnels[t].server} :
              \/ StopListening(t, n)
              \/ OnPing(t, n) \/ OnPong(t, n) \/ OnTask(t, n) \/ OnAnswer(t, n)
    \/ \E k \in P2PTasks : DispatchTimesOut(k)

P2PSpec == P2PInit /\ [][P2PNext]_p2pVars
-----------------------------------------------------------------------------
\* A tunnel a router would send a task by is one it listens on, so the answer can be read:
\* tunnels opened from both ends, replaced, broken and noticed late do not change that.
TunnelsAreListened ==
    \A n, p \in Routers : known[n][p] # << >> /\ known[n][p].ws # 0 =>
        n \in tunnels[known[n][p].ws].listening

\* pending_requests holds exactly the calls that still wait: an answer that comes after the
\* timeout, or on a tunnel that was replaced meanwhile, finds no call and changes none.
PendingAreWaiting ==
    \A n \in Routers : waiting[n] = {k \in P2PTasks : dispatches[k] # << >> /\ dispatches[k].by = n
                                                         /\ dispatches[k].state = "waits"}
=============================================================================
