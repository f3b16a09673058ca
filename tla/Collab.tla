------------------------------- MODULE Collab -------------------------------
(***************************************************************************)
(* The WebSocket sessions of routes/collaboration.py and                   *)
(* core/ws_manager.py: the publish/subscribe manager behind                *)
(* /v1/collaboration, the dashboard manager behind /v1/dashboard and the   *)
(* crew synchronisation behind /v1/crew/sync.  One event loop runs all the *)
(* endpoints; every send and every receive is a point where the others     *)
(* move, so a fan-out works on what it read before its first send.         *)
(*                                                                         *)
(* One channel and one dashboard session stand for all of them: they do    *)
(* not interact.  A socket whose network is gone stays registered until    *)
(* its endpoint's receive fails; sends to it fail and are swallowed.       *)
(***************************************************************************)
EXTENDS Naturals, Sequences, FiniteSets, SequencesExt

CONSTANTS
    Sockets,       \* WebSocket connections, each used once
    Tenants,       \* tenants
    AdminTenant,   \* "admin_tenant", which may bypass the key exchange
    Chats,         \* session identifiers of the path
    Global,        \* the session "global"
    MaxFanouts     \* bound: publishes or broadcasts over a behaviour

ASSUME CollabConstants ==
    /\ AdminTenant \in Tenants /\ Global \in Chats /\ MaxFanouts \in Nat

VARIABLES
    wsSock,      \* socket -> [kind, phase, tenant, chat, alive]
    collabSubs,  \* channels[ch]: the subscribed sockets
    collabKeys,  \* session_keys
    collabOf,    \* websocket_tenants: socket -> tenant, or << >>
    dashList,    \* active_connections[session]: a list
    crewList,    \* sessions[session] of the crew manager
    fanouts,     \* running fan-outs, in the order they began
    fanCount,    \* fan-outs begun so far
    wsGot        \* ghost: << socket, publisher's tenant >> delivered

wsVars == << wsSock, collabSubs, collabKeys, collabOf, dashList, crewList, fanouts, fanCount, wsGot >>

NewSocket == [kind |-> "none", phase |-> "new", tenant |-> << >>, chat |-> << >>, alive |-> TRUE]

CollabInit ==
    /\ wsSock = [s \in Sockets |-> NewSocket]
    /\ collabSubs = {} /\ collabKeys = {} /\ collabOf = [s \in Sockets |-> << >>]
    /\ dashList = << >> /\ crewList = {}
    /\ fanouts = << >> /\ fanCount = 0 /\ wsGot = {}

Phase(s, p) == [wsSock EXCEPT ![s].phase = p]

\* verify_websocket_tenant, or a guard behind it, closes the socket
Refuse(s) ==
    /\ wsSock[s].phase = "new"
    /\ wsSock' = Phase(s, "ended")
    /\ UNCHANGED << collabSubs, collabKeys, collabOf, dashList, crewList, fanouts, fanCount, wsGot >>

\* the network of an accepted socket goes away, unnoticed so far
NetworkDrops(s) ==
    /\ wsSock[s].phase \notin {"new", "ended"} /\ wsSock[s].alive
    /\ wsSock' = [wsSock EXCEPT ![s].alive = FALSE]
    /\ UNCHANGED << collabSubs, collabKeys, collabOf, dashList, crewList, fanouts, fanCount, wsGot >>

Accepted(s, tenant, chat, kind, phase) ==
    [wsSock EXCEPT ![s] = [kind |-> kind, phase |-> phase, tenant |-> tenant, chat |-> chat, alive |-> TRUE]]

-----------------------------------------------------------------------------
(***************************************************************************)
(* /v1/collaboration/{session_id}                                          *)
(***************************************************************************)
CollabConnect(s, tenant, chat) ==
    /\ wsSock[s].phase = "new"
    /\ wsSock' = Accepted(s, tenant, chat, "collab", "hello")
    /\ collabOf' = [collabOf EXCEPT ![s] = tenant]
    /\ UNCHANGED << collabSubs, collabKeys, dashList, crewList, fanouts, fanCount, wsGot >>

\* client_hello received; an administrator may bypass the exchange
KeyExchanged(s, bypass) ==
    /\ wsSock[s].phase = "hello" /\ wsSock[s].alive
    /\ bypass => wsSock[s].tenant = AdminTenant
    /\ wsSock' = Phase(s, "open")
    /\ collabKeys' = IF bypass THEN collabKeys ELSE collabKeys \union {s}
    /\ UNCHANGED << collabSubs, collabOf, dashList, crewList, fanouts, fanCount, wsGot >>

\* Mutant: the subscription of the socket stays.
ForgetKeysOnly(s) ==
    /\ collabKeys' = collabKeys \ {s}
    /\ collabOf' = [collabOf EXCEPT ![s] = << >>]
    /\ UNCHANGED collabSubs

\* MultiChannelPubSubManager.disconnect
CollabForget(s) ==
    /\ collabKeys' = collabKeys \ {s}
    /\ collabOf' = [collabOf EXCEPT ![s] = << >>]
    /\ collabSubs' = collabSubs \ {s}

\* the exchange fails; when close() fails as well, disconnect is not reached
KeyExchangeFails(s, closeFails) ==
    /\ wsSock[s].phase = "hello"
    /\ wsSock' = Phase(s, "ended")
    /\ IF closeFails THEN UNCHANGED << collabKeys, collabOf, collabSubs >> ELSE CollabForget(s)
    /\ UNCHANGED << dashList, crewList, fanouts, fanCount, wsGot >>

(***************************************************************************)
(* After a bypass the variable session_key of the endpoint has no value:   *)
(* the first answer to a subscribe, unsubscribe or publish raises, and the *)
(* endpoint disconnects the socket.                                        *)
(***************************************************************************)
Answers(s) == s \in collabKeys

Subscribe(s) ==
    /\ wsSock[s].phase = "open" /\ wsSock[s].alive
    /\ \/ /\ Answers(s)
          /\ collabSubs' = collabSubs \union {s}
          /\ UNCHANGED << wsSock, collabKeys, collabOf >>
       \/ ~Answers(s) /\ wsSock' = Phase(s, "ended") /\ CollabForget(s)
    /\ UNCHANGED << dashList, crewList, fanouts, fanCount, wsGot >>

Unsubscribe(s) ==
    /\ s \in collabSubs /\ wsSock[s].phase = "open" /\ wsSock[s].alive
    /\ collabSubs' = collabSubs \ {s}
    /\ UNCHANGED << wsSock, collabKeys, collabOf, dashList, crewList, fanouts, fanCount, wsGot >>

\* _local_publish: who is sent the message, read before the first send
SessionMatches(a, b) == a = Global \/ b = Global \/ a = b

\* Mutant: a publish to the global session goes to every tenant.
RecipientsOfSession(tenant, chat) ==
    {s \in collabSubs : chat = Global \/ (collabOf[s] = tenant /\ SessionMatches(chat, wsSock[s].chat))}

\* the subscribers of the tenant in the session
Recipients(tenant, chat) ==
    {s \in collabSubs : collabOf[s] = tenant /\ SessionMatches(chat, wsSock[s].chat)}

StartPublish(tenant, chat, from) ==
    /\ fanCount < MaxFanouts
    /\ fanCount' = fanCount + 1
    /\ fanouts' = Append(fanouts, [from |-> from, tenant |-> tenant, left |-> Recipients(tenant, chat)])

\* a client's publish: its endpoint waits for the fan-out
Publish(s) ==
    /\ wsSock[s].phase = "open" /\ wsSock[s].alive
    /\ StartPublish(wsSock[s].tenant, wsSock[s].chat, << s >>)
    /\ wsSock' = Phase(s, "publishing")
    /\ UNCHANGED << collabSubs, collabKeys, collabOf, dashList, crewList, wsGot >>

\* run_dashboard_chat publishes the events of a chat
ServerPublish(tenant, chat) ==
    /\ StartPublish(tenant, chat, << >>)
    /\ UNCHANGED << wsSock, collabSubs, collabKeys, collabOf, dashList, crewList, wsGot >>

\* one send of a fan-out; a failed one is swallowed
SendOne(i, s) ==
    /\ s \in fanouts[i].left
    /\ fanouts' = [fanouts EXCEPT ![i].left = @ \ {s}]
    /\ wsGot' = IF wsSock[s].alive /\ wsSock[s].phase # "ended"
                THEN wsGot \union {<< s, fanouts[i].tenant >>} ELSE wsGot
    /\ UNCHANGED << wsSock, collabSubs, collabKeys, collabOf, dashList, crewList, fanCount >>

\* the fan-out is complete and the publisher, if a client, is answered
PublishEnds(i) ==
    /\ fanouts[i].left = {}
    /\ fanouts' = RemoveAt(fanouts, i)
    /\ IF fanouts[i].from = << >> THEN UNCHANGED << wsSock, collabKeys, collabOf, collabSubs >>
       ELSE LET s == fanouts[i].from[1]
            IN IF Answers(s) /\ wsSock[s].alive
               THEN wsSock' = Phase(s, "open") /\ UNCHANGED << collabKeys, collabOf, collabSubs >>
               ELSE wsSock' = Phase(s, "ended") /\ CollabForget(s)
    /\ UNCHANGED << dashList, crewList, fanCount, wsGot >>

CollabGone(s) ==
    /\ wsSock[s].phase = "open" /\ ~wsSock[s].alive
    /\ wsSock' = Phase(s, "ended")
    /\ CollabForget(s)
    /\ UNCHANGED << dashList, crewList, fanouts, fanCount, wsGot >>

CollabNext ==
    \/ \E s \in Sockets :
          \/ Refuse(s) \/ NetworkDrops(s) \/ Subscribe(s) \/ Unsubscribe(s) \/ Publish(s)
          \/ CollabGone(s)
          \/ \E tenant \in Tenants, chat \in Chats : CollabConnect(s, tenant, chat)
          \/ \E b \in BOOLEAN : KeyExchanged(s, b) \/ KeyExchangeFails(s, b)
    \/ \E tenant \in Tenants, chat \in Chats : ServerPublish(tenant, chat)
    \/ \E i \in 1..Len(fanouts) : PublishEnds(i) \/ \E s \in Sockets : SendOne(i, s)

-----------------------------------------------------------------------------
(***************************************************************************)
(* /v1/dashboard: broadcast walks over the list itself, which connect      *)
(* extends in place and disconnect replaces by another list.  A broadcast  *)
(* is [list, pos, shared, tenant, due, sent]: shared while the list it     *)
(* walks is still the manager's.                                           *)
(***************************************************************************)
DashConnect(s, tenant) ==
    /\ wsSock[s].phase = "new"
    /\ wsSock' = Accepted(s, tenant, Global, "dash", "open")
    /\ dashList' = Append(dashList, s)
    /\ fanouts' = [i \in DOMAIN fanouts |->
          IF fanouts[i].shared THEN [fanouts[i] EXCEPT !.list = Append(@, s)] ELSE fanouts[i]]
    /\ UNCHANGED << collabSubs, collabKeys, collabOf, crewList, fanCount, wsGot >>

\* The list without the socket, which connects once and is in it at most once.
Without(list, s) == RemoveFirst(list, s)

\* Mutant: the list is changed in place, under the walk of a broadcast.
RemovedInPlace(s) ==
    [i \in DOMAIN fanouts |->
        IF fanouts[i].shared
        THEN [fanouts[i] EXCEPT !.list = Without(@, s), !.due = @ \ {s}]
        ELSE [fanouts[i] EXCEPT !.due = @ \ {s}]]

\* disconnect makes a new list; a broadcast goes on with the old one
ListReplaced(s) ==
    [i \in DOMAIN fanouts |-> [fanouts[i] EXCEPT !.shared = FALSE, !.due = @ \ {s}]]

DashGone(s) ==
    /\ wsSock[s].phase = "open" /\ ~wsSock[s].alive
    /\ wsSock' = Phase(s, "ended")
    /\ dashList' = Without(dashList, s)
    /\ fanouts' = ListReplaced(s)
    /\ UNCHANGED << collabSubs, collabKeys, collabOf, crewList, fanCount, wsGot >>

\* a frame receive_text cannot read ends the endpoint without a disconnect
DashCrashes(s) ==
    /\ wsSock[s].phase = "open" /\ wsSock[s].alive
    /\ wsSock' = [wsSock EXCEPT ![s].phase = "ended", ![s].alive = FALSE]
    /\ fanouts' = [i \in DOMAIN fanouts |-> [fanouts[i] EXCEPT !.due = @ \ {s}]]
    /\ UNCHANGED << collabSubs, collabKeys, collabOf, dashList, crewList, fanCount, wsGot >>

\* one event of run_dashboard_chat, under the tenant of the sender
DashBroadcast(tenant) ==
    /\ fanCount < MaxFanouts /\ dashList # << >>
    /\ fanCount' = fanCount + 1
    /\ fanouts' = Append(fanouts, [list |-> dashList, pos |-> 1, shared |-> TRUE, tenant |-> tenant,
           due |-> {s \in Range(dashList) : wsSock[s].tenant = tenant}, sent |-> << >>])
    /\ UNCHANGED << wsSock, collabSubs, collabKeys, collabOf, dashList, crewList, wsGot >>

DashSend(i) ==
    /\ fanouts[i].pos <= Len(fanouts[i].list)
    /\ LET s == fanouts[i].list[fanouts[i].pos]
       IN fanouts' = [fanouts EXCEPT ![i].pos = @ + 1,
              ![i].sent = IF wsSock[s].tenant = fanouts[i].tenant THEN Append(@, s) ELSE @]
    /\ UNCHANGED << wsSock, collabSubs, collabKeys, collabOf, dashList, crewList, fanCount, wsGot >>

DashNext ==
    \/ \E s \in Sockets :
          \/ NetworkDrops(s) \/ DashGone(s) \/ DashCrashes(s)
          \/ \E tenant \in Tenants : DashConnect(s, tenant)
    \/ \E tenant \in Tenants : DashBroadcast(tenant)
    \/ \E i \in 1..Len(fanouts) : DashSend(i)

-----------------------------------------------------------------------------
(***************************************************************************)
(* /v1/crew/sync: a broadcast copies the list under the lock, sends one    *)
(* after the other and takes the sockets that failed out of the list as it *)
(* is then.  A broadcast is [sender, snap, left, dead].                    *)
(***************************************************************************)
CrewConnect(s) ==
    /\ wsSock[s].phase = "new"
    /\ \E tenant \in Tenants : wsSock' = Accepted(s, tenant, Global, "crew", "open")
    /\ crewList' = crewList \union {s}
    /\ UNCHANGED << collabSubs, collabKeys, collabOf, dashList, fanouts, fanCount, wsGot >>

CrewGone(s) ==
    /\ wsSock[s].phase = "open" /\ ~wsSock[s].alive
    /\ wsSock' = Phase(s, "ended")
    /\ crewList' = crewList \ {s}
    /\ UNCHANGED << collabSubs, collabKeys, collabOf, dashList, fanouts, fanCount, wsGot >>

CrewBroadcast(s) ==
    /\ wsSock[s].phase = "open" /\ wsSock[s].alive /\ fanCount < MaxFanouts
    /\ fanCount' = fanCount + 1
    /\ wsSock' = Phase(s, "publishing")
    /\ fanouts' = Append(fanouts, [sender |-> s, snap |-> crewList, left |-> crewList \ {s}, dead |-> {}])
    /\ UNCHANGED << collabSubs, collabKeys, collabOf, dashList, crewList, wsGot >>

CrewSend(i, s) ==
    /\ s \in fanouts[i].left
    /\ fanouts' = [fanouts EXCEPT ![i].left = @ \ {s},
           ![i].dead = IF wsSock[s].alive /\ wsSock[s].phase # "ended" THEN @ ELSE @ \union {s}]
    /\ UNCHANGED << wsSock, collabSubs, collabKeys, collabOf, dashList, crewList, fanCount, wsGot >>

\* Mutant: the list is replaced by what is left of the snapshot.
ReapedSnapshot(i) == fanouts[i].snap \ fanouts[i].dead

\* the failed sockets leave the list as it is now
Reaped(i) == crewList \ fanouts[i].dead

CrewBroadcastEnds(i) ==
    /\ fanouts[i].left = {}
    /\ crewList' = IF fanouts[i].dead = {} THEN crewList ELSE Reaped(i)
    /\ wsSock' = Phase(fanouts[i].sender, "open")
    /\ fanouts' = RemoveAt(fanouts, i)
    /\ UNCHANGED << collabSubs, collabKeys, collabOf, dashList, fanCount, wsGot >>

CrewNext ==
    \/ \E s \in Sockets :
          NetworkDrops(s) \/ CrewConnect(s) \/ CrewGone(s) \/ CrewBroadcast(s)
    \/ \E i \in 1..Len(fanouts) :
          CrewBroadcastEnds(i) \/ \E s \in Sockets : CrewSend(i, s)

-----------------------------------------------------------------------------
(***************************************************************************)
(* No message published by a tenant reaches a socket of another one,       *)
(* whatever sockets come and go between the fan-out's reading of the       *)
(* subscriptions and its sends (websocket_tenants against publisher_tenant).*)
(***************************************************************************)
TenantsStayApart == \A got \in wsGot : wsSock[got[1]].tenant = got[2]

(***************************************************************************)
(* A collaboration endpoint that has ended leaves no subscription and no   *)
(* session key behind: on a disconnect, a failed answer, a failed key      *)
(* exchange or an administrator's bypass.                                  *)
(***************************************************************************)
EndedSocketsAreForgotten ==
    \A s \in Sockets : wsSock[s].phase = "ended" => s \notin collabSubs /\ s \notin collabKeys

(***************************************************************************)
(* A dashboard broadcast sends its event exactly once to every socket of   *)
(* the tenant that was connected when it began and still is when it ends,  *)
(* and to nobody twice, though the list changes under the walk.            *)
(***************************************************************************)
DashboardsHearOnce ==
    \A i \in 1..Len(fanouts) :
        ("list" \in DOMAIN fanouts[i] /\ fanouts[i].pos > Len(fanouts[i].list)) =>
            /\ fanouts[i].due \subseteq Range(fanouts[i].sent)
            /\ Cardinality(Range(fanouts[i].sent)) = Len(fanouts[i].sent)

(***************************************************************************)
(* A crew socket whose endpoint listens and whose network is there is in   *)
(* the manager's list: reaping the dead ones of a broadcast loses nobody   *)
(* who connected while it was being sent.                                  *)
(***************************************************************************)
ListenersStayListed ==
    \A s \in Sockets :
        (/\ wsSock[s].kind = "crew" /\ wsSock[s].alive
         /\ wsSock[s].phase \in {"open", "publishing"}) => s \in crewList
=============================================================================
