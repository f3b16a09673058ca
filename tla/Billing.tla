------------------------------ MODULE Billing -------------------------------
(***************************************************************************)
(* Tenants and their money besides the ledger rows: the Stripe webhook and *)
(* the subscription table (routes/admin.py, core/billing.py), the          *)
(* scheduler that reports usage to Stripe, and the request rate limit      *)
(* (core/rate_limit.py).  The webhook handler never awaits after its body  *)
(* is read, so one delivery is one step; what it may do is fail between    *)
(* two of its writes.  The limiter runs on threads: it reads the clock,    *)
(* then waits for the database.                                            *)
(***************************************************************************)
EXTENDS Integers, FiniteSets, FiniteSetsExt

CONSTANTS
    BillTenants,     \* tenants
    Customers,       \* Stripe customer ids
    StripeEvents,    \* events: id, status it sets, customer, metadata tenant
    NoTenant,        \* no metadata
    MaxRows,         \* bound: ledger rows of a tenant
    RequestLimit,    \* limit of the request limiter
    Window,          \* window_seconds
    MaxWait,         \* longest wait for the database (busy timeout)
    MaxTime,         \* bound: the clock
    MaxPending       \* bound: requests waiting for the database

ASSUME BillingAssumption ==
    /\ {MaxRows, RequestLimit, Window, MaxWait, MaxTime, MaxPending} \subseteq Nat
    /\ MaxWait <= Window
    /\ Customers \cap {"none", "admin"} = {}
    /\ StripeEvents \subseteq
         [id : 1..Cardinality(StripeEvents), status : {"active", "frozen", "canceled"},
          customer : Customers, metadata : BillTenants \cup {NoTenant}]

VARIABLES
    subscription,    \* tenant_subscription_status: status and customer of a tenant
    claimedEvents,   \* stripe_webhook_events: event and tenant
    appliedEvents,   \* history: how often each event changed the table
    ackedEvents,     \* history: events answered with 200
    lostClaim,       \* history: a handler failed between claim and update
    ledgerTop,       \* highest row id of each tenant
    lastSynced,      \* stripe_sync_metadata
    syncing,         \* the scheduler's round: tenant and highest id it read
    reported,        \* history: how often each row id was posted
    billClock,       \* time.time()
    waitingReqs,     \* limiter threads: tenant and the clock they read
    rateRows,        \* tenant_request_rate
    admitted         \* history: every admitted request

hookVars == <<subscription, claimedEvents, appliedEvents, ackedEvents, lostClaim>>
syncVars == <<ledgerTop, lastSynced, syncing, reported>>
rateVars == <<billClock, waitingReqs, rateRows, admitted>>
billVars == <<hookVars, syncVars, rateVars>>

NoRow == [status |-> "active", customer |-> "none"]
Idle == [tenant |-> NoTenant, top |-> 0]

BillInit ==
    /\ subscription = [t \in BillTenants |-> NoRow]
    /\ claimedEvents = {} /\ ackedEvents = {} /\ lostClaim = FALSE
    /\ appliedEvents = [e \in StripeEvents |-> 0]
    /\ ledgerTop = [t \in BillTenants |-> 0] /\ lastSynced = [t \in BillTenants |-> 0]
    /\ syncing = Idle /\ reported = [t \in BillTenants |-> [i \in 1..MaxRows |-> 0]]
    /\ billClock = 0 /\ waitingReqs = {} /\ rateRows = {} /\ admitted = {}
-----------------------------------------------------------------------------
(* The webhook. *)

MappedTenants(customer) == {t \in BillTenants : subscription[t].customer = customer}

\* The tenants a delivery may be bound to: none when there is no binding, or
\* when table and metadata disagree.
\* Mutant: the metadata alone decides.
MetadataTenants(e) == IF e.metadata # NoTenant THEN {e.metadata} ELSE MappedTenants(e.customer)

ResolveStripeTenant(e) ==
    LET mapped == MappedTenants(e.customer)
    IN  IF e.metadata = NoTenant THEN mapped
        ELSE IF mapped = {} \/ mapped = {e.metadata} THEN {e.metadata} ELSE {}

Claimed(e) == \E d \in claimedEvents : d.event.id = e.id

Claim(e, t) == claimedEvents' = claimedEvents \cup {[event |-> e, tenant |-> t]}

\* Mutant: the event is applied again when it is delivered again.
WebhookAppliesAgain(e) ==
    \E t \in ResolveStripeTenant(e) :
        /\ Claim(e, t) /\ ackedEvents' = ackedEvents \cup {e}
        /\ subscription' = [subscription EXCEPT ![t] = [status |-> e.status, customer |-> e.customer]]
        /\ appliedEvents' = [appliedEvents EXCEPT ![e] = IF @ = 2 THEN 2 ELSE @ + 1]
        /\ UNCHANGED <<lostClaim, syncVars, rateVars>>

\* Claim the id, record the delivery, update the row, answer.
Webhook(e) ==
    \E t \in ResolveStripeTenant(e) :
        /\ ~Claimed(e)
        /\ Claim(e, t) /\ ackedEvents' = ackedEvents \cup {e}
        /\ subscription' = [subscription EXCEPT ![t] = [status |-> e.status, customer |-> e.customer]]
        /\ appliedEvents' = [appliedEvents EXCEPT ![e] = @ + 1]
        /\ UNCHANGED <<lostClaim, syncVars, rateVars>>

\* The id is known: the same delivery again, or another payload or tenant
\* (409).
WebhookDuplicate(e) ==
    \E t \in ResolveStripeTenant(e) :
        /\ Claimed(e)
        /\ ackedEvents' = IF [event |-> e, tenant |-> t] \in claimedEvents
                            THEN ackedEvents \cup {e} ELSE ackedEvents
        /\ UNCHANGED <<subscription, claimedEvents, appliedEvents, lostClaim, syncVars, rateVars>>

\* The audit ledger or the table raises after the claim: Stripe sees 500.
WebhookFailsAfterClaim(e) ==
    \E t \in ResolveStripeTenant(e) :
        /\ ~Claimed(e) /\ Claim(e, t) /\ lostClaim' = TRUE
        /\ UNCHANGED <<subscription, appliedEvents, ackedEvents, syncVars, rateVars>>

\* The administrator sets a status; the customer id is made from the tenant.
AdminUpdateSubscription(t, status) ==
    /\ subscription' = [subscription EXCEPT ![t] = [status |-> status, customer |-> "admin"]]
    /\ UNCHANGED <<claimedEvents, appliedEvents, ackedEvents, lostClaim, syncVars, rateVars>>
-----------------------------------------------------------------------------
(* The Stripe usage scheduler. *)

RecordRow(t) ==
    /\ ledgerTop[t] < MaxRows
    /\ ledgerTop' = [ledgerTop EXCEPT ![t] = @ + 1]
    /\ UNCHANGED <<hookVars, lastSynced, syncing, reported, rateVars>>

SyncRead(t) ==
    /\ syncing = Idle /\ ledgerTop[t] > lastSynced[t]
    /\ syncing' = [tenant |-> t, top |-> ledgerTop[t]]
    /\ UNCHANGED <<hookVars, ledgerTop, lastSynced, reported, rateVars>>

\* The rows above the mark, counted as posted.
Posted(t, top) ==
    [reported EXCEPT ![t] = [i \in 1..MaxRows |->
        IF i > lastSynced[t] /\ i <= top /\ @[i] < 2 THEN @[i] + 1 ELSE @[i]]]

\* Mutant: the mark is read again when it is stored.
SyncPostedMarksTop ==
    /\ syncing # Idle
    /\ reported' = Posted(syncing.tenant, syncing.top)
    /\ lastSynced' = [lastSynced EXCEPT ![syncing.tenant] = ledgerTop[syncing.tenant]]
    /\ syncing' = Idle
    /\ UNCHANGED <<hookVars, ledgerTop, rateVars>>

\* 200 or 201: what was posted is marked.
SyncPosted ==
    /\ syncing # Idle
    /\ reported' = Posted(syncing.tenant, syncing.top)
    /\ lastSynced' = [lastSynced EXCEPT ![syncing.tenant] = syncing.top]
    /\ syncing' = Idle
    /\ UNCHANGED <<hookVars, ledgerTop, rateVars>>

\* Refused, or no answer in time: nothing is marked, and Stripe may have
\* counted the rows.
SyncFails ==
    /\ syncing # Idle
    /\ \/ reported' = Posted(syncing.tenant, syncing.top)
       \/ UNCHANGED reported
    /\ syncing' = Idle
    /\ UNCHANGED <<hookVars, ledgerTop, lastSynced, rateVars>>
-----------------------------------------------------------------------------
(* The request limiter. *)

\* Time passes; no thread waits for the database longer than its timeout.
Tick ==
    /\ billClock < MaxTime
    /\ \A r \in waitingReqs : billClock < r.now + MaxWait
    /\ billClock' = billClock + 1
    /\ UNCHANGED <<hookVars, syncVars, waitingReqs, rateRows, admitted>>

\* _consume reads the clock before it has the database.
RequestArrives(t) ==
    /\ Cardinality(waitingReqs) < MaxPending
    /\ \E n \in 1..MaxPending :
          /\ ~\E r \in waitingReqs : r.slot = n
          /\ \A m \in 1..(n - 1) : \E r \in waitingReqs : r.slot = m
          /\ waitingReqs' = waitingReqs \cup {[slot |-> n, tenant |-> t, now |-> billClock]}
    /\ UNCHANGED <<hookVars, syncVars, billClock, rateRows, admitted>>

\* Mutant: every row older than the request is dropped.
PruneOlder(rows, now) == {r \in rows : r.at >= now}

\* The expired rows of every tenant go.
Prune(rows, now) == {r \in rows : r.at >= now - Window}

CountOf(rows, t, now) == Cardinality({r \in rows : r.tenant = t /\ r.at >= now - Window})

\* BEGIN IMMEDIATE ... COMMIT: prune, count, and insert unless limited.
Consume(r) ==
    LET kept == Prune(rateRows, r.now)
        row == [tenant |-> r.tenant, at |-> r.now, n |-> Cardinality(admitted)]
    IN  /\ r \in waitingReqs
        /\ waitingReqs' = waitingReqs \ {r}
        /\ IF CountOf(kept, r.tenant, r.now) >= RequestLimit
             THEN rateRows' = kept /\ UNCHANGED admitted
             ELSE rateRows' = kept \cup {row} /\ admitted' = admitted \cup {row}
        /\ UNCHANGED <<hookVars, syncVars, billClock>>

HookNext ==
    \/ \E e \in StripeEvents : Webhook(e) \/ WebhookDuplicate(e) \/ WebhookFailsAfterClaim(e)
    \/ \E t \in BillTenants, s \in {"active", "frozen", "canceled"} : AdminUpdateSubscription(t, s)

SyncNext ==
    \/ \E t \in BillTenants : RecordRow(t) \/ SyncRead(t)
    \/ SyncPosted \/ SyncFails

RateNext ==
    \/ \E t \in BillTenants : RequestArrives(t)
    \/ Tick
    \/ \E r \in waitingReqs : Consume(r)

-----------------------------------------------------------------------------
\* A webhook event changes a tenant's status at most once, however often and
\* with whatever failures Stripe delivers it; and what was answered with 200
\* has been applied unless a handler failed after its claim.
EventsAppliedOnce ==
    \A e \in StripeEvents :
        /\ appliedEvents[e] <= 1
        /\ e \in ackedEvents /\ ~lostClaim => appliedEvents[e] = 1

\* No order of events and administrator changes binds one Stripe customer to
\* two tenants: a later event of that customer would have no owner.
CustomersAreExclusive ==
    \A c \in Customers : Cardinality(MappedTenants(c)) <= 1

\* No usage is lost on the way to Stripe: every row at or below the mark was
\* posted, also when rows arrive while a post is under way; failures can only
\* repeat.
SyncedWasReported ==
    \A t \in BillTenants : \A i \in 1..lastSynced[t] : reported[t][i] >= 1

\* At most RequestLimit requests of a tenant are admitted in any closed
\* window, for the window less the time a thread may wait: another tenant's
\* thread with a later clock prunes rows this thread would still count.
WindowBound ==
    \A t \in BillTenants, a \in admitted :
        Cardinality({b \in admitted : b.tenant = t /\ b.at <= a.at
                                      /\ b.at >= a.at - (Window - MaxWait)}) <= RequestLimit
=============================================================================
