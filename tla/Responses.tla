----------------------------- MODULE Responses ------------------------------
(***************************************************************************)
(* The Responses gateway (routes/responses.py) over the quota-aware router *)
(* (QuotaAwareRouter of core/account_manager.py): choose an account that   *)
(* is neither cooling nor over budget, call its provider, on an error mark *)
(* the account rate limited and fall over once to another provider.        *)
(* get_account_manager makes a manager, and with it a router with an empty *)
(* cooldown pool, for every request.                                       *)
(***************************************************************************)
EXTENDS Integers, Sequences, FiniteSets, FiniteSetsExt

CONSTANTS
    RespRequests,        \* requests
    Accts,           \* the accounts of accounts.json, in order
    Providers,       \* provider names a request may ask for
    DefaultProvider, \* the provider tried when no account is left
    BaseCooldown, MaxCooldown,
    MaxClock         \* bound: the clock

ASSUME ResponsesAssumption ==
    /\ {BaseCooldown, MaxCooldown, MaxClock} \subseteq Nat
    /\ Accts \in Seq([provider : Providers, isActive : BOOLEAN])

VARIABLES
    respClock,
    overBudget,     \* accounts whose token budget is used up
    cooling,        \* _cooling_accounts of each request's router: when it ends
    count429,       \* _consecutive_429 of each request's router
    respPc,
    respReq,        \* provider asked for, account chosen
    respEvents,     \* the events streamed to the client
    telemetry,      \* history: the accounts whose requests were recorded
    marks           \* history: when each account was last marked, and until when

respVars == <<respClock, overBudget, cooling, count429, respPc, respReq, respEvents, telemetry, marks>>

Ids == DOMAIN Accts
None == 0

IsCooling(r, i) == cooling[r][i] > respClock

Candidates(r) == {i \in Ids : ~IsCooling(r, i) /\ i \notin overBudget}

\* The active one of a set of accounts, else the first in the list.
ActiveOrFirst(s) ==
    IF \E i \in s : Accts[i].isActive THEN Min({i \in s : Accts[i].isActive}) ELSE Min(s)

GetAvailableAccount(r, p) ==
    LET preferred == {i \in Candidates(r) : Accts[i].provider = p}
    IN  ActiveOrFirst(IF preferred # {} THEN preferred ELSE Candidates(r))

\* The fallback of a failed account: another provider first, then the pool,
\* then a provider without an account.
FallbackAccount(r, failed, p) ==
    LET others == Candidates(r) \ {failed}
        alt == {i \in others : Accts[i].provider # p}
    IN  IF alt # {} THEN Min(alt) ELSE IF others # {} THEN Min(others) ELSE None

FallbackProvider(r, failed, p) ==
    LET i == FallbackAccount(r, failed, p)
    IN  IF i # None THEN Accts[i].provider
        ELSE IF p # DefaultProvider THEN DefaultProvider ELSE "another"

Cooldown(n) == LET d == BaseCooldown * 2 ^ (n - 1) IN IF d < MaxCooldown THEN d ELSE MaxCooldown
-----------------------------------------------------------------------------
RespInit ==
    /\ respClock = 0 /\ overBudget \in SUBSET Ids
    /\ cooling = [r \in RespRequests |-> [i \in Ids |-> 0]]
    /\ count429 = [r \in RespRequests |-> [i \in Ids |-> 0]]
    /\ respPc = [r \in RespRequests |-> "new"]
    /\ respReq = [r \in RespRequests |-> [provider |-> "none", acct |-> None, fallback |-> "none"]]
    /\ respEvents = [r \in RespRequests |-> <<>>]
    /\ telemetry = {} /\ marks = [i \in Ids |-> 0]

RespTick ==
    /\ respClock < MaxClock
    /\ respClock' = respClock + 1
    /\ UNCHANGED <<overBudget, cooling, count429, respPc, respReq, respEvents, telemetry, marks>>

RespGoto(r, pc) == respPc' = [respPc EXCEPT ![r] = pc]
Emit(r, s) == respEvents' = [respEvents EXCEPT ![r] = @ \o s]

\* A streamed request announces itself; the choice of the account is made
\* before, for both kinds of request.
RespBegin(r, p) ==
    /\ respPc[r] = "new" /\ Candidates(r) # {}
    /\ respReq' = [respReq EXCEPT ![r].provider = p, ![r].acct = GetAvailableAccount(r, p)]
    /\ RespGoto(r, "calling") /\ Emit(r, <<"created", "item_added">>)
    /\ UNCHANGED <<respClock, overBudget, cooling, count429, telemetry, marks>>

\* QuotaExhaustedError: 429.
Exhausted(r) ==
    /\ respPc[r] = "new" /\ Candidates(r) = {}
    /\ RespGoto(r, "refused")
    /\ UNCHANGED <<respClock, overBudget, cooling, count429, respReq, respEvents, telemetry, marks>>

\* The provider answers, the first or the fallback.
RespAnswers(r) ==
    /\ respPc[r] \in {"calling", "fallback"}
    /\ RespGoto(r, "deliver")
    /\ UNCHANGED <<respClock, overBudget, cooling, count429, respReq, respEvents, telemetry, marks>>

\* mark_rate_limited, with the exponential backoff of this router.
Mark(r, i) ==
    LET until == respClock + Cooldown(count429[r][i] + 1)
    IN  /\ count429' = [count429 EXCEPT ![r][i] = @ + 1]
        /\ cooling' = [cooling EXCEPT ![r][i] = until]
        /\ marks' = [marks EXCEPT ![i] = until]

\* Mutant: the failed account may be the fallback of itself.
FailsOverAnywhere(r) ==
    /\ respPc[r] = "calling"
    /\ Mark(r, respReq[r].acct)
    /\ respReq' = [respReq EXCEPT ![r].fallback = respReq[r].provider]
    /\ RespGoto(r, "fallback") /\ Emit(r, <<"failover">>)
    /\ UNCHANGED <<respClock, overBudget, telemetry>>

FailsOver(r) ==
    LET q == respReq[r]
        fb == FallbackProvider(r, q.acct, q.provider)
    IN  /\ respPc[r] = "calling" /\ fb # q.provider
        /\ Mark(r, q.acct)
        /\ respReq' = [respReq EXCEPT ![r].fallback = fb]
        /\ RespGoto(r, "fallback") /\ Emit(r, <<"failover">>)
        /\ UNCHANGED <<respClock, overBudget, telemetry>>

\* Only the provider that failed is left.
FailsAlone(r) ==
    LET q == respReq[r]
    IN  /\ respPc[r] = "calling" /\ FallbackProvider(r, q.acct, q.provider) = q.provider
        /\ Mark(r, q.acct)
        /\ RespGoto(r, "failed") /\ Emit(r, <<"error">>)
        /\ UNCHANGED <<respClock, overBudget, respReq, telemetry>>

FallbackFails(r) ==
    /\ respPc[r] = "fallback"
    /\ RespGoto(r, "failed") /\ Emit(r, <<"error">>)
    /\ UNCHANGED <<respClock, overBudget, cooling, count429, respReq, telemetry, marks>>

\* is_disconnected is asked before the call and before the delivery.
Disconnects(r) ==
    /\ respPc[r] \in {"calling", "deliver"}
    /\ RespGoto(r, "gone")
    /\ UNCHANGED <<respClock, overBudget, cooling, count429, respReq, respEvents, telemetry, marks>>

\* The content, its repair events left out, the usage and the end.
Deliver(r) ==
    /\ respPc[r] = "deliver"
    /\ Emit(r, <<"content", "item_done", "completed">>)
    /\ telemetry' = telemetry \cup {<<r, respReq[r].acct>>}
    /\ RespGoto(r, "completed")
    /\ UNCHANGED <<respClock, overBudget, cooling, count429, respReq, marks>>

RespStep(r) ==
    \/ \E p \in Providers : RespBegin(r, p)
    \/ Exhausted(r) \/ RespAnswers(r) \/ FailsOver(r) \/ FailsAlone(r) \/ FallbackFails(r)
    \/ Disconnects(r) \/ Deliver(r)

RespNext == RespTick \/ \E r \in RespRequests : RespStep(r)
-----------------------------------------------------------------------------
Count(s, x) == Cardinality({i \in DOMAIN s : s[i] = x})

\* What a streaming client sees is a whole response: announced once, ended at
\* most once by completed or error, at most one failover and never to the
\* provider that failed; and no telemetry without a completed response.
StreamsAreWellFormed ==
    \A r \in RespRequests : LET s == respEvents[r] IN
        /\ s # <<>> => SubSeq(s, 1, 2) = <<"created", "item_added">> /\ Count(s, "created") = 1
        /\ Count(s, "failover") <= 1
        /\ Count(s, "completed") + Count(s, "error") <= 1
        /\ Count(s, "completed") = 1 <=> \E i \in Ids : <<r, i>> \in telemetry
        /\ respReq[r].fallback # "none" => respReq[r].fallback # respReq[r].provider

\* An account that was marked rate limited is not chosen before its cooldown
\* ends (README.md: the 429 cooldown pool; get_available_account selects "a
\* healthy account that is neither cooling nor budget-exhausted").
CoolingAccountsRest ==
    [][\A r \in RespRequests : respPc[r] = "new" /\ respPc'[r] = "calling"
                            => marks[respReq'[r].acct] <= respClock]_respVars
=============================================================================
