------------------------------- MODULE Debate -------------------------------
(***************************************************************************)
(* A debate of the discussion room (core/discussion_room.py) under its     *)
(* execution budget (core/debate_budget.py): the run and its sub-swarms    *)
(* are tasks that share one budget and one semaphore of provider slots.    *)
(* Every turn is delegated to a worker through the Redis broker when there *)
(* is one, and completed in process, with retries and healing, otherwise.  *)
(***************************************************************************)
EXTENDS Integers, FiniteSets

CONSTANTS
    Main, Subs,     \* the debate and its sub-swarms
    Turns,          \* rounds times participants
    Attempts,       \* attempts of one completion (4 in the code)
    Slots,          \* max_concurrent_provider_calls
    Workers,        \* workers that listen on a role's channel
    Budgets         \* the limits a caller gives

ASSUME DebateAssumption ==
    /\ IsFiniteSet(Subs) /\ Main \notin Subs
    /\ {Turns, Workers} \subseteq Nat /\ {Attempts, Slots} \subseteq Nat \ {0}
    /\ \A b \in Budgets : /\ b.calls \in Nat \ {0}
                          /\ {b.retries, b.heals, b.depth} \subseteq Nat

VARIABLES
    dSetup,     \* the limits, whether the broker is Redis, whether the verdict is refused
    dCalls, dRetries, dHeals, dFree,    \* the budget's counters and its semaphore
    dPc, dTurn, dAttempt,               \* where every run is
    dAsked,     \* the workers that have still to answer a run's requests
    dSummary    \* the consensus summaries

debateVars == <<dSetup, dCalls, dRetries, dHeals, dFree, dPc, dTurn, dAttempt, dAsked, dSummary>>

Debates == Subs \cup {Main}
Holding == {"delegating", "calling", "healing"}
Wanting == {"wantDelegate", "wantCall", "wantHeal"}
Ended == {"done", "raised", "cancelled"}
Holds(pc) == pc \in Holding

DebateTypeOK ==
    /\ dCalls \in 0 .. dSetup.limits.calls
    /\ dRetries \in 0 .. dSetup.limits.retries /\ dHeals \in 0 .. dSetup.limits.heals
    /\ dFree \in 0 .. Slots
    /\ dPc \in [Debates -> {"idle", "subs", "turn", "checkRetry", "retry", "verdict"}
                           \cup Holding \cup Wanting \cup Ended]
    /\ dTurn \in [Debates -> 1 .. Turns + 1] /\ dAttempt \in [Debates -> 0 .. Attempts - 1]
    /\ dAsked \in [Debates -> 0 .. Workers * Turns]
    /\ dSummary \in [Debates -> {"none", "text", "escalate", "error"}]

DebateInit ==
    /\ dSetup \in [limits : Budgets, redis : BOOLEAN, refused : BOOLEAN]
    /\ dCalls = 0 /\ dRetries = 0 /\ dHeals = 0 /\ dFree = Slots
    /\ dPc = [r \in Debates |-> "idle"] /\ dTurn = [r \in Debates |-> 1]
    /\ dAttempt = [r \in Debates |-> 0] /\ dAsked = [r \in Debates |-> 0]
    /\ dSummary = [r \in Debates |-> "none"]
-----------------------------------------------------------------------------
At(r, pc) == dPc[r] = pc
Move(r, pc) == dPc' = [dPc EXCEPT ![r] = pc]
Release == dFree' = dFree + 1

\* The depth is checked for the run (0) and for its sub-swarms (1).
StartDebate ==
    /\ At(Main, "idle")
    /\ dPc' = IF Subs = {} THEN [dPc EXCEPT ![Main] = "turn"]
              ELSE IF dSetup.limits.depth < 1 THEN [dPc EXCEPT ![Main] = "raised"]
              ELSE [r \in Debates |-> IF r = Main THEN "subs" ELSE "turn"]
    /\ UNCHANGED <<dSetup, dCalls, dRetries, dHeals, dFree, dTurn, dAttempt, dAsked, dSummary>>

\* The task group ends when all of its tasks have; its first error is raised.
JoinSubs ==
    /\ At(Main, "subs") /\ \A s \in Subs : dPc[s] \in Ended
    /\ Move(Main, IF \A s \in Subs : At(s, "done") THEN "turn" ELSE "raised")
    /\ UNCHANGED <<dSetup, dCalls, dRetries, dHeals, dFree, dTurn, dAttempt, dAsked, dSummary>>

\* A task that fails cancels the others; a slot is given back on the way out.
CancelSub(s) ==
    /\ dPc[s] \notin Ended \cup {"idle"} /\ \E t \in Subs : At(t, "raised")
    /\ Move(s, "cancelled")
    /\ dFree' = IF Holds(dPc[s]) THEN dFree + 1 ELSE dFree
    /\ UNCHANGED <<dSetup, dCalls, dRetries, dHeals, dTurn, dAttempt, dAsked, dSummary>>

\* The last turn is the moderator's and is never delegated.
BeginTurn(r) ==
    /\ At(r, "turn")
    /\ Move(r, IF dTurn[r] <= Turns /\ dSetup.redis THEN "wantDelegate" ELSE "wantCall")
    /\ dAttempt' = [dAttempt EXCEPT ![r] = 0]
    /\ UNCHANGED <<dSetup, dCalls, dRetries, dHeals, dFree, dTurn, dAsked, dSummary>>

Granted(pc) == CASE pc = "wantDelegate" -> "delegating"
                 [] pc = "wantCall"     -> "calling"
                 [] pc = "wantHeal"     -> "healing"

\* Mutant: the slot taken before the limit is seen is not given back.
AcquireKeepsSlot(r) ==
    /\ dPc[r] \in Wanting /\ dFree > 0
    /\ dFree' = dFree - 1
    /\ IF dCalls >= dSetup.limits.calls
       THEN Move(r, "raised") /\ UNCHANGED <<dCalls, dAsked>>
       ELSE /\ dCalls' = dCalls + 1
            /\ dAsked' = [dAsked EXCEPT ![r] = IF At(r, "wantDelegate") THEN @ + Workers ELSE @]
            /\ Move(r, Granted(dPc[r]))
    /\ UNCHANGED <<dSetup, dRetries, dHeals, dTurn, dAttempt, dSummary>>

\* provider_attempt: wait for a slot, then look at the limit; beyond it the
\* slot is released and BudgetExhausted ends the run. A delegated turn then
\* publishes its request to every worker of the role.
Acquire(r) ==
    /\ dPc[r] \in Wanting /\ dFree > 0
    /\ IF dCalls >= dSetup.limits.calls
       THEN Move(r, "raised") /\ UNCHANGED <<dCalls, dFree, dAsked>>
       ELSE /\ dCalls' = dCalls + 1 /\ dFree' = dFree - 1
            /\ dAsked' = [dAsked EXCEPT ![r] = IF At(r, "wantDelegate") THEN @ + Workers ELSE @]
            /\ Move(r, Granted(dPc[r]))
    /\ UNCHANGED <<dSetup, dRetries, dHeals, dTurn, dAttempt, dSummary>>

\* The contribution is appended, or the summary set, and the run goes on.
Contribute(r, summary) ==
    IF dTurn[r] <= Turns
    THEN dTurn' = [dTurn EXCEPT ![r] = @ + 1] /\ Move(r, "turn") /\ UNCHANGED dSummary
    ELSE dSummary' = [dSummary EXCEPT ![r] = summary] /\ Move(r, "verdict") /\ UNCHANGED dTurn

\* The channel of a role is shared by its turns: whichever worker answers
\* while the run listens answers the turn, also for an earlier request.
WorkerAnswers(r) ==
    /\ dAsked[r] > 0
    /\ dAsked' = [dAsked EXCEPT ![r] = @ - 1]
    /\ IF At(r, "delegating")
       THEN /\ Release
            /\ \/ Contribute(r, "none")
               \/ Move(r, "wantCall") /\ UNCHANGED <<dTurn, dSummary>>
       ELSE UNCHANGED <<dFree, dPc, dTurn, dSummary>>
    /\ UNCHANGED <<dSetup, dCalls, dRetries, dHeals, dAttempt>>

\* No worker within five seconds: the turn is completed in process.
DelegationTimesOut(r) ==
    /\ At(r, "delegating") /\ Release /\ Move(r, "wantCall")
    /\ UNCHANGED <<dSetup, dCalls, dRetries, dHeals, dTurn, dAttempt, dAsked, dSummary>>

ProviderAnswers(r) ==
    /\ At(r, "calling") /\ Release
    /\ \E summary \in {"text", "escalate"} : Contribute(r, summary)
    /\ UNCHANGED <<dSetup, dCalls, dRetries, dHeals, dAttempt, dAsked>>

\* No account, no credit: an exception before a slot is taken, not retryable.
ResolveFails(r) ==
    /\ At(r, "wantCall") /\ Contribute(r, "error")
    /\ UNCHANGED <<dSetup, dCalls, dRetries, dHeals, dFree, dAttempt, dAsked>>

\* classify_provider_failure: a marker on the error or its causes, the HTTP
\* status, the type, the wording; what stays ambiguous is permanent.
Failures == {"permanent", "transient"}

\* Not retryable, or the last attempt: the turn stays silent.
ProviderFails(r, failure) ==
    /\ At(r, "calling") /\ (failure = "permanent" \/ dAttempt[r] = Attempts - 1)
    /\ Release /\ Contribute(r, "error")
    /\ UNCHANGED <<dSetup, dCalls, dRetries, dHeals, dAttempt, dAsked>>

\* A transient failure: heal the prompt unless a fallback account took over
\* or the healing calls are used up.
ProviderFailsTransiently(r) ==
    /\ At(r, "calling") /\ dAttempt[r] < Attempts - 1 /\ Release
    /\ \/ /\ dHeals < dSetup.limits.heals
          /\ dHeals' = dHeals + 1 /\ Move(r, "wantHeal")
       \/ Move(r, "checkRetry") /\ UNCHANGED dHeals
    /\ UNCHANGED <<dSetup, dCalls, dRetries, dTurn, dAttempt, dAsked, dSummary>>

\* The healing call returns, whatever it returns.
Healed(r) ==
    /\ At(r, "healing") /\ Release /\ Move(r, "checkRetry")
    /\ UNCHANGED <<dSetup, dCalls, dRetries, dHeals, dTurn, dAttempt, dAsked, dSummary>>

CheckRetry(r) ==
    /\ At(r, "checkRetry")
    /\ IF dRetries >= dSetup.limits.retries
       THEN Contribute(r, "error")
       ELSE Move(r, "retry") /\ UNCHANGED <<dTurn, dSummary>>
    /\ UNCHANGED <<dSetup, dCalls, dRetries, dHeals, dFree, dAttempt, dAsked>>

\* Mutant: the retries are counted against the check made before the pause.
RetryUnchecked(r) ==
    /\ At(r, "retry")
    /\ dRetries' = dRetries + 1 /\ Move(r, "wantCall")
    /\ dAttempt' = [dAttempt EXCEPT ![r] = @ + 1]
    /\ UNCHANGED <<dSetup, dCalls, dHeals, dFree, dTurn, dAsked, dSummary>>

\* consume_retry, after a pause in which another run may have used the last.
Retry(r) ==
    /\ At(r, "retry")
    /\ IF dRetries >= dSetup.limits.retries
       THEN Move(r, "raised") /\ UNCHANGED <<dRetries, dAttempt>>
       ELSE /\ dRetries' = dRetries + 1 /\ Move(r, "wantCall")
            /\ dAttempt' = [dAttempt EXCEPT ![r] = @ + 1]
    /\ UNCHANGED <<dSetup, dCalls, dHeals, dFree, dTurn, dAsked, dSummary>>

\* Mutant: the reports of the sub-swarms are left out.
ReportsOwn(r) == {dSummary[r]}

\* The summaries of the sub-swarms are appended to the run's own.
Reports(r) == {dSummary[r]} \cup IF r = Main THEN {dSummary[s] : s \in Subs} ELSE {}

\* create_verifier_verdict, of a run that has ended.
Decision(r) ==
    IF "error" \in Reports(r) THEN "reject"
    ELSE IF "escalate" \in Reports(r) THEN "escalate" ELSE "accept"

\* A high risk without approval and certificate is refused only here, after
\* all the calls were made; otherwise the invoice and the archive are written.
Verdict(r) ==
    /\ At(r, "verdict")
    /\ Move(r, IF dSetup.refused THEN "raised" ELSE "done")
    /\ UNCHANGED <<dSetup, dCalls, dRetries, dHeals, dFree, dTurn, dAttempt, dAsked, dSummary>>

DebateStep(r) ==
    \/ BeginTurn(r) \/ Acquire(r) \/ DelegationTimesOut(r)
    \/ ProviderAnswers(r) \/ ResolveFails(r) \/ ProviderFailsTransiently(r)
    \/ \E f \in Failures : ProviderFails(r, f)
    \/ Healed(r) \/ CheckRetry(r) \/ Retry(r) \/ Verdict(r)

DebateNext ==
    \/ StartDebate \/ JoinSubs \/ \E s \in Subs : CancelSub(s)
    \/ \E r \in Debates : DebateStep(r) \/ WorkerAnswers(r)

\* The event loop runs every task that can run; a provider call and a
\* delegated turn end by a timeout. Workers need not answer.
DebateFairness ==
    /\ WF_debateVars(JoinSubs)
    /\ \A r \in Debates : WF_debateVars(DebateStep(r))

DebateSpec == DebateInit /\ [][DebateNext]_debateVars
-----------------------------------------------------------------------------
\* Every slot is either free or held by a run that is inside a call, so a run
\* that raises, is cancelled or times out leaks none.
SlotsAreReturned == dFree = Slots - Cardinality({r \in Debates : Holds(dPc[r])})

\* A debate whose verdict is accept rests on a synthesis that succeeded in
\* the run and in every sub-swarm.
AcceptedDebatesAreWhole ==
    \A r \in Debates : At(r, "done") /\ Decision(r) = "accept" =>
        /\ dSummary[r] = "text"
        /\ r = Main => \A s \in Subs : At(s, "done") /\ dSummary[s] = "text"

\* A debate that has started ends, with a verdict or with an error, although
\* its runs share the slots and workers may never answer.
DebateEnds == dPc[Main] # "idle" ~> dPc[Main] \in Ended
=============================================================================
