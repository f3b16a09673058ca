----------------------------- MODULE AgentLoop -----------------------------
(***************************************************************************)
(* The agent loop of one session (core/router.py) as the chat routes start  *)
(* it (routes/chat.py): intent, model calls with a failover (core/           *)
(* providers.py), batches of tool calls with human approval, the pause       *)
(* switch and cancellation.                                                  *)
(* Every action runs from one await of a loop to the next.                   *)
(***************************************************************************)
EXTENDS Integers, Sequences, FiniteSets

CONSTANTS
    Loops,            \* requests of the session
    MaxIterations,    \* agent.max_iterations (5)
    GateAt,           \* iteration from which a human is asked (3)
    MaxToolCalls,     \* agent.max_tool_calls (15)
    Batch,            \* bound: tool calls of one answer
    MaxTasks,         \* MAX_CONCURRENT_TASKS (8)
    MaxPauses         \* bound: pauses of the session

ASSUME AgentLoopAssumption ==
    /\ IsFiniteSet(Loops) /\ MaxIterations \in Nat \ {0} /\ GateAt \in Nat /\ MaxToolCalls \in Nat /\ Batch \in Nat \ {0}
    /\ MaxTasks \in Nat \ {0} /\ MaxPauses \in Nat

VARIABLES
    lpLoops,       \* each loop's place and locals
    lpApproval,    \* ACTIVE_APPROVALS[session]: << >>, or the call that waits
    lpPaused,      \* the session is in PAUSED_SESSIONS
    lpPauses,      \* pauses so far
    lpGauge,       \* ACTIVE_SESSIONS
    lpLoad         \* active_load of the agent's route in ROUTE_REGISTRY

lpVars == <<lpLoops, lpApproval, lpPaused, lpPauses, lpGauge, lpLoad>>
lpShared == <<lpApproval, lpPaused, lpPauses, lpGauge, lpLoad>>

LoopSlots == 0 .. Batch       \* slot 0 is the loop continuation gate
Unasked == {"waiting", "hijacked"}                \* an approval that was not picked up
Settled == {"done", "handoff"}
Kinds == {"chat", "task", "stream"}

NewLoop == [pc |-> "idle", kind |-> "chat", iter |-> 0, calls |-> 0, slot |-> [s \in LoopSlots |-> "none"],
            on |-> "primary", voice |-> {}, resp |-> "none", status |-> "none", ran |-> 0, expired |-> FALSE]

InTry == {l \in Loops : lpLoops[l].pc \in {"top", "gate", "model", "tools"}}
InFlight == {l \in Loops : lpLoops[l].pc \notin {"idle", "ended"}}

LpTypeOK ==
    /\ \A l \in Loops :
          /\ lpLoops[l].pc \in {"idle", "classify", "top", "gate", "model", "tools", "ended"}
          /\ lpLoops[l].kind \in Kinds /\ lpLoops[l].iter \in 0 .. MaxIterations
          /\ lpLoops[l].status \in {"none", "running", "completed", "timeout", "error"}
    /\ lpApproval \in {<< >>} \cup (Loops \X LoopSlots)
    /\ Cardinality({l \in InFlight : lpLoops[l].kind = "task"}) <= MaxTasks

AgentLoopInit ==
    /\ lpLoops = [l \in Loops |-> NewLoop]
    /\ lpApproval = << >> /\ lpPaused = FALSE /\ lpPauses = 0 /\ lpGauge = 0
    /\ lpLoad = 0
-----------------------------------------------------------------------------
\* end_dispatch of the route registry; its statistics are left out.
EndDispatch == lpLoad' = IF lpLoad > 0 THEN lpLoad - 1 ELSE 0

\* The last iteration's answer is replaced by an error; a stream that was
\* cancelled or raised does not come to that line.
FinalResponse(l, resp) ==
    LET lp == lpLoops[l]
    IN  IF lp.iter >= MaxIterations /\ resp \notin {"error", "nocontent"} /\ (lp.kind # "stream" \/ resp \notin {"cancelled", "raised"})
        THEN "error" ELSE resp

\* run_background_task: what the record says when the loop returns or raises.
TaskStatus(l, resp) ==
    IF lpLoops[l].kind # "task" THEN "none" ELSE IF resp = "raised" THEN "error" ELSE "completed"

\* A request that an awaited coroutine leaves behind, taken out by its finally.
WithdrawApprovals(l) ==
    lpApproval' = IF \E s \in LoopSlots : lpLoops[l].slot[s] \in Unasked THEN << >> ELSE lpApproval

\* What is left of a request: its response and the task's record.
LoopEnded(l, resp, status, expired) ==
    [NewLoop EXCEPT !.pc = "ended", !.kind = lpLoops[l].kind, !.resp = resp, !.status = status, !.expired = expired]

\* Mutant: the gauge is lowered only when the loop did not raise.
LeaveLoopKeepsGauge(l, resp) ==
    /\ lpGauge' = IF resp = "raised" THEN lpGauge ELSE lpGauge - 1
    /\ EndDispatch
    /\ lpLoops' = [lpLoops EXCEPT ![l] = LoopEnded(l, FinalResponse(l, resp), TaskStatus(l, resp), FALSE)]
    /\ UNCHANGED <<lpPaused, lpPauses>>

\* The finally of the loop and the end of run_agent_loop and its callers.
LeaveLoop(l, resp) ==
    /\ lpGauge' = lpGauge - 1
    /\ EndDispatch
    /\ lpLoops' = [lpLoops EXCEPT ![l] = LoopEnded(l, FinalResponse(l, resp), TaskStatus(l, resp), FALSE)]
    /\ UNCHANGED <<lpPaused, lpPauses>>
-----------------------------------------------------------------------------
\* Mutant: the task capacity is not looked at.
StartLoopAlways(l) ==
    /\ lpLoops[l].pc = "idle"
    /\ \E kind \in Kinds : lpLoops' = [lpLoops EXCEPT ![l].pc = "classify", ![l].kind = kind,
                                        ![l].status = IF kind = "task" THEN "running" ELSE "none"]
    /\ lpLoad' = lpLoad + 1
    /\ UNCHANGED <<lpApproval, lpPaused, lpPauses, lpGauge>>

\* chat, stream and the web sockets; the account and the tenant's credit are
\* resolved before the first await, or the request fails.
StartLoop(l) ==
    /\ lpLoops[l].pc = "idle"
    /\ \E kind \in Kinds :
          /\ kind = "task" => Cardinality({k \in InFlight : lpLoops[k].kind = "task"}) < MaxTasks
          /\ lpLoops' = [lpLoops EXCEPT ![l].pc = "classify", ![l].kind = kind,
                                        ![l].status = IF kind = "task" THEN "running" ELSE "none"]
    /\ lpLoad' = lpLoad + 1
    /\ UNCHANGED <<lpApproval, lpPaused, lpPauses, lpGauge>>

\* _resolve_account: no account, no budget anywhere, or no credit.
NoAccount(l) ==
    /\ lpLoops[l].pc = "idle"
    /\ \E kind \in Kinds :
          lpLoops' = [lpLoops EXCEPT ![l].pc = "ended", ![l].kind = kind, ![l].resp = "raised",
                                     ![l].status = IF kind = "task" THEN "error" ELSE "none"]
    /\ UNCHANGED lpShared

\* _classify_intent answers, or fails and stands for TASK; ACTIVE_SESSIONS.inc.
Classified(l) ==
    /\ lpLoops[l].pc = "classify"
    /\ lpLoops' = [lpLoops EXCEPT ![l].pc = "top"]
    /\ lpGauge' = lpGauge + 1
    /\ UNCHANGED <<lpApproval, lpPaused, lpPauses, lpLoad>>

\* The head of the loop, when the session is not paused.
Iterate(l) ==
    LET i == lpLoops[l].iter + 1
    IN  /\ lpLoops[l].pc = "top" /\ lpLoops[l].iter < MaxIterations /\ ~lpPaused
        /\ IF i >= GateAt
           THEN /\ lpLoops' = [lpLoops EXCEPT ![l].pc = "gate", ![l].iter = i, ![l].slot[0] = "waiting"]
                /\ lpApproval' = <<l, 0>>
           ELSE /\ lpLoops' = [lpLoops EXCEPT ![l].pc = "model", ![l].iter = i, ![l].on = "primary", ![l].voice = {}]
                /\ UNCHANGED lpApproval
        /\ UNCHANGED <<lpPaused, lpPauses, lpGauge, lpLoad>>

\* while iteration < max_iterations ends.
OutOfIterations(l) ==
    /\ lpLoops[l].pc = "top" /\ lpLoops[l].iter >= MaxIterations
    /\ LeaveLoop(l, "none") /\ UNCHANGED lpApproval

\* The hijack's dictionary is true: the loop goes on.
GateAnswered(l) ==
    /\ lpLoops[l].pc = "gate" /\ lpLoops[l].slot[0] = "hijacked"
    /\ lpApproval' = << >>
    /\ lpLoops' = [lpLoops EXCEPT ![l].pc = "model", ![l].slot[0] = "none", ![l].on = "primary", ![l].voice = {}]
    /\ UNCHANGED <<lpPaused, lpPauses, lpGauge, lpLoad>>
-----------------------------------------------------------------------------
\* Mutant: a stream fails over although text was already sent.
MayFailOverAlways(l) == lpLoops[l].pc = "model" /\ lpLoops[l].on = "primary"

\* A transient error of the primary provider before anything was sent.
MayFailOver(l) == lpLoops[l].pc = "model" /\ lpLoops[l].on = "primary" /\ lpLoops[l].voice = {}

\* _fallback finds another account under its budget.
FailOver(l) ==
    /\ MayFailOver(l)
    /\ lpLoops' = [lpLoops EXCEPT ![l].on = "fallback"]
    /\ UNCHANGED lpShared

\* A chunk of text of a native stream.
StreamText(l) ==
    /\ lpLoops[l].pc = "model" /\ lpLoops[l].kind = "stream"
    /\ lpLoops' = [lpLoops EXCEPT ![l].voice = @ \cup {lpLoops[l].on}]
    /\ lpLoops' # lpLoops /\ UNCHANGED lpShared

\* The stream ends, with an error event after text or with nothing at all.
StreamEnds(l) ==
    /\ lpLoops[l].pc = "model" /\ lpLoops[l].kind = "stream"
    /\ \E resp \in IF lpLoops[l].voice = {} THEN {"error", "nocontent"} ELSE {"text", "partial"} : LeaveLoop(l, resp)
    /\ UNCHANGED lpApproval

\* complete gave text, or the error that no fallback repaired.
ModelAnswers(l) ==
    /\ lpLoops[l].pc = "model" /\ lpLoops[l].kind # "stream"
    /\ \E resp \in {"text", "error"} : LeaveLoop(l, resp)
    /\ UNCHANGED lpApproval

\* The rate limit, a provider that raised, or a call that fails validate_call.
LoopRaises(l) ==
    /\ lpLoops[l].pc = "model"
    /\ LeaveLoop(l, "raised") /\ UNCHANGED lpApproval

\* _execute_tool_with_approval, up to its first await, for every call of the
\* answer in turn: a later request takes the session's place from an earlier.
RequestTools(l, calls, counted) ==
    LET n == Len(calls)
        asks == {s \in 1 .. n : calls[s] = "sensitive"}
        last == CHOOSE s \in asks : \A t \in asks : t <= s
    IN  /\ lpLoops' = [lpLoops EXCEPT ![l].pc = "tools", ![l].calls = counted,
                            ![l].ran = @ + (n - Cardinality(asks)),
                            ![l].slot = [s \in LoopSlots |-> IF s \in asks THEN "waiting" ELSE IF s \in 1 .. n THEN "running" ELSE "none"]]
        /\ lpApproval' = IF asks = {} THEN lpApproval ELSE <<l, last>>
        /\ UNCHANGED <<lpPaused, lpPauses, lpGauge, lpLoad>>

Answers == UNION {[1 .. n -> {"plain", "sensitive"}] : n \in 1 .. Batch}

\* Mutant: the batch that crosses the limit is executed.
ToolCallsLate(l, calls) ==
    /\ lpLoops[l].pc = "model" /\ lpLoops[l].kind # "stream"
    /\ RequestTools(l, calls, lpLoops[l].calls + Len(calls))

\* run_agent_loop counts the batch before it executes it.
ToolCalls(l, calls) ==
    /\ lpLoops[l].pc = "model" /\ lpLoops[l].kind # "stream"
    /\ IF lpLoops[l].calls + Len(calls) > MaxToolCalls
       THEN LeaveLoop(l, "error") /\ UNCHANGED lpApproval
       ELSE RequestTools(l, calls, lpLoops[l].calls + Len(calls))

\* stream_agent_loop executes it, and counts it afterwards.
StreamToolCalls(l, calls) ==
    /\ lpLoops[l].pc = "model" /\ lpLoops[l].kind = "stream"
    /\ RequestTools(l, calls, lpLoops[l].calls)

\* hijack_session_endpoint answers the request the session shows now. It is the
\* only answer that arrives: approve_session and reject_session look into the
\* table of another copy of the module, and the command lines answer before
\* the request is registered.
HijackSession ==
    /\ lpApproval # << >> /\ lpLoops[lpApproval[1]].slot[lpApproval[2]] = "waiting"
    /\ lpLoops' = [lpLoops EXCEPT ![lpApproval[1]].slot[lpApproval[2]] = "hijacked"]
    /\ UNCHANGED lpShared

\* _wait_for_approval goes on; its finally takes out whatever request is there,
\* and the hijacker's value stands for the tool's result.
ToolAnswered(l, s) ==
    /\ lpLoops[l].pc = "tools" /\ lpLoops[l].slot[s] = "hijacked"
    /\ lpApproval' = << >>
    /\ \E r \in Settled : lpLoops' = [lpLoops EXCEPT ![l].slot[s] = r]
    /\ UNCHANGED <<lpPaused, lpPauses, lpGauge, lpLoad>>

\* execute_tool in a thread of the balancer.
ToolReturns(l, s) ==
    /\ lpLoops[l].pc = "tools" /\ lpLoops[l].slot[s] = "running"
    /\ \E r \in Settled : lpLoops' = [lpLoops EXCEPT ![l].slot[s] = r]
    /\ UNCHANGED lpShared

\* gather has all results: a handoff ends the loop, else the next iteration.
ToolsGathered(l) ==
    LET lp == lpLoops[l]
        used == {s \in LoopSlots : lp.slot[s] # "none"}
        counted == IF lp.kind = "stream" THEN lp.calls + Cardinality(used) ELSE lp.calls
    IN  /\ lp.pc = "tools" /\ \A s \in used : lp.slot[s] \in Settled
        /\ UNCHANGED lpApproval
        /\ \/ (\E s \in used : lp.slot[s] = "handoff") /\ LeaveLoop(l, "handoff")
           \/ (\A s \in used : lp.slot[s] # "handoff") /\ counted > MaxToolCalls /\ LeaveLoop(l, "error")
           \/ /\ \A s \in used : lp.slot[s] # "handoff"
              /\ counted <= MaxToolCalls
              /\ lpLoops' = [lpLoops EXCEPT ![l].pc = "top", ![l].calls = counted, ![l].slot = [s \in LoopSlots |-> "none"]]
              /\ UNCHANGED <<lpPaused, lpPauses, lpGauge, lpLoad>>
-----------------------------------------------------------------------------
\* wait_for times out before the loop has its handler: the task is a timeout.
TimeoutEarly(l) ==
    /\ lpLoops[l].pc = "classify" /\ lpLoops[l].kind \in {"task", "stream"}
    /\ EndDispatch
    /\ lpLoops' = [lpLoops EXCEPT ![l] = LoopEnded(l, "cancelled", IF lpLoops[l].kind = "task" THEN "timeout" ELSE "none", TRUE)]
    /\ UNCHANGED <<lpApproval, lpPaused, lpPauses, lpGauge>>

\* Afterwards the loop swallows the cancellation and returns a response, which
\* wait_for hands on: the record says completed.
Timeout(l) ==
    /\ l \in InTry /\ lpLoops[l].kind \in {"task", "stream"}
    /\ WithdrawApprovals(l)
    /\ lpGauge' = lpGauge - 1
    /\ EndDispatch
    /\ lpLoops' = [lpLoops EXCEPT ![l] = LoopEnded(l, FinalResponse(l, "cancelled"), TaskStatus(l, "cancelled"), TRUE)]
    /\ UNCHANGED <<lpPaused, lpPauses>>

PauseSession ==
    /\ ~lpPaused /\ lpPauses < MaxPauses /\ lpPaused' = TRUE /\ lpPauses' = lpPauses + 1
    /\ UNCHANGED <<lpLoops, lpApproval, lpGauge, lpLoad>>

ResumeSession ==
    /\ lpPaused /\ lpPaused' = FALSE
    /\ UNCHANGED <<lpLoops, lpApproval, lpPauses, lpGauge, lpLoad>>

LoopStep(l) ==
    \/ Classified(l) \/ Iterate(l) \/ OutOfIterations(l) \/ GateAnswered(l)
    \/ FailOver(l) \/ StreamText(l) \/ StreamEnds(l) \/ ModelAnswers(l) \/ LoopRaises(l)
    \/ (\E calls \in Answers : ToolCalls(l, calls) \/ StreamToolCalls(l, calls))
    \/ (\E s \in LoopSlots : ToolAnswered(l, s) \/ ToolReturns(l, s)) \/ ToolsGathered(l)

AgentLoopNext ==
    \/ (\E l \in Loops : StartLoop(l) \/ NoAccount(l) \/ LoopStep(l) \/ TimeoutEarly(l) \/ Timeout(l))
    \/ HijackSession \/ PauseSession \/ ResumeSession

AgentLoopFairness == (\A l \in Loops : WF_lpVars(LoopStep(l))) /\ WF_lpVars(ResumeSession)

AgentLoopSpec == AgentLoopInit /\ [][AgentLoopNext]_lpVars /\ AgentLoopFairness
-----------------------------------------------------------------------------
\* The gauge of active sessions and the load of the route count exactly the
\* loops that run, however they end: answered, raised, denied or cancelled.
LoadsBalance == lpGauge = Cardinality(InTry) /\ lpLoad = Cardinality(InFlight)

\* No request executes more tools than the limit; a stream at most one batch more.
ToolsAreLimited ==
    \A l \in Loops : lpLoops[l].ran <= MaxToolCalls + (IF lpLoops[l].kind = "stream" THEN Batch ELSE 0)

\* An answer never mixes the text of two providers.
OneVoicePerAnswer == \A l \in Loops : Cardinality(lpLoops[l].voice) <= 1

\* A loop that waits for an answer: nobody has to hijack it, and a request that
\* a later one of the session displaced cannot be answered at all.
AwaitsAnswer(l) == \E s \in LoopSlots : lpLoops[l].slot[s] = "waiting"

\* Every request of a session that is resumed ends, or waits for an answer.
LoopsEnd == \A l \in Loops : (lpLoops[l].pc # "idle") ~> (lpLoops[l].pc = "ended" \/ AwaitsAnswer(l))

\* developer_specifications.md:63, the approve endpoint grants the approval of a
\* waiting gate: a request for approval is answered. It is not: the endpoint
\* never finds it.
ApprovalsAreAnswered ==
    \A l \in Loops, s \in LoopSlots : (lpLoops[l].slot[s] = "waiting") ~> (lpLoops[l].slot[s] # "waiting")

\* test_task_timeout_sets_terminal_status: a task that ran into the timeout is
\* recorded as one.
TimedOutTasksSaySo ==
    \A l \in Loops : lpLoops[l].kind = "task" /\ lpLoops[l].expired => lpLoops[l].status = "timeout"
=============================================================================
