--------------------------- MODULE AgentLoopProofs ---------------------------
(***************************************************************************)
(* What the agent loop keeps in every state: the types of its records, the  *)
(* gauges that count the loops that run, the bound on background tasks and   *)
(* on executed tools, and the single voice of an answer.                     *)
(***************************************************************************)
EXTENDS AgentLoop, FiniteSetTheorems, WellFoundedInduction, TLAPS

LoopPlaces == {"idle", "classify", "top", "gate", "model", "tools", "ended"}
SlotStates == Unasked \cup Settled \cup {"none", "running"}
LoopResponses == {"none", "error", "nocontent", "text", "partial", "cancelled", "raised", "handoff"}
LoopProviders == {"primary", "fallback"}

LoopRecords ==
    [pc : LoopPlaces, kind : Kinds, iter : 0 .. MaxIterations, calls : Nat, slot : [LoopSlots -> SlotStates],
     on : LoopProviders, voice : SUBSET LoopProviders, resp : LoopResponses,
     status : {"none", "running", "completed", "timeout", "error"}, ran : Nat, expired : BOOLEAN]

\* The tools of the answer that wait for a person, and all of them.
OpenSlots(slot) == {s \in 1 .. Batch : slot[s] \in Unasked}
UsedSlots(slot) == {s \in 1 .. Batch : slot[s] # "none"}
NoSlots == [s \in LoopSlots |-> "none"]

\* A request beyond those counted runs only in a stream, which counts a batch
\* when it has its results; an answer has only the text of the provider that
\* gives it; and the slots are in use only where the loop waits for them.
LoopOK(lp) ==
    /\ lp \in LoopRecords
    /\ lp.voice \subseteq {lp.on}
    /\ lp.calls <= MaxToolCalls
    /\ lp.ran + Cardinality(OpenSlots(lp.slot))
         <= lp.calls + (IF lp.kind = "stream" THEN Cardinality(UsedSlots(lp.slot)) ELSE 0)
    /\ lp.pc = "tools" => lp.slot[0] = "none"
    /\ lp.pc = "gate" => \A s \in 1 .. Batch : lp.slot[s] = "none"
    /\ lp.pc \notin {"gate", "tools"} => lp.slot = NoSlots

Trying(pc) == pc \in {"top", "gate", "model", "tools"}
Flying(pc) == pc \notin {"idle", "ended"}
TaskFlies(lp) == Flying(lp.pc) /\ lp.kind = "task"
TasksInFlight == {l \in Loops : TaskFlies(lpLoops[l])}

LoopInv ==
    /\ lpLoops \in [Loops -> LoopRecords]
    /\ \A l \in Loops : LoopOK(lpLoops[l])
    /\ lpApproval \in {<< >>} \cup (Loops \X LoopSlots)
    /\ lpGauge \in Nat /\ lpGauge = Cardinality(InTry)
    /\ lpLoad \in Nat /\ lpLoad = Cardinality(InFlight)
    /\ Cardinality(TasksInFlight) <= MaxTasks

LEMMA LoopSetsAreFinite ==
    /\ IsFiniteSet(InTry) /\ IsFiniteSet(InFlight) /\ IsFiniteSet(TasksInFlight)
    /\ Cardinality(InTry) \in Nat /\ Cardinality(InFlight) \in Nat /\ Cardinality(TasksInFlight) \in Nat
<1>1. InTry \subseteq Loops /\ InFlight \subseteq Loops /\ TasksInFlight \subseteq Loops
    BY DEF InTry, InFlight, TasksInFlight
<1>2. IsFiniteSet(InTry) /\ IsFiniteSet(InFlight) /\ IsFiniteSet(TasksInFlight)
    BY <1>1, AgentLoopAssumption, FS_Subset
<1> QED
    BY <1>2, FS_CardinalityType

\* The slots of an answer are few.
LEMMA SlotCounts ==
    ASSUME NEW slot
    PROVE  /\ IsFiniteSet(OpenSlots(slot)) /\ Cardinality(OpenSlots(slot)) \in Nat
           /\ IsFiniteSet(UsedSlots(slot)) /\ Cardinality(UsedSlots(slot)) \in 0 .. Batch
<1>1. Batch \in Nat
    BY AgentLoopAssumption
<1>2. IsFiniteSet(1 .. Batch) /\ Cardinality(1 .. Batch) = Batch
    BY <1>1, FS_Interval
<1>3. OpenSlots(slot) \subseteq 1 .. Batch /\ UsedSlots(slot) \subseteq 1 .. Batch
    BY DEF OpenSlots, UsedSlots
<1>4. \A T \in SUBSET (1 .. Batch) : IsFiniteSet(T) /\ Cardinality(T) <= Batch /\ Cardinality(T) \in Nat
    BY <1>2, FS_Subset, FS_CardinalityType
<1> QED
    BY <1>1, <1>3, <1>4

LEMMA NoSlotsAreNone ==
    /\ NoSlots \in [LoopSlots -> SlotStates] /\ \A s \in LoopSlots : NoSlots[s] = "none"
    /\ 0 \in LoopSlots /\ 1 .. Batch \subseteq LoopSlots
    /\ OpenSlots(NoSlots) = {} /\ UsedSlots(NoSlots) = {}
<1>1. 0 \in LoopSlots /\ 1 .. Batch \subseteq LoopSlots
    BY AgentLoopAssumption DEF LoopSlots
<1>2. NoSlots \in [LoopSlots -> SlotStates] /\ \A s \in LoopSlots : NoSlots[s] = "none"
    BY DEF NoSlots, SlotStates
<1> QED
    BY <1>1, <1>2 DEF OpenSlots, UsedSlots, Unasked

\* A count that follows one member's place.
LEMMA CountMoves ==
    ASSUME NEW S, IsFiniteSet(S), NEW T, NEW l, \A k : k # l => (k \in T <=> k \in S)
    PROVE  /\ l \in S /\ l \in T => Cardinality(T) = Cardinality(S)
           /\ l \notin S /\ l \notin T => Cardinality(T) = Cardinality(S)
           /\ l \notin S /\ l \in T => Cardinality(T) = Cardinality(S) + 1
           /\ l \in S /\ l \notin T => Cardinality(T) = Cardinality(S) - 1 /\ Cardinality(S) > 0
<1>1. (l \in S <=> l \in T) => T = S
    OBVIOUS
<1>2. l \notin S /\ l \in T => T = S \cup {l}
    OBVIOUS
<1>3. l \in S /\ l \notin T => T = S \ {l}
    OBVIOUS
<1>4. l \notin S => Cardinality(S \cup {l}) = Cardinality(S) + 1
    BY FS_AddElement
<1>5. l \in S => Cardinality(S \ {l}) = Cardinality(S) - 1
    BY FS_RemoveElement
<1>6. l \in S => S # {}
    OBVIOUS
<1>7. l \in S => Cardinality(S) > 0
    BY <1>6, FS_EmptySet, FS_CardinalityType
<1> QED
    BY <1>1, <1>2, <1>3, <1>4, <1>5, <1>7

\* One loop moves: the gauge and the load follow its place, and a task takes
\* off only below the bound.
LEMMA LoopMoves ==
    ASSUME LoopInv, NEW l \in Loops, NEW lp, LoopOK(lp),
           lpLoops' = [lpLoops EXCEPT ![l] = lp],
           lpApproval' \in {<< >>} \cup (Loops \X LoopSlots),
           Trying(lpLoops[l].pc) /\ Trying(lp.pc) => lpGauge' = lpGauge,
           ~Trying(lpLoops[l].pc) /\ ~Trying(lp.pc) => lpGauge' = lpGauge,
           ~Trying(lpLoops[l].pc) /\ Trying(lp.pc) => lpGauge' = lpGauge + 1,
           Trying(lpLoops[l].pc) /\ ~Trying(lp.pc) => lpGauge' = lpGauge - 1,
           Flying(lpLoops[l].pc) /\ Flying(lp.pc) => lpLoad' = lpLoad,
           ~Flying(lpLoops[l].pc) /\ ~Flying(lp.pc) => lpLoad' = lpLoad,
           ~Flying(lpLoops[l].pc) /\ Flying(lp.pc) => lpLoad' = lpLoad + 1,
           Flying(lpLoops[l].pc) /\ ~Flying(lp.pc) => lpLoad' = IF lpLoad > 0 THEN lpLoad - 1 ELSE 0,
           TaskFlies(lp) => TaskFlies(lpLoops[l]) \/ Cardinality(TasksInFlight) < MaxTasks
    PROVE  LoopInv'
<1>1. lpLoops' \in [Loops -> LoopRecords] /\ \A k \in Loops : lpLoops'[k] = IF k = l THEN lp ELSE lpLoops[k]
    BY DEF LoopInv, LoopOK
<1>2. \A k \in Loops : LoopOK(lpLoops'[k])
    BY <1>1 DEF LoopInv
<1>3. /\ \A k : k # l => (k \in InTry' <=> k \in InTry)
      /\ l \in InTry <=> Trying(lpLoops[l].pc)
      /\ l \in InTry' <=> Trying(lp.pc)
    BY <1>1 DEF InTry, Trying
<1>4. /\ \A k : k # l => (k \in InFlight' <=> k \in InFlight)
      /\ l \in InFlight <=> Flying(lpLoops[l].pc)
      /\ l \in InFlight' <=> Flying(lp.pc)
    BY <1>1 DEF InFlight, Flying
<1>5. /\ \A k : k # l => (k \in TasksInFlight' <=> k \in TasksInFlight)
      /\ l \in TasksInFlight <=> TaskFlies(lpLoops[l])
      /\ l \in TasksInFlight' <=> TaskFlies(lp)
    BY <1>1 DEF TasksInFlight
<1>6. lpGauge' = Cardinality(InTry') /\ lpGauge' \in Nat
  <2>1. lpGauge = Cardinality(InTry) /\ lpGauge \in Nat
      BY DEF LoopInv
  <2> QED
      BY <1>3, <2>1, LoopSetsAreFinite, CountMoves
<1>7. lpLoad' = Cardinality(InFlight') /\ lpLoad' \in Nat
  <2>1. lpLoad = Cardinality(InFlight) /\ lpLoad \in Nat
      BY DEF LoopInv
  <2> QED
      BY <1>4, <2>1, LoopSetsAreFinite, CountMoves
<1>8. Cardinality(TasksInFlight') <= MaxTasks
  <2>1. Cardinality(TasksInFlight) <= MaxTasks /\ Cardinality(TasksInFlight) \in Nat /\ MaxTasks \in Nat
      BY LoopSetsAreFinite, AgentLoopAssumption DEF LoopInv
  <2> QED
      BY <1>5, <2>1, LoopSetsAreFinite, CountMoves
<1> QED
    BY <1>1, <1>2, <1>6, <1>7, <1>8 DEF LoopInv

-----------------------------------------------------------------------------
(* Ends of a loop. *)

LEMMA EndedIsOK ==
    ASSUME LoopInv, NEW l \in Loops, NEW resp \in LoopResponses,
           NEW status \in {"none", "running", "completed", "timeout", "error"}, NEW expired \in BOOLEAN
    PROVE  /\ LoopOK(LoopEnded(l, resp, status, expired))
           /\ LoopEnded(l, resp, status, expired).pc = "ended"
<1>1. lpLoops[l].kind \in Kinds /\ MaxIterations \in Nat /\ MaxToolCalls \in Nat
    BY AgentLoopAssumption DEF LoopInv, LoopRecords
<1> DEFINE kind == lpLoops[l].kind
<1>2. LoopEnded(l, resp, status, expired) =
        [pc |-> "ended", kind |-> kind, iter |-> 0, calls |-> 0, slot |-> NoSlots, on |-> "primary",
         voice |-> {}, resp |-> resp, status |-> status, ran |-> 0, expired |-> expired]
  <2>1. NewLoop = [pc |-> "idle", kind |-> "chat", iter |-> 0, calls |-> 0, slot |-> NoSlots, on |-> "primary",
                   voice |-> {}, resp |-> "none", status |-> "none", ran |-> 0, expired |-> FALSE]
      BY DEF NewLoop, NoSlots
  <2>2. LoopEnded(l, resp, status, expired) =
          [NewLoop EXCEPT !.pc = "ended", !.kind = kind, !.resp = resp, !.status = status, !.expired = expired]
      BY DEF LoopEnded
  <2> HIDE DEF kind
  <2> QED
      BY <2>1, <2>2
<1>3. Cardinality(OpenSlots(NoSlots)) = 0 /\ Cardinality(UsedSlots(NoSlots)) = 0
    BY NoSlotsAreNone, FS_EmptySet
<1>4. LoopEnded(l, resp, status, expired) \in LoopRecords
    BY <1>1, <1>2, NoSlotsAreNone DEF LoopRecords, LoopPlaces, LoopProviders
<1> QED
    BY <1>1, <1>2, <1>3, <1>4 DEF LoopOK

LEMMA ResponsesAreTyped ==
    ASSUME LoopInv, NEW l \in Loops, NEW resp \in LoopResponses
    PROVE  /\ FinalResponse(l, resp) \in LoopResponses
           /\ TaskStatus(l, resp) \in {"none", "running", "completed", "timeout", "error"}
    BY DEF FinalResponse, TaskStatus, LoopResponses

LEMMA LeavingKeepsInv ==
    ASSUME LoopInv, NEW l \in Loops, NEW resp \in LoopResponses, NEW expired \in BOOLEAN,
           Trying(lpLoops[l].pc), lpGauge' = lpGauge - 1, EndDispatch,
           lpLoops' = [lpLoops EXCEPT ![l] = LoopEnded(l, FinalResponse(l, resp), TaskStatus(l, resp), expired)],
           lpApproval' \in {<< >>} \cup (Loops \X LoopSlots)
    PROVE  LoopInv'
<1> DEFINE lp == LoopEnded(l, FinalResponse(l, resp), TaskStatus(l, resp), expired)
<1>1. LoopOK(lp) /\ lp.pc = "ended"
    BY ResponsesAreTyped, EndedIsOK
<1>2. ~Trying(lp.pc) /\ ~Flying(lp.pc) /\ Flying(lpLoops[l].pc)
    BY <1>1 DEF Trying, Flying
<1>3. ~TaskFlies(lp)
    BY <1>2 DEF TaskFlies
<1>4. lpLoops' = [lpLoops EXCEPT ![l] = lp]
    OBVIOUS
<1> HIDE DEF lp
<1> QED
    BY <1>1, <1>2, <1>3, <1>4, LoopMoves DEF EndDispatch

LEMMA LeaveLoopKeepsInv ==
    ASSUME LoopInv, NEW l \in Loops, NEW resp \in LoopResponses, LeaveLoop(l, resp), Trying(lpLoops[l].pc),
           lpApproval' \in {<< >>} \cup (Loops \X LoopSlots)
    PROVE  LoopInv'
    BY LeavingKeepsInv DEF LeaveLoop

LEMMA ApprovalStays ==
    ASSUME LoopInv, UNCHANGED lpApproval
    PROVE  lpApproval' \in {<< >>} \cup (Loops \X LoopSlots)
    BY DEF LoopInv

\* The steps that only end a loop.
LEMMA EndingStepsKeepInv ==
    ASSUME LoopInv, NEW l \in Loops,
           OutOfIterations(l) \/ StreamEnds(l) \/ ModelAnswers(l) \/ LoopRaises(l) \/ Timeout(l)
    PROVE  LoopInv'
<1>1. CASE Timeout(l)
  <2>1. lpApproval' \in {<< >>} \cup (Loops \X LoopSlots)
      BY <1>1 DEF Timeout, WithdrawApprovals, LoopInv
  <2>2. Trying(lpLoops[l].pc) /\ "cancelled" \in LoopResponses
      BY <1>1 DEF Timeout, InTry, Trying, LoopResponses
  <2> QED
      BY <1>1, <2>1, <2>2, LeavingKeepsInv DEF Timeout
<1>2. CASE OutOfIterations(l) \/ StreamEnds(l) \/ ModelAnswers(l) \/ LoopRaises(l)
  <2>1. Trying(lpLoops[l].pc) /\ UNCHANGED lpApproval
      BY <1>2 DEF OutOfIterations, StreamEnds, ModelAnswers, LoopRaises, Trying
  <2>2. PICK resp \in LoopResponses : LeaveLoop(l, resp)
      BY <1>2 DEF OutOfIterations, StreamEnds, ModelAnswers, LoopRaises, LoopResponses
  <2> QED
      BY <2>1, <2>2, ApprovalStays, LeaveLoopKeepsInv
<1> QED
    BY <1>1, <1>2

LEMMA TimeoutEarlyKeepsInv ==
    ASSUME LoopInv, NEW l \in Loops, TimeoutEarly(l)
    PROVE  LoopInv'
<1> DEFINE status == IF lpLoops[l].kind = "task" THEN "timeout" ELSE "none"
           lp == LoopEnded(l, "cancelled", status, TRUE)
<1>1. /\ lpLoops[l].pc = "classify" /\ EndDispatch /\ lpGauge' = lpGauge /\ UNCHANGED lpApproval
      /\ lpLoops' = [lpLoops EXCEPT ![l] = lp]
    BY DEF TimeoutEarly
<1>2. LoopOK(lp) /\ lp.pc = "ended"
    BY EndedIsOK DEF LoopResponses
<1> HIDE DEF lp
<1>3. /\ ~Trying(lp.pc) /\ ~Flying(lp.pc) /\ ~TaskFlies(lp)
      /\ Flying(lpLoops[l].pc) /\ ~Trying(lpLoops[l].pc)
    BY <1>1, <1>2 DEF Trying, Flying, TaskFlies
<1> QED
    BY <1>1, <1>2, <1>3, ApprovalStays, LoopMoves DEF EndDispatch
-----------------------------------------------------------------------------
(* Steps of a loop that goes on. *)

\* Fields that no property looks at apart from their types.
LEMMA FieldsOfLoop ==
    ASSUME LoopInv, NEW l \in Loops
    PROVE  LoopOK(lpLoops[l]) /\ lpLoops[l] \in LoopRecords
    BY DEF LoopInv, LoopOK

LEMMA StartLoopKeepsInv ==
    ASSUME LoopInv, NEW l \in Loops, StartLoop(l)
    PROVE  LoopInv'
<1>1. PICK kind \in Kinds :
        /\ kind = "task" => Cardinality({k \in InFlight : lpLoops[k].kind = "task"}) < MaxTasks
        /\ lpLoops' = [lpLoops EXCEPT ![l].pc = "classify", ![l].kind = kind,
                                      ![l].status = IF kind = "task" THEN "running" ELSE "none"]
    BY DEF StartLoop
<1>2. lpLoops[l].pc = "idle" /\ lpLoad' = lpLoad + 1 /\ lpGauge' = lpGauge /\ UNCHANGED lpApproval
    BY DEF StartLoop
<1>3. {k \in InFlight : lpLoops[k].kind = "task"} = TasksInFlight
    BY DEF InFlight, TasksInFlight, TaskFlies, Flying
<1> DEFINE lp == [lpLoops[l] EXCEPT !.pc = "classify", !.kind = kind,
                                     !.status = IF kind = "task" THEN "running" ELSE "none"]
<1>4. lpLoops' = [lpLoops EXCEPT ![l] = lp]
    BY <1>1 DEF LoopInv
<1>5. lp \in LoopRecords
    BY <1>1, FieldsOfLoop DEF LoopRecords, LoopPlaces
<1>6. /\ lp.pc = "classify" /\ lp.kind = kind /\ lp.voice = lpLoops[l].voice /\ lp.on = lpLoops[l].on
      /\ lp.calls = lpLoops[l].calls /\ lp.ran = lpLoops[l].ran /\ lp.slot = lpLoops[l].slot
    BY FieldsOfLoop DEF LoopRecords
<1> HIDE DEF lp
<1>7. lp.slot = NoSlots
    BY <1>2, <1>6, FieldsOfLoop DEF LoopOK
<1>8. Cardinality(OpenSlots(NoSlots)) = 0 /\ Cardinality(UsedSlots(NoSlots)) = 0
    BY NoSlotsAreNone, FS_EmptySet
<1>9. LoopOK(lp)
    BY <1>2, <1>5, <1>6, <1>7, <1>8, FieldsOfLoop DEF LoopOK
<1>10. Trying(lp.pc) = FALSE /\ Flying(lp.pc) = TRUE /\ Trying(lpLoops[l].pc) = FALSE /\ Flying(lpLoops[l].pc) = FALSE
    BY <1>2, <1>6 DEF Trying, Flying
<1>11. TaskFlies(lp) => Cardinality(TasksInFlight) < MaxTasks
    BY <1>1, <1>3, <1>6 DEF TaskFlies
<1> QED
    BY <1>2, <1>4, <1>9, <1>10, <1>11, ApprovalStays, LoopMoves

LEMMA NoAccountKeepsInv ==
    ASSUME LoopInv, NEW l \in Loops, NoAccount(l)
    PROVE  LoopInv'
<1>1. PICK kind \in Kinds :
        lpLoops' = [lpLoops EXCEPT ![l].pc = "ended", ![l].kind = kind, ![l].resp = "raised",
                                   ![l].status = IF kind = "task" THEN "error" ELSE "none"]
    BY DEF NoAccount
<1>2. lpLoops[l].pc = "idle" /\ lpLoad' = lpLoad /\ lpGauge' = lpGauge /\ UNCHANGED lpApproval
    BY DEF NoAccount, lpShared
<1> DEFINE lp == [lpLoops[l] EXCEPT !.pc = "ended", !.kind = kind, !.resp = "raised",
                                     !.status = IF kind = "task" THEN "error" ELSE "none"]
<1>3. lpLoops' = [lpLoops EXCEPT ![l] = lp]
    BY <1>1 DEF LoopInv
<1>4. lp \in LoopRecords
    BY <1>1, FieldsOfLoop DEF LoopRecords, LoopPlaces, LoopResponses
<1>5. /\ lp.pc = "ended" /\ lp.voice = lpLoops[l].voice /\ lp.on = lpLoops[l].on
      /\ lp.calls = lpLoops[l].calls /\ lp.ran = lpLoops[l].ran /\ lp.slot = lpLoops[l].slot
    BY FieldsOfLoop DEF LoopRecords
<1> HIDE DEF lp
<1>6. lp.slot = NoSlots
    BY <1>2, <1>5, FieldsOfLoop DEF LoopOK
<1>7. Cardinality(OpenSlots(NoSlots)) = 0 /\ Cardinality(UsedSlots(NoSlots)) = 0
    BY NoSlotsAreNone, FS_EmptySet
<1>8. LoopOK(lp)
    BY <1>2, <1>4, <1>5, <1>6, <1>7, FieldsOfLoop DEF LoopOK
<1>9. ~Trying(lp.pc) /\ ~Flying(lp.pc) /\ ~Trying(lpLoops[l].pc) /\ ~Flying(lpLoops[l].pc) /\ ~TaskFlies(lp)
    BY <1>2, <1>5 DEF Trying, Flying, TaskFlies
<1> QED
    BY <1>2, <1>3, <1>8, <1>9, ApprovalStays, LoopMoves

\* A loop that goes on in flight, its kind, calls and executed tools as they are
\* and no slot of a tool in use.
LEMMA GoingOnKeepsInv ==
    ASSUME LoopInv, NEW l \in Loops, NEW lp \in LoopRecords, lpLoops' = [lpLoops EXCEPT ![l] = lp],
           Trying(lpLoops[l].pc), Trying(lp.pc), lp.pc # "tools", lpLoops[l].pc # "tools",
           lp.kind = lpLoops[l].kind, lp.calls = lpLoops[l].calls, lp.ran = lpLoops[l].ran,
           lp.voice \subseteq {lp.on}, \A s \in 1 .. Batch : lp.slot[s] = "none",
           lp.pc # "gate" => lp.slot = NoSlots,
           lpApproval' \in {<< >>} \cup (Loops \X LoopSlots), UNCHANGED <<lpGauge, lpLoad>>
    PROVE  LoopInv'
<1>1. LoopOK(lpLoops[l]) /\ lpLoops[l].calls \in Nat /\ lpLoops[l].ran \in Nat
    BY FieldsOfLoop DEF LoopRecords
<1>2. \A s \in 1 .. Batch : lpLoops[l].slot[s] = "none"
    BY <1>1, NoSlotsAreNone DEF LoopOK
<1>3. OpenSlots(lp.slot) = {} /\ UsedSlots(lp.slot) = {} /\ OpenSlots(lpLoops[l].slot) = {}
      /\ UsedSlots(lpLoops[l].slot) = {}
    BY <1>2 DEF OpenSlots, UsedSlots, Unasked
<1>4. lpLoops[l].ran <= lpLoops[l].calls
    BY <1>1, <1>3, FS_EmptySet DEF LoopOK
<1>5. LoopOK(lp)
    BY <1>1, <1>3, <1>4, FS_EmptySet DEF LoopOK
<1>6. Flying(lp.pc) /\ Flying(lpLoops[l].pc) /\ (TaskFlies(lp) => TaskFlies(lpLoops[l]))
    BY DEF Trying, Flying, TaskFlies
<1> QED
    BY <1>5, <1>6, LoopMoves

LEMMA ClassifiedKeepsInv ==
    ASSUME LoopInv, NEW l \in Loops, Classified(l)
    PROVE  LoopInv'
<1> DEFINE lp == [lpLoops[l] EXCEPT !.pc = "top"]
<1>1. /\ lpLoops[l].pc = "classify" /\ lpGauge' = lpGauge + 1 /\ lpLoad' = lpLoad /\ UNCHANGED lpApproval
      /\ lpLoops' = [lpLoops EXCEPT ![l] = lp]
    BY DEF Classified
<1>2. lp \in LoopRecords
    BY FieldsOfLoop DEF LoopRecords, LoopPlaces
<1>3. /\ lp.pc = "top" /\ lp.voice = lpLoops[l].voice /\ lp.on = lpLoops[l].on /\ lp.kind = lpLoops[l].kind
      /\ lp.calls = lpLoops[l].calls /\ lp.ran = lpLoops[l].ran /\ lp.slot = lpLoops[l].slot
    BY FieldsOfLoop DEF LoopRecords
<1> HIDE DEF lp
<1>4. LoopOK(lp)
    BY <1>1, <1>2, <1>3, FieldsOfLoop DEF LoopOK
<1>5. Trying(lp.pc) /\ Flying(lp.pc) /\ ~Trying(lpLoops[l].pc) /\ Flying(lpLoops[l].pc)
      /\ (TaskFlies(lp) => TaskFlies(lpLoops[l]))
    BY <1>1, <1>3 DEF Trying, Flying, TaskFlies
<1> QED
    BY <1>1, <1>4, <1>5, ApprovalStays, LoopMoves

LEMMA IterateKeepsInv ==
    ASSUME LoopInv, NEW l \in Loops, Iterate(l)
    PROVE  LoopInv'
<1> DEFINE i == lpLoops[l].iter + 1
<1>1. lpLoops[l].pc = "top" /\ UNCHANGED <<lpGauge, lpLoad>> /\ lpLoops[l].iter < MaxIterations
    BY DEF Iterate
<1>2. lpLoops[l] \in LoopRecords /\ lpLoops[l].slot = NoSlots
    BY <1>1, FieldsOfLoop DEF LoopOK
<1>3. i \in 0 .. MaxIterations
  <2>1. lpLoops[l].iter \in 0 .. MaxIterations /\ MaxIterations \in Nat
      BY <1>2, AgentLoopAssumption DEF LoopRecords
  <2> QED
      BY <1>1, <2>1
<1> HIDE DEF i
<1>4. CASE lpLoops' = [lpLoops EXCEPT ![l].pc = "gate", ![l].iter = i, ![l].slot[0] = "waiting"] /\ lpApproval' = <<l, 0>>
  <2> DEFINE lp == [lpLoops[l] EXCEPT !.pc = "gate", !.iter = i, !.slot = [NoSlots EXCEPT ![0] = "waiting"]]
  <2>1. lpLoops' = [lpLoops EXCEPT ![l] = lp]
      BY <1>2, <1>4 DEF LoopInv, LoopRecords
  <2>2. [NoSlots EXCEPT ![0] = "waiting"] \in [LoopSlots -> SlotStates]
        /\ \A s \in 1 .. Batch : [NoSlots EXCEPT ![0] = "waiting"][s] = "none"
      BY NoSlotsAreNone DEF SlotStates, Unasked
  <2>3. lp \in LoopRecords
      BY <1>2, <1>3, <2>2 DEF LoopRecords, LoopPlaces
  <2>4. /\ lp.pc = "gate" /\ lp.voice = lpLoops[l].voice /\ lp.on = lpLoops[l].on /\ lp.kind = lpLoops[l].kind
        /\ lp.calls = lpLoops[l].calls /\ lp.ran = lpLoops[l].ran /\ lp.slot = [NoSlots EXCEPT ![0] = "waiting"]
      BY <1>2 DEF LoopRecords
  <2> HIDE DEF lp
  <2>5. lp.voice \subseteq {lp.on} /\ lpApproval' \in {<< >>} \cup (Loops \X LoopSlots)
      BY <1>4, <2>4, NoSlotsAreNone, FieldsOfLoop DEF LoopOK
  <2>6. Trying(lp.pc) /\ Trying(lpLoops[l].pc) /\ lp.pc # "tools" /\ lpLoops[l].pc # "tools"
      BY <1>1, <2>4 DEF Trying
  <2>7. (\A s \in 1 .. Batch : lp.slot[s] = "none") /\ (lp.pc # "gate" => lp.slot = NoSlots)
      BY <2>2, <2>4
  <2> QED
      BY <1>1, <2>1, <2>3, <2>4, <2>5, <2>6, <2>7, GoingOnKeepsInv
<1>5. CASE /\ lpLoops' = [lpLoops EXCEPT ![l].pc = "model", ![l].iter = i, ![l].on = "primary", ![l].voice = {}]
           /\ UNCHANGED lpApproval
  <2> DEFINE lp == [lpLoops[l] EXCEPT !.pc = "model", !.iter = i, !.on = "primary", !.voice = {}]
  <2>1. lpLoops' = [lpLoops EXCEPT ![l] = lp]
      BY <1>2, <1>5 DEF LoopInv
  <2>2. lp \in LoopRecords
      BY <1>2, <1>3 DEF LoopRecords, LoopPlaces, LoopProviders
  <2>3. /\ lp.pc = "model" /\ lp.voice = {} /\ lp.kind = lpLoops[l].kind
        /\ lp.calls = lpLoops[l].calls /\ lp.ran = lpLoops[l].ran /\ lp.slot = NoSlots
      BY <1>2 DEF LoopRecords
  <2> HIDE DEF lp
  <2>4. Trying(lp.pc) /\ Trying(lpLoops[l].pc) /\ lp.pc # "tools" /\ lpLoops[l].pc # "tools"
      BY <1>1, <2>3 DEF Trying
  <2>5. \A s \in 1 .. Batch : lp.slot[s] = "none"
      BY <2>3, NoSlotsAreNone
  <2> QED
      BY <1>1, <1>5, <2>1, <2>2, <2>3, <2>4, <2>5, ApprovalStays, GoingOnKeepsInv
<1> QED
    BY <1>4, <1>5 DEF Iterate, i

LEMMA GateAnsweredKeepsInv ==
    ASSUME LoopInv, NEW l \in Loops, GateAnswered(l)
    PROVE  LoopInv'
<1>1. lpLoops[l].pc = "gate" /\ lpApproval' \in {<< >>} \cup (Loops \X LoopSlots) /\ Trying(lpLoops[l].pc)
    BY DEF GateAnswered, Trying
<1>2. /\ lpLoops' = [lpLoops EXCEPT ![l].pc = "model", ![l].slot[0] = "none", ![l].on = "primary", ![l].voice = {}]
      /\ UNCHANGED <<lpPaused, lpPauses, lpGauge, lpLoad>>
    BY DEF GateAnswered
<1>3. lpLoops[l] \in LoopRecords /\ \A s \in 1 .. Batch : lpLoops[l].slot[s] = "none"
    BY <1>1, FieldsOfLoop DEF LoopOK
<1>4. lpLoops[l].slot \in [LoopSlots -> SlotStates]
    BY <1>3 DEF LoopRecords
<1>5. [lpLoops[l].slot EXCEPT ![0] = "none"] = NoSlots
  <2>1. \A s \in LoopSlots : s = 0 \/ s \in 1 .. Batch
      BY AgentLoopAssumption DEF LoopSlots
  <2> QED
      BY <1>3, <1>4, <2>1 DEF NoSlots
<1> DEFINE lp == [lpLoops[l] EXCEPT !.pc = "model", !.slot = NoSlots, !.on = "primary", !.voice = {}]
<1>6. lpLoops' = [lpLoops EXCEPT ![l] = lp]
    BY <1>2, <1>3, <1>5 DEF LoopInv, LoopRecords
<1>7. lp \in LoopRecords
    BY <1>3, NoSlotsAreNone DEF LoopRecords, LoopPlaces, LoopProviders
<1>8. /\ lp.pc = "model" /\ lp.voice = {} /\ lp.kind = lpLoops[l].kind
      /\ lp.calls = lpLoops[l].calls /\ lp.ran = lpLoops[l].ran /\ lp.slot = NoSlots
    BY <1>3 DEF LoopRecords
<1> HIDE DEF lp
<1>9. Trying(lp.pc) /\ lp.pc # "tools" /\ lpLoops[l].pc # "tools"
    BY <1>1, <1>8 DEF Trying
<1>10. \A s \in 1 .. Batch : lp.slot[s] = "none"
    BY <1>8, NoSlotsAreNone
<1> QED
    BY <1>1, <1>2, <1>6, <1>7, <1>8, <1>9, <1>10, GoingOnKeepsInv

\* A failover changes the provider only while nothing was sent; a chunk of
\* text is the present provider's.
LEMMA AnsweringKeepsInv ==
    ASSUME LoopInv, NEW l \in Loops, FailOver(l) \/ StreamText(l)
    PROVE  LoopInv'
<1>1. lpLoops[l].pc = "model" /\ UNCHANGED <<lpApproval, lpGauge, lpLoad>>
    BY DEF FailOver, MayFailOver, StreamText, lpShared
<1>2. lpLoops[l] \in LoopRecords /\ lpLoops[l].slot = NoSlots /\ lpLoops[l].voice \subseteq {lpLoops[l].on}
    BY <1>1, FieldsOfLoop DEF LoopOK
<1>3. PICK on \in LoopProviders, voice \in SUBSET LoopProviders :
        voice \subseteq {on} /\ lpLoops' = [lpLoops EXCEPT ![l] = [lpLoops[l] EXCEPT !.on = on, !.voice = voice]]
  <2>1. CASE FailOver(l)
    <3>1. lpLoops[l].voice = {} /\ lpLoops' = [lpLoops EXCEPT ![l] = [lpLoops[l] EXCEPT !.on = "fallback"]]
        BY <2>1 DEF FailOver, MayFailOver
    <3>2. [lpLoops[l] EXCEPT !.on = "fallback"] = [lpLoops[l] EXCEPT !.on = "fallback", !.voice = {}]
        BY <1>2, <3>1 DEF LoopRecords
    <3> QED
        BY <3>1, <3>2 DEF LoopProviders
  <2>2. CASE StreamText(l)
    <3> DEFINE on == lpLoops[l].on
               voice == lpLoops[l].voice \cup {on}
    <3>1. lpLoops' = [lpLoops EXCEPT ![l] = [lpLoops[l] EXCEPT !.voice = voice]]
        BY <2>2 DEF StreamText
    <3>2. on \in LoopProviders /\ voice \in SUBSET LoopProviders /\ voice \subseteq {on}
        BY <1>2 DEF LoopRecords
    <3>3. [lpLoops[l] EXCEPT !.voice = voice] = [lpLoops[l] EXCEPT !.on = on, !.voice = voice]
        BY <1>2 DEF LoopRecords
    <3> HIDE DEF on, voice
    <3> QED
        BY <3>1, <3>2, <3>3
  <2> QED
      BY <2>1, <2>2
<1> DEFINE lp == [lpLoops[l] EXCEPT !.on = on, !.voice = voice]
<1>4. lp \in LoopRecords
    BY <1>2, <1>3 DEF LoopRecords
<1>5. /\ lp.pc = "model" /\ lp.voice = voice /\ lp.on = on /\ lp.kind = lpLoops[l].kind
      /\ lp.calls = lpLoops[l].calls /\ lp.ran = lpLoops[l].ran /\ lp.slot = NoSlots
    BY <1>1, <1>2 DEF LoopRecords
<1>6. lpLoops' = [lpLoops EXCEPT ![l] = lp]
    BY <1>3
<1> HIDE DEF lp
<1>7. Trying(lp.pc) /\ Trying(lpLoops[l].pc) /\ lp.pc # "tools" /\ lpLoops[l].pc # "tools"
    BY <1>1, <1>5 DEF Trying
<1>8. (\A s \in 1 .. Batch : lp.slot[s] = "none") /\ lp.voice \subseteq {lp.on}
    BY <1>3, <1>5, NoSlotsAreNone
<1> QED
    BY <1>1, <1>4, <1>5, <1>6, <1>7, <1>8, ApprovalStays, GoingOnKeepsInv

-----------------------------------------------------------------------------
(* The tools of an answer. *)

\* A set of places in an answer has a last one.
LEMMA LastPlace ==
    ASSUME NEW n \in Nat, NEW S \in SUBSET (1 .. n), S # {}
    PROVE  \E s \in S : \A t \in S : t <= s
<1> DEFINE D == {n - s : s \in S}
<1>1. D \subseteq Nat /\ D # {}
  <2>1. \A s \in S : s \in 1 .. n /\ n - s \in Nat
      OBVIOUS
  <2>2. \E s \in S : n - s \in D
      OBVIOUS
  <2> QED
      BY <2>1, <2>2
<1>2. PICK d \in D : \A e \in D : ~(<<e, d>> \in OpToRel(<, Nat))
    BY <1>1, NatLessThanWellFounded, WFMin
<1>3. PICK s \in S : d = n - s
    BY <1>2
<1>4. ASSUME NEW t \in S PROVE t <= s
  <2>1. n - t \in D /\ n - t \in Nat /\ n - s \in Nat /\ t \in Nat /\ s \in Nat
      OBVIOUS
  <2>2. ~(n - t < n - s)
      BY <1>2, <1>3, <2>1 DEF OpToRel
  <2> QED
      BY <2>1, <2>2
<1> QED
    BY <1>4

\* A loop that goes on with tools in use: the counts its properties need.
LEMMA ToolsKeepInv ==
    ASSUME LoopInv, NEW l \in Loops, NEW lp \in LoopRecords, lpLoops' = [lpLoops EXCEPT ![l] = lp],
           Trying(lpLoops[l].pc), Trying(lp.pc), LoopOK(lp), lp.kind = lpLoops[l].kind,
           lpApproval' \in {<< >>} \cup (Loops \X LoopSlots), UNCHANGED <<lpGauge, lpLoad>>
    PROVE  LoopInv'
<1>1. Flying(lp.pc) /\ Flying(lpLoops[l].pc) /\ (TaskFlies(lp) => TaskFlies(lpLoops[l]))
    BY DEF Trying, Flying, TaskFlies
<1> QED
    BY <1>1, LoopMoves

LEMMA RequestToolsKeepsInv ==
    ASSUME LoopInv, NEW l \in Loops, NEW calls \in Answers, NEW counted \in Nat, lpLoops[l].pc = "model",
           counted <= MaxToolCalls,
           lpLoops[l].kind # "stream" => counted = lpLoops[l].calls + Len(calls),
           lpLoops[l].kind = "stream" => counted = lpLoops[l].calls,
           RequestTools(l, calls, counted)
    PROVE  LoopInv'
<1> DEFINE n == Len(calls)
           asks == {s \in 1 .. n : calls[s] = "sensitive"}
           old == lpLoops[l]
           slot == [s \in LoopSlots |-> IF s \in asks THEN "waiting" ELSE IF s \in 1 .. n THEN "running" ELSE "none"]
           ran == old.ran + (n - Cardinality(asks))
           lp == [old EXCEPT !.pc = "tools", !.calls = counted, !.ran = ran, !.slot = slot]
<1>1. n \in 1 .. Batch /\ n \in Nat
    BY AgentLoopAssumption DEF Answers
<1>2. lpLoops' = [lpLoops EXCEPT ![l] = lp] /\ UNCHANGED <<lpGauge, lpLoad>>
    BY FieldsOfLoop DEF RequestTools, LoopInv, LoopRecords
<1>3. /\ asks = {} => lpApproval' = lpApproval
      /\ asks # {} => lpApproval' = <<l, CHOOSE s \in asks : \A t \in asks : t <= s>>
    BY DEF RequestTools
<1>4. asks \subseteq 1 .. n
    OBVIOUS
<1>5. counted = IF old.kind = "stream" THEN old.calls ELSE old.calls + n
    OBVIOUS
<1> HIDE DEF n, asks
<1>6. old \in LoopRecords /\ old.slot = NoSlots /\ old.calls \in Nat /\ old.ran \in Nat
      /\ old.voice \subseteq {old.on} /\ old.ran <= old.calls
  <2>1. old \in LoopRecords /\ old.slot = NoSlots /\ LoopOK(old)
      BY FieldsOfLoop DEF LoopOK
  <2>2. Cardinality(OpenSlots(NoSlots)) = 0 /\ Cardinality(UsedSlots(NoSlots)) = 0
      BY NoSlotsAreNone, FS_EmptySet
  <2> QED
      BY <2>1, <2>2 DEF LoopOK, LoopRecords
<1>7. slot \in [LoopSlots -> SlotStates]
    BY DEF SlotStates, Unasked
<1>8. Cardinality(1 .. n) = n /\ IsFiniteSet(1 .. n)
  <2>1. 1 \in Int /\ n \in Int /\ n >= 1
      BY <1>1
  <2>2. Cardinality(1 .. n) = (IF 1 > n THEN 0 ELSE n - 1 + 1) /\ IsFiniteSet(1 .. n)
      BY <2>1, FS_Interval
  <2> QED
      BY <2>1, <2>2
<1>9. Cardinality(asks) \in Nat /\ Cardinality(asks) <= n
    BY <1>8, <1>4, FS_Subset, FS_CardinalityType
<1>10. 1 .. n \subseteq 1 .. Batch /\ 1 .. Batch \subseteq LoopSlots /\ 0 \in LoopSlots /\ 0 \notin 1 .. n
  <2>1. Batch \in Nat
      BY AgentLoopAssumption
  <2>2. 1 .. n \subseteq 1 .. Batch /\ 0 \notin 1 .. n
      BY <1>1, <2>1
  <2> QED
      BY <2>2, NoSlotsAreNone
<1>11. UsedSlots(slot) = 1 .. n /\ OpenSlots(slot) = asks /\ slot[0] = "none"
    BY <1>4, <1>10 DEF UsedSlots, OpenSlots, Unasked
<1>12. ran \in Nat /\ ran + Cardinality(asks) = old.ran + n
  <2>1. ran = old.ran + (n - Cardinality(asks))
      OBVIOUS
  <2> HIDE DEF ran
  <2> QED
      BY <1>1, <1>6, <1>9, <2>1
<1>13. lpApproval' \in {<< >>} \cup (Loops \X LoopSlots)
  <2>1. CASE asks = {}
      BY <1>3, <2>1, ApprovalStays
  <2>2. CASE asks # {}
    <3> DEFINE last == CHOOSE s \in asks : \A t \in asks : t <= s
    <3>1. \E s \in asks : \A t \in asks : t <= s
        BY <1>1, <1>4, <2>2, LastPlace
    <3>2. last \in asks
        BY <3>1
    <3>3. lpApproval' = <<l, last>>
        BY <1>3, <2>2
    <3> HIDE DEF last
    <3> QED
        BY <1>4, <1>10, <3>2, <3>3
  <2> QED
      BY <2>1, <2>2
<1> HIDE DEF slot, ran
<1>14. lp \in LoopRecords
    BY <1>6, <1>7, <1>12 DEF LoopRecords, LoopPlaces
<1>15. /\ lp.pc = "tools" /\ lp.voice = old.voice /\ lp.on = old.on /\ lp.kind = old.kind
       /\ lp.calls = counted /\ lp.ran = ran /\ lp.slot = slot
    BY <1>6 DEF LoopRecords
<1> HIDE DEF lp
<1>16. lp.ran + Cardinality(OpenSlots(lp.slot))
         <= lp.calls + (IF lp.kind = "stream" THEN Cardinality(UsedSlots(lp.slot)) ELSE 0)
  <2>1. lp.ran + Cardinality(OpenSlots(lp.slot)) = old.ran + n /\ Cardinality(UsedSlots(lp.slot)) = n
      BY <1>8, <1>11, <1>12, <1>15
  <2> QED
      BY <1>1, <1>6, <1>5, <1>15, <2>1
<1>17. LoopOK(lp)
    BY <1>6, <1>11, <1>14, <1>15, <1>16 DEF LoopOK
<1>18. Trying(lp.pc) /\ Trying(old.pc)
    BY <1>15 DEF Trying
<1> QED
    BY <1>2, <1>13, <1>14, <1>15, <1>17, <1>18, ToolsKeepInv

LEMMA ToolCallsKeepInv ==
    ASSUME LoopInv, NEW l \in Loops, NEW calls \in Answers, ToolCalls(l, calls) \/ StreamToolCalls(l, calls)
    PROVE  LoopInv'
<1>1. lpLoops[l].calls \in Nat /\ lpLoops[l].calls <= MaxToolCalls /\ MaxToolCalls \in Nat
    BY FieldsOfLoop, AgentLoopAssumption DEF LoopOK, LoopRecords
<1>2. Len(calls) \in Nat
    BY DEF Answers
<1>3. CASE StreamToolCalls(l, calls)
    BY <1>1, <1>3, RequestToolsKeepsInv DEF StreamToolCalls
<1>4. CASE ToolCalls(l, calls)
  <2>1. lpLoops[l].pc = "model" /\ lpLoops[l].kind # "stream" /\ Trying(lpLoops[l].pc)
      BY <1>4 DEF ToolCalls, Trying
  <2>2. CASE lpLoops[l].calls + Len(calls) > MaxToolCalls
    <3>1. LeaveLoop(l, "error") /\ UNCHANGED lpApproval
        BY <1>4, <2>2 DEF ToolCalls
    <3> QED
        BY <2>1, <3>1, ApprovalStays, LeaveLoopKeepsInv DEF LoopResponses
  <2>3. CASE ~(lpLoops[l].calls + Len(calls) > MaxToolCalls)
    <3>1. RequestTools(l, calls, lpLoops[l].calls + Len(calls))
        BY <1>4, <2>3 DEF ToolCalls
    <3>2. lpLoops[l].calls + Len(calls) \in Nat /\ lpLoops[l].calls + Len(calls) <= MaxToolCalls
        BY <1>1, <1>2, <2>3
    <3> QED
        BY <2>1, <3>1, <3>2, RequestToolsKeepsInv
  <2> QED
      BY <2>2, <2>3
<1> QED
    BY <1>3, <1>4

\* One tool's slot changes from one use to another.
LEMMA SlotMoves ==
    ASSUME NEW slot \in [LoopSlots -> SlotStates], NEW s \in 1 .. Batch, NEW new \in SlotStates \ {"none"},
           slot[s] # "none"
    PROVE  /\ [slot EXCEPT ![s] = new] \in [LoopSlots -> SlotStates] /\ [slot EXCEPT ![s] = new][0] = slot[0]
           /\ UsedSlots([slot EXCEPT ![s] = new]) = UsedSlots(slot)
           /\ Cardinality(OpenSlots([slot EXCEPT ![s] = new])) =
                Cardinality(OpenSlots(slot)) + (IF new \in Unasked THEN 1 ELSE 0)
                                             - (IF slot[s] \in Unasked THEN 1 ELSE 0)
<1> DEFINE moved == [slot EXCEPT ![s] = new]
<1>1. s \in LoopSlots /\ s # 0 /\ 0 \in LoopSlots /\ 1 .. Batch \subseteq LoopSlots
    BY NoSlotsAreNone
<1>2. moved \in [LoopSlots -> SlotStates] /\ \A t \in LoopSlots : moved[t] = IF t = s THEN new ELSE slot[t]
    BY <1>1
<1> HIDE DEF moved
<1>3. UsedSlots(moved) = UsedSlots(slot)
    BY <1>1, <1>2 DEF UsedSlots
<1>4. /\ \A k : k # s => (k \in OpenSlots(moved) <=> k \in OpenSlots(slot))
      /\ s \in OpenSlots(slot) <=> slot[s] \in Unasked
      /\ s \in OpenSlots(moved) <=> new \in Unasked
    BY <1>1, <1>2 DEF OpenSlots
<1>5. /\ s \in OpenSlots(slot) /\ s \in OpenSlots(moved) => Cardinality(OpenSlots(moved)) = Cardinality(OpenSlots(slot))
      /\ s \notin OpenSlots(slot) /\ s \notin OpenSlots(moved) => Cardinality(OpenSlots(moved)) = Cardinality(OpenSlots(slot))
      /\ s \notin OpenSlots(slot) /\ s \in OpenSlots(moved) => Cardinality(OpenSlots(moved)) = Cardinality(OpenSlots(slot)) + 1
      /\ s \in OpenSlots(slot) /\ s \notin OpenSlots(moved) => Cardinality(OpenSlots(moved)) = Cardinality(OpenSlots(slot)) - 1
    BY <1>4, SlotCounts, CountMoves
<1>6. Cardinality(OpenSlots(moved)) = Cardinality(OpenSlots(slot)) + (IF new \in Unasked THEN 1 ELSE 0)
                                             - (IF slot[s] \in Unasked THEN 1 ELSE 0)
    BY <1>4, <1>5, SlotCounts
<1> QED
    BY <1>1, <1>2, <1>3, <1>6 DEF moved

\* A tool's slot changes while the loop waits for its tools: what is executed
\* now was open before.
LEMMA SlotMoveKeepsInv ==
    ASSUME LoopInv, NEW l \in Loops, lpLoops[l].pc = "tools", NEW s \in 1 .. Batch,
           NEW new \in SlotStates \ {"none"}, lpLoops[l].slot[s] # "none", NEW ran \in Nat,
           ran + (IF new \in Unasked THEN 1 ELSE 0)
             <= lpLoops[l].ran + (IF lpLoops[l].slot[s] \in Unasked THEN 1 ELSE 0),
           lpLoops' = [lpLoops EXCEPT ![l] = [lpLoops[l] EXCEPT !.slot = [lpLoops[l].slot EXCEPT ![s] = new], !.ran = ran]],
           lpApproval' \in {<< >>} \cup (Loops \X LoopSlots), UNCHANGED <<lpGauge, lpLoad>>
    PROVE  LoopInv'
<1> DEFINE old == lpLoops[l]
           slot == [old.slot EXCEPT ![s] = new]
           lp == [old EXCEPT !.slot = slot, !.ran = ran]
<1>1. old \in LoopRecords /\ LoopOK(old) /\ old.slot \in [LoopSlots -> SlotStates] /\ old.ran \in Nat /\ old.calls \in Nat
    BY FieldsOfLoop DEF LoopRecords
<1>2. /\ slot \in [LoopSlots -> SlotStates] /\ slot[0] = old.slot[0] /\ UsedSlots(slot) = UsedSlots(old.slot)
      /\ Cardinality(OpenSlots(slot)) =
           Cardinality(OpenSlots(old.slot)) + (IF new \in Unasked THEN 1 ELSE 0)
                                            - (IF old.slot[s] \in Unasked THEN 1 ELSE 0)
    BY <1>1, SlotMoves
<1> HIDE DEF slot
<1>3. lp \in LoopRecords
    BY <1>1, <1>2 DEF LoopRecords
<1>4. /\ lp.pc = "tools" /\ lp.voice = old.voice /\ lp.on = old.on /\ lp.kind = old.kind
      /\ lp.calls = old.calls /\ lp.ran = ran /\ lp.slot = slot
    BY <1>1 DEF LoopRecords
<1>5. lpLoops' = [lpLoops EXCEPT ![l] = lp]
    BY DEF slot
<1> HIDE DEF lp
<1>6. lp.ran + Cardinality(OpenSlots(lp.slot)) <= old.ran + Cardinality(OpenSlots(old.slot))
  <2>1. Cardinality(OpenSlots(slot)) \in Nat /\ Cardinality(OpenSlots(old.slot)) \in Nat
      BY SlotCounts
  <2> QED
      BY <1>1, <1>2, <1>4, <2>1 DEF Unasked
<1>7. lp.ran + Cardinality(OpenSlots(lp.slot))
         <= lp.calls + (IF lp.kind = "stream" THEN Cardinality(UsedSlots(lp.slot)) ELSE 0)
  <2>1. old.ran + Cardinality(OpenSlots(old.slot))
          <= old.calls + (IF old.kind = "stream" THEN Cardinality(UsedSlots(old.slot)) ELSE 0)
      BY <1>1 DEF LoopOK
  <2>2. /\ Cardinality(OpenSlots(lp.slot)) \in Nat /\ Cardinality(OpenSlots(old.slot)) \in Nat
        /\ Cardinality(UsedSlots(old.slot)) \in Nat /\ UsedSlots(lp.slot) = UsedSlots(old.slot)
      BY <1>2, <1>4, SlotCounts
  <2> QED
      BY <1>1, <1>4, <1>6, <2>1, <2>2
<1>8. LoopOK(lp)
    BY <1>1, <1>2, <1>3, <1>4, <1>7 DEF LoopOK
<1>9. Trying(lp.pc) /\ Trying(old.pc)
    BY <1>4 DEF Trying
<1> QED
    BY <1>3, <1>4, <1>5, <1>8, <1>9, ToolsKeepInv

\* Only the slots of tools are in use while a loop waits for its tools.
LEMMA ToolSlots ==
    ASSUME LoopInv, NEW l \in Loops, lpLoops[l].pc = "tools", NEW s \in LoopSlots, lpLoops[l].slot[s] # "none"
    PROVE  s \in 1 .. Batch
<1>1. s # 0
    BY FieldsOfLoop DEF LoopOK
<1> QED
    BY <1>1, AgentLoopAssumption DEF LoopSlots

LEMMA SlotSettlesKeepsInv ==
    ASSUME LoopInv, NEW l \in Loops, NEW s \in LoopSlots, ToolAnswered(l, s) \/ ToolReturns(l, s)
    PROVE  LoopInv'
<1>1. /\ lpLoops[l].pc = "tools" /\ lpLoops[l].slot[s] # "none"
      /\ lpApproval' \in {<< >>, lpApproval} /\ UNCHANGED <<lpGauge, lpLoad>>
    BY DEF ToolAnswered, ToolReturns, lpShared
<1>2. PICK new \in Settled : lpLoops' = [lpLoops EXCEPT ![l].slot[s] = new]
    BY DEF ToolAnswered, ToolReturns
<1>3. lpLoops[l] \in LoopRecords /\ lpLoops[l].ran \in Nat /\ lpLoops[l].slot \in [LoopSlots -> SlotStates]
    BY FieldsOfLoop DEF LoopRecords
<1>4. s \in 1 .. Batch
    BY <1>1, ToolSlots
<1>5. new \in SlotStates \ {"none"} /\ ~(new \in Unasked)
    BY <1>2 DEF SlotStates, Settled, Unasked
<1>6. lpLoops' = [lpLoops EXCEPT ![l] = [lpLoops[l] EXCEPT !.slot = [lpLoops[l].slot EXCEPT ![s] = new],
                                                           !.ran = lpLoops[l].ran]]
    BY <1>2, <1>3 DEF LoopInv, LoopRecords
<1>7. lpLoops[l].ran + (IF new \in Unasked THEN 1 ELSE 0)
        <= lpLoops[l].ran + (IF lpLoops[l].slot[s] \in Unasked THEN 1 ELSE 0)
    BY <1>1, <1>3, <1>5
<1> QED
    BY <1>1, <1>3, <1>4, <1>5, <1>6, <1>7, ApprovalStays, SlotMoveKeepsInv

\* A batch that has its results: what it executed is counted.
LEMMA ToolsGatheredKeepsInv ==
    ASSUME LoopInv, NEW l \in Loops, ToolsGathered(l)
    PROVE  LoopInv'
<1> DEFINE old == lpLoops[l]
           used == {s \in LoopSlots : old.slot[s] # "none"}
           counted == IF old.kind = "stream" THEN old.calls + Cardinality(used) ELSE old.calls
           lp == [old EXCEPT !.pc = "top", !.calls = counted, !.slot = NoSlots]
<1>1. old.pc = "tools" /\ (\A s \in used : old.slot[s] \in Settled) /\ UNCHANGED lpApproval /\ Trying(old.pc)
    BY DEF ToolsGathered, Trying
<1>2. old \in LoopRecords /\ LoopOK(old) /\ old.ran \in Nat /\ old.calls \in Nat
    BY FieldsOfLoop DEF LoopRecords
<1>3. CASE LeaveLoop(l, "handoff") \/ LeaveLoop(l, "error")
    BY <1>1, <1>3, ApprovalStays, LeaveLoopKeepsInv DEF LoopResponses
<1>4. CASE /\ counted <= MaxToolCalls
           /\ lpLoops' = [lpLoops EXCEPT ![l].pc = "top", ![l].calls = counted, ![l].slot = [s \in LoopSlots |-> "none"]]
           /\ UNCHANGED <<lpPaused, lpPauses, lpGauge, lpLoad>>
  <2>1. used = UsedSlots(old.slot)
      BY <1>1, <1>2, ToolSlots, NoSlotsAreNone DEF UsedSlots
  <2>2. OpenSlots(old.slot) = {}
      BY <1>1, <2>1, NoSlotsAreNone DEF OpenSlots, Settled, Unasked
  <2>3. Cardinality(used) \in Nat
      BY <2>1, SlotCounts
  <2> HIDE DEF used
  <2>4. counted \in Nat
      BY <1>2, <2>3
  <2>5. old.ran <= counted
    <3>1. old.ran + Cardinality(OpenSlots(old.slot))
            <= old.calls + (IF old.kind = "stream" THEN Cardinality(UsedSlots(old.slot)) ELSE 0)
        BY <1>2 DEF LoopOK
    <3>2. Cardinality(OpenSlots(old.slot)) = 0
        BY <2>2, FS_EmptySet
    <3> QED
        BY <1>2, <2>1, <2>3, <3>1, <3>2
  <2> HIDE DEF counted
  <2>6. lpLoops' = [lpLoops EXCEPT ![l] = lp]
      BY <1>2, <1>4 DEF LoopInv, NoSlots
  <2>7. lp \in LoopRecords
      BY <1>2, <2>4, NoSlotsAreNone DEF LoopRecords, LoopPlaces
  <2>8. /\ lp.pc = "top" /\ lp.voice = old.voice /\ lp.on = old.on /\ lp.kind = old.kind
        /\ lp.calls = counted /\ lp.ran = old.ran /\ lp.slot = NoSlots
      BY <1>2 DEF LoopRecords
  <2> HIDE DEF lp
  <2>9. Cardinality(OpenSlots(NoSlots)) = 0 /\ Cardinality(UsedSlots(NoSlots)) = 0
      BY NoSlotsAreNone, FS_EmptySet
  <2>10. LoopOK(lp)
      BY <1>2, <1>4, <2>4, <2>5, <2>7, <2>8, <2>9 DEF LoopOK
  <2>11. Trying(lp.pc)
      BY <2>8 DEF Trying
  <2> QED
      BY <1>1, <1>4, <2>6, <2>7, <2>8, <2>10, <2>11, ApprovalStays, ToolsKeepInv
<1> QED
    BY <1>3, <1>4 DEF ToolsGathered

\* The request that the session shows is answered: the loop's gate or a tool.
LEMMA HijackSessionKeepsInv ==
    ASSUME LoopInv, HijackSession
    PROVE  LoopInv'
<1>1. PICK l \in Loops, s \in LoopSlots : lpApproval = <<l, s>>
    BY DEF HijackSession, LoopInv
<1>2. lpLoops[l].slot[s] = "waiting" /\ UNCHANGED <<lpApproval, lpGauge, lpLoad>>
    BY <1>1 DEF HijackSession, lpShared
<1> DEFINE a == "hijacked"
<1>3. lpLoops' = [lpLoops EXCEPT ![l].slot[s] = a]
    BY <1>1 DEF HijackSession
<1>4. /\ lpLoops[l] \in LoopRecords /\ LoopOK(lpLoops[l]) /\ lpLoops[l].ran \in Nat
      /\ lpLoops[l].slot \in [LoopSlots -> SlotStates]
    BY FieldsOfLoop DEF LoopRecords
<1>5. a \in SlotStates \ {"none"}
    BY DEF SlotStates, Unasked
<1>6. lpLoops[l].pc \in {"gate", "tools"}
    BY <1>2, <1>4, NoSlotsAreNone DEF LoopOK
<1>7. CASE lpLoops[l].pc = "tools"
  <2>1. s \in 1 .. Batch
      BY <1>2, <1>7, ToolSlots
  <2>2. lpLoops' = [lpLoops EXCEPT ![l] = [lpLoops[l] EXCEPT !.slot = [lpLoops[l].slot EXCEPT ![s] = a],
                                                             !.ran = lpLoops[l].ran]]
      BY <1>3, <1>4 DEF LoopInv, LoopRecords
  <2>3. lpLoops[l].ran + (IF a \in Unasked THEN 1 ELSE 0)
          <= lpLoops[l].ran + (IF lpLoops[l].slot[s] \in Unasked THEN 1 ELSE 0)
      BY <1>2, <1>4 DEF Unasked
  <2> QED
      BY <1>2, <1>4, <1>5, <1>7, <2>1, <2>2, <2>3, ApprovalStays, SlotMoveKeepsInv
<1>8. CASE lpLoops[l].pc = "gate"
  <2> DEFINE slot == [lpLoops[l].slot EXCEPT ![s] = a]
             lp == [lpLoops[l] EXCEPT !.slot = slot]
  <2>1. lpLoops' = [lpLoops EXCEPT ![l] = lp]
      BY <1>3, <1>4 DEF LoopInv, LoopRecords
  <2>2. s \notin 1 .. Batch
      BY <1>2, <1>4, <1>8 DEF LoopOK
  <2>3. slot \in [LoopSlots -> SlotStates] /\ \A t \in 1 .. Batch : slot[t] = "none"
      BY <1>4, <1>5, <1>8, <2>2, NoSlotsAreNone DEF LoopOK
  <2> HIDE DEF slot
  <2>4. lp \in LoopRecords
      BY <1>4, <2>3 DEF LoopRecords
  <2>5. /\ lp.pc = "gate" /\ lp.voice = lpLoops[l].voice /\ lp.on = lpLoops[l].on /\ lp.kind = lpLoops[l].kind
        /\ lp.calls = lpLoops[l].calls /\ lp.ran = lpLoops[l].ran /\ lp.slot = slot
      BY <1>4, <1>8 DEF LoopRecords
  <2> HIDE DEF lp
  <2>6. Trying(lp.pc) /\ Trying(lpLoops[l].pc) /\ lp.pc # "tools" /\ lpLoops[l].pc # "tools"
      BY <1>8, <2>5 DEF Trying
  <2>7. lp.voice \subseteq {lp.on}
      BY <1>4, <2>5 DEF LoopOK
  <2> QED
      BY <1>2, <2>1, <2>3, <2>4, <2>5, <2>6, <2>7, ApprovalStays, GoingOnKeepsInv
<1> QED
    BY <1>6, <1>7, <1>8
-----------------------------------------------------------------------------
(* Every step. *)

LEMMA LoopInitHolds == AgentLoopInit => LoopInv
<1> SUFFICES ASSUME AgentLoopInit PROVE LoopInv
    OBVIOUS
<1>1. NewLoop = [pc |-> "idle", kind |-> "chat", iter |-> 0, calls |-> 0, slot |-> NoSlots, on |-> "primary",
                 voice |-> {}, resp |-> "none", status |-> "none", ran |-> 0, expired |-> FALSE]
    BY DEF NewLoop, NoSlots
<1>2. Cardinality(OpenSlots(NoSlots)) = 0 /\ Cardinality(UsedSlots(NoSlots)) = 0
    BY NoSlotsAreNone, FS_EmptySet
<1>3. MaxIterations \in Nat /\ MaxToolCalls \in Nat /\ MaxTasks \in Nat
    BY AgentLoopAssumption
<1>4. NewLoop \in LoopRecords
    BY <1>1, <1>3, NoSlotsAreNone DEF LoopRecords, LoopPlaces, Kinds, LoopProviders, LoopResponses
<1>5. LoopOK(NewLoop)
    BY <1>1, <1>2, <1>3, <1>4 DEF LoopOK
<1>6. lpLoops = [l \in Loops |-> NewLoop] /\ lpApproval = << >> /\ lpGauge = 0 /\ lpLoad = 0
    BY DEF AgentLoopInit
<1>7. InTry = {} /\ InFlight = {} /\ TasksInFlight = {}
    BY <1>1, <1>6 DEF InTry, InFlight, TasksInFlight, TaskFlies, Flying
<1> QED
    BY <1>3, <1>4, <1>5, <1>6, <1>7, FS_EmptySet DEF LoopInv

LEMMA LoopNextKeepsInv ==
    ASSUME LoopInv, AgentLoopNext \/ UNCHANGED lpVars
    PROVE  LoopInv'
<1>1. CASE UNCHANGED lpVars \/ PauseSession \/ ResumeSession
  <2>1. UNCHANGED <<lpLoops, lpApproval, lpGauge, lpLoad>>
      BY <1>1 DEF lpVars, PauseSession, ResumeSession
  <2>2. InTry' = InTry /\ InFlight' = InFlight /\ TasksInFlight' = TasksInFlight
      BY <2>1 DEF InTry, InFlight, TasksInFlight
  <2> QED
      BY <2>1, <2>2 DEF LoopInv
<1>2. CASE HijackSession
    BY <1>2, HijackSessionKeepsInv
<1>3. ASSUME NEW l \in Loops, StartLoop(l) \/ NoAccount(l) \/ TimeoutEarly(l) \/ Timeout(l)
      PROVE  LoopInv'
    BY <1>3, StartLoopKeepsInv, NoAccountKeepsInv, TimeoutEarlyKeepsInv, EndingStepsKeepInv
<1>4. ASSUME NEW l \in Loops, LoopStep(l)
      PROVE  LoopInv'
    BY <1>4, ClassifiedKeepsInv, IterateKeepsInv, EndingStepsKeepInv, GateAnsweredKeepsInv, AnsweringKeepsInv,
       ToolCallsKeepInv, SlotSettlesKeepsInv, ToolsGatheredKeepsInv DEF LoopStep
<1> QED
    BY <1>1, <1>2, <1>3, <1>4 DEF AgentLoopNext

\* What the invariant says of the properties: the types, the balance of the
\* gauges, the limit of the tools and the single voice.
LEMMA LoopInvGivesBalance ==
    ASSUME LoopInv
    PROVE  LoadsBalance /\ LpTypeOK
<1>1. LoadsBalance
    BY DEF LoopInv, LoadsBalance
<1>2. {l \in InFlight : lpLoops[l].kind = "task"} = TasksInFlight
    BY DEF InFlight, TasksInFlight, TaskFlies, Flying
<1>3. \A l \in Loops : /\ lpLoops[l].pc \in LoopPlaces /\ lpLoops[l].kind \in Kinds /\ lpLoops[l].iter \in 0 .. MaxIterations
                       /\ lpLoops[l].status \in {"none", "running", "completed", "timeout", "error"}
    BY DEF LoopInv, LoopRecords
<1> QED
    BY <1>1, <1>2, <1>3 DEF LoopInv, LpTypeOK, LoopPlaces

LEMMA LoopInvGivesLimits ==
    ASSUME LoopInv
    PROVE  ToolsAreLimited /\ OneVoicePerAnswer
<1> SUFFICES ASSUME NEW l \in Loops
             PROVE  /\ lpLoops[l].ran <= MaxToolCalls + (IF lpLoops[l].kind = "stream" THEN Batch ELSE 0)
                    /\ Cardinality(lpLoops[l].voice) <= 1
    BY DEF ToolsAreLimited, OneVoicePerAnswer
<1>1. LoopOK(lpLoops[l]) /\ lpLoops[l].ran \in Nat /\ lpLoops[l].calls \in Nat
    BY FieldsOfLoop DEF LoopRecords
<1>2. /\ Cardinality(OpenSlots(lpLoops[l].slot)) \in Nat /\ Cardinality(UsedSlots(lpLoops[l].slot)) \in 0 .. Batch
      /\ MaxToolCalls \in Nat /\ Batch \in Nat
    BY SlotCounts, AgentLoopAssumption
<1>3. lpLoops[l].ran <= MaxToolCalls + (IF lpLoops[l].kind = "stream" THEN Batch ELSE 0)
    BY <1>1, <1>2 DEF LoopOK
<1>4. lpLoops[l].voice \subseteq {lpLoops[l].on}
    BY <1>1 DEF LoopOK
<1>5. Cardinality(lpLoops[l].voice) <= 1
  <2>1. IsFiniteSet({lpLoops[l].on}) /\ Cardinality({lpLoops[l].on}) = 1
      BY FS_Singleton
  <2>2. \A T \in SUBSET {lpLoops[l].on} : Cardinality(T) <= 1
      BY <2>1, FS_Subset
  <2> QED
      BY <1>4, <2>2
<1> QED
    BY <1>3, <1>5

=============================================================================
