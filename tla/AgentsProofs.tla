---------------------------- MODULE AgentsProofs ----------------------------
(***************************************************************************)
(* What the parts in which agents answer, change code and are held to rules *)
(* keep in every state, for any number of loops, sessions, skills, tasks,    *)
(* rules, files and programs.  Every part has variables of its own and its   *)
(* own invariant; the last section puts them together.                       *)
(***************************************************************************)
EXTENDS MCAgents, AgentLoopProofs, SequenceTheorems
-----------------------------------------------------------------------------
(* The engine: tools, working memory, packets and skills. *)

Packet == [session : EngineSessions, memory : Seq(Nat), state : {"whole", "torn", "edited"}]

ToolInv ==
    /\ egTurns \in Nat /\ egRan \in Nat
    /\ egRan <= egTurns /\ egRan <= MaxTalkTurns

\* While nothing was rolled back or lost, the memory is the last exchanges, and
\* from the first roll on every exchange but the first is in a summary.
Remembers(mem, count, summed) ==
    /\ Len(mem) = (IF count <= Window THEN count ELSE Window)
    /\ \A i \in 1 .. Len(mem) : mem[i] = count - Len(mem) + i
    /\ count > Window => 2 .. count \subseteq summed

TalkInv ==
    /\ egMemory \in [EngineSessions -> Seq(Nat)]
    /\ egCount \in [EngineSessions -> Nat]
    /\ egSummed \in [EngineSessions -> SUBSET Nat]
    /\ egRolledBack \in [EngineSessions -> BOOLEAN]
    /\ egPackets \subseteq Packet
    /\ \A p \in egPackets : p.state = "whole" => <<p.session, p.memory>> \in egExported
    /\ \A s \in EngineSessions : ~egRolledBack[s] => Remembers(egMemory[s], egCount[s], egSummed[s])

\* The skill whose gate runs is on disk with the code the gate looks at.
SkillInv ==
    /\ egFiles \in [Skills -> Codes \cup {NoCode}]
    /\ egRegistry \in [Skills -> Codes \cup {NoCode}]
    /\ egGate # << >> => egGate \in Skills \X Codes /\ egFiles[egGate[1]] = egGate[2]
    /\ SkillsAreVetted

EngineNext == TalkNext \/ SkillNext \/ ToolNext \/ RestartEngine

LEMMA LastOfSeq ==
    ASSUME NEW S, NEW seq \in Seq(S), NEW n \in Nat
    PROVE  /\ LastOf(seq, n) \in Seq(S)
           /\ Len(LastOf(seq, n)) = (IF Len(seq) <= n THEN Len(seq) ELSE n)
           /\ \A i \in 1 .. Len(LastOf(seq, n)) : LastOf(seq, n)[i] = seq[Len(seq) - Len(LastOf(seq, n)) + i]
<1>1. Len(seq) \in Nat
    OBVIOUS
<1>2. CASE Len(seq) <= n
    BY <1>1, <1>2 DEF LastOf
<1>3. CASE ~(Len(seq) <= n)
    <2>1. LastOf(seq, n) = SubSeq(seq, Len(seq) - n + 1, Len(seq))
        BY <1>3 DEF LastOf
    <2>2. Len(seq) - n + 1 \in 1 .. Len(seq) + 1
        BY <1>1, <1>3
    <2>3. \A i \in Len(seq) - n + 1 .. Len(seq) : seq[i] \in S
        BY <1>1, <2>2
    <2>4. LastOf(seq, n) \in Seq(S)
        BY <1>1, <1>3, <2>1, <2>2, <2>3
    <2>5. Len(LastOf(seq, n)) = n
        BY <1>1, <1>3, <2>1, <2>2, SubSeqProperties
    <2>6. \A i \in 1 .. n : LastOf(seq, n)[i] = seq[Len(seq) - n + 1 + i - 1]
        BY <1>1, <1>3, <2>1, <2>2, SubSeqProperties
    <2> QED
        BY <1>1, <1>3, <2>4, <2>5, <2>6
<1> QED
    BY <1>2, <1>3

LEMMA AppendingRemembers ==
    ASSUME NEW mem \in Seq(Nat), NEW count \in Nat, NEW summed \in SUBSET Nat, NEW new \in SUBSET Nat,
           Remembers(mem, count, summed),
           Len(Append(mem, count + 1)) > Window => new = summed \cup Summarized(Append(mem, count + 1)),
           ~(Len(Append(mem, count + 1)) > Window) => new = summed
    PROVE  Remembers(LastOf(Append(mem, count + 1), Window), count + 1, new)
<1> DEFINE talk == Append(mem, count + 1)
           left == LastOf(talk, Window)
<1>1. Window \in Nat \ {0} /\ Len(mem) \in Nat
    BY EngineAssumption
<1>2. /\ talk \in Seq(Nat) /\ Len(talk) = Len(mem) + 1
      /\ talk[Len(mem) + 1] = count + 1
      /\ \A i \in 1 .. Len(mem) : talk[i] = mem[i]
    BY <1>1
<1>3. Len(mem) <= count /\ Len(mem) = (IF count <= Window THEN count ELSE Window)
    BY <1>1 DEF Remembers
<1> HIDE DEF talk
<1>4. ASSUME NEW i \in 1 .. Len(talk)
      PROVE  talk[i] = count + 1 - Len(talk) + i
    <2>1. CASE i = Len(mem) + 1
        BY <1>1, <1>2, <2>1
    <2>2. CASE i # Len(mem) + 1
        <3>1. i \in 1 .. Len(mem)
            BY <1>1, <1>2, <2>2
        <3>2. mem[i] = count - Len(mem) + i
            BY <3>1 DEF Remembers
        <3> QED
            BY <1>1, <1>2, <3>1, <3>2
    <2> QED
        BY <2>1, <2>2
<1>5. /\ left \in Seq(Nat) /\ Len(left) = (IF Len(talk) <= Window THEN Len(talk) ELSE Window)
      /\ \A i \in 1 .. Len(left) : left[i] = talk[Len(talk) - Len(left) + i]
    <2>1. Window \in Nat /\ talk \in Seq(Nat)
        BY <1>1, <1>2
    <2> QED
        BY ONLY <2>1, LastOfSeq
<1> HIDE DEF left
<1>51. DOMAIN left = 1 .. Len(left) /\ Len(left) \in Nat /\ Range1(left) = {left[i] : i \in 1 .. Len(left)}
    BY <1>5 DEF Range1
<1>6. ASSUME NEW i \in 1 .. Len(left)
      PROVE  left[i] = count + 1 - Len(left) + i
    <2>1. Len(talk) - Len(left) + i \in 1 .. Len(talk)
        BY <1>1, <1>2, <1>5
    <2> QED
        <3>1. talk[Len(talk) - Len(left) + i] = count + 1 - Len(talk) + (Len(talk) - Len(left) + i)
            BY <1>4, <2>1
        <3>2. left[i] = talk[Len(talk) - Len(left) + i]
            BY <1>5
        <3> QED
            BY <1>1, <1>2, <1>51, <3>1, <3>2
<1>7. Len(left) = (IF count + 1 <= Window THEN count + 1 ELSE Window)
    BY <1>1, <1>2, <1>3, <1>5
<1>8. ASSUME count + 1 > Window
      PROVE  2 .. count + 1 \subseteq new
    <2>1. new = summed \cup Range1(left)
        BY <1>1, <1>2, <1>3, <1>8 DEF Summarized, talk, left
    <2>2. Len(left) = Window /\ left[Window] = count + 1 /\ Window \in 1 .. Len(left)
        BY <1>1, <1>6, <1>7, <1>8
    <2>3. count + 1 \in Range1(left)
        BY <1>51, <2>2
    <2>4. CASE count > Window
        BY <1>1, <2>1, <2>3, <2>4 DEF Remembers
    <2>5. CASE count = Window
        <3>1. \A k \in 2 .. count + 1 : k - 1 \in 1 .. Len(left) /\ left[k - 1] = k
            BY <1>1, <1>6, <2>2, <2>5
        <3>2. \A k \in 2 .. count + 1 : k \in Range1(left)
            BY <1>51, <3>1
        <3> QED
            BY <2>1, <3>2
    <2> QED
        BY <1>1, <1>8, <2>4, <2>5
<1> QED
    BY <1>6, <1>7, <1>8 DEF Remembers, left, talk

LEMMA WritingKeepsPackets ==
    ASSUME TalkInv, NEW p \in Packet, Write(p)
    PROVE  /\ egPackets' \subseteq Packet
           /\ \A q \in egPackets' : q.state = "whole" => <<q.session, q.memory>> \in egExported'
BY DEF TalkInv, Write

LEMMA AppendConversationKeepsTalk ==
    ASSUME TalkInv, NEW s \in EngineSessions, AppendConversation(s)
    PROVE  TalkInv' /\ (egMemory' = egMemory \/ egCount'[s] # egCount[s]) /\ \A t \in EngineSessions \ {s} : egMemory'[t] = egMemory[t]
<1> DEFINE talk == Append(egMemory[s], egCount[s] + 1)
           rolled == Len(talk) > Window
<1>1. Window \in Nat
    BY EngineAssumption
<1>2. egMemory[s] \in Seq(Nat) /\ egCount[s] \in Nat /\ egSummed[s] \in SUBSET Nat /\ talk \in Seq(Nat)
    BY DEF TalkInv
<1>3. LastOf(talk, Window) \in Seq(Nat)
    BY <1>1, <1>2, LastOfSeq
<1>4. egMemory' = [egMemory EXCEPT ![s] = LastOf(talk, Window)] /\ egCount' = [egCount EXCEPT ![s] = @ + 1]
    BY DEF AppendConversation
<1>5. PICK saved \in BOOLEAN :
        /\ ~rolled => saved
        /\ egSummed' = [egSummed EXCEPT ![s] = IF rolled /\ saved THEN @ \cup Summarized(talk) ELSE @]
        /\ egRolledBack' = [egRolledBack EXCEPT ![s] = @ \/ ~saved]
    BY DEF AppendConversation
<1>6. Summarized(talk) \in SUBSET Nat
    BY <1>3 DEF Summarized, Range1
<1>7. /\ egMemory' \in [EngineSessions -> Seq(Nat)] /\ egCount' \in [EngineSessions -> Nat]
      /\ egSummed' \in [EngineSessions -> SUBSET Nat] /\ egRolledBack' \in [EngineSessions -> BOOLEAN]
    BY <1>2, <1>3, <1>4, <1>5, <1>6 DEF TalkInv
<1>8. /\ egPackets' \subseteq Packet
      /\ \A q \in egPackets' : q.state = "whole" => <<q.session, q.memory>> \in egExported'
    <2>1. PICK st \in {"whole", "torn"} :
            IF egSessionTurns[s] + 1 >= HandoffThreshold
            THEN Write([session |-> s, memory |-> LastOf(talk, Window), state |-> st])
            ELSE UNCHANGED <<egPackets, egExported>>
        BY DEF AppendConversation
    <2>2. [session |-> s, memory |-> LastOf(talk, Window), state |-> st] \in Packet
        BY <1>3 DEF Packet
    <2> QED
        BY <2>1, <2>2, WritingKeepsPackets DEF TalkInv
<1>9. ASSUME NEW t \in EngineSessions, ~egRolledBack'[t]
      PROVE  Remembers(egMemory'[t], egCount'[t], egSummed'[t])
    <2>1. CASE t = s
        <3>1. ~egRolledBack[s] /\ saved
            BY <1>5, <1>9, <2>1 DEF TalkInv
        <3>2. Remembers(egMemory[s], egCount[s], egSummed[s])
            BY <3>1 DEF TalkInv
        <3>3. /\ egMemory'[s] = LastOf(talk, Window) /\ egCount'[s] = egCount[s] + 1
              /\ rolled => egSummed'[s] = egSummed[s] \cup Summarized(talk)
              /\ ~rolled => egSummed'[s] = egSummed[s]
            BY <1>4, <1>5, <3>1 DEF TalkInv
        <3>4. egSummed'[s] \in SUBSET Nat
            BY <1>7
        <3>5. Remembers(LastOf(talk, Window), egCount[s] + 1, egSummed'[s])
            BY <1>2, <3>2, <3>3, <3>4, AppendingRemembers
        <3> QED
            BY <2>1, <3>3, <3>5
    <2>2. CASE t # s
        <3>1. egMemory'[t] = egMemory[t] /\ egCount'[t] = egCount[t] /\ egSummed'[t] = egSummed[t] /\ ~egRolledBack[t]
            BY <1>4, <1>5, <1>9, <2>2 DEF TalkInv
        <3> QED
            BY <3>1 DEF TalkInv
    <2> QED
        BY <2>1, <2>2
<1>10. egCount'[s] # egCount[s] /\ \A t \in EngineSessions \ {s} : egMemory'[t] = egMemory[t]
    BY <1>2, <1>4 DEF TalkInv
<1> QED
    BY <1>7, <1>8, <1>9, <1>10 DEF TalkInv

LEMMA TalkNextKeeps ==
    ASSUME TalkInv, EngineNext
    PROVE  TalkInv' /\ \A s \in EngineSessions :
               egMemory'[s] # egMemory[s] /\ egCount'[s] = egCount[s] => <<s, egMemory'[s]>> \in egExported
<1> USE DEF egTools, egSkills, egTalk
<1>1. ASSUME NEW s \in EngineSessions, AppendConversation(s)
      PROVE  TalkInv' /\ \A t \in EngineSessions :
                 egMemory'[t] # egMemory[t] /\ egCount'[t] = egCount[t] => <<t, egMemory'[t]>> \in egExported
    BY <1>1, AppendConversationKeepsTalk
<1>2. ASSUME NEW s \in EngineSessions, NEW p \in Packets(s), Write(p),
             UNCHANGED <<egMemory, egCount, egSummed, egRolledBack>>
      PROVE  TalkInv' /\ egMemory' = egMemory
    <2>1. p \in Packet
        BY DEF Packets, Packet, TalkInv
    <2> QED
        BY <1>2, <2>1, WritingKeepsPackets DEF TalkInv
<1>3. ASSUME NEW p \in egPackets, EditPacket(p)
      PROVE  TalkInv' /\ egMemory' = egMemory
    <2>1. [p EXCEPT !.memory = Tail(@), !.state = "edited"] \in Packet
        <3>1. p \in Packet /\ p.memory \in Seq(Nat) /\ p.memory # << >>
            BY <1>3 DEF EditPacket, TalkInv, Packet
        <3>2. Tail(p.memory) \in Seq(Nat)
            BY <3>1
        <3> QED
            BY <3>1, <3>2 DEF Packet
    <2>2. [p EXCEPT !.memory = Tail(@), !.state = "edited"].state = "edited"
        BY DEF TalkInv, Packet
    <2> QED
        BY <1>3, <2>1, <2>2 DEF EditPacket, TalkInv
<1>4. ASSUME NEW p \in egPackets, ImportHandoff(p)
      PROVE  TalkInv' /\ \A t \in EngineSessions : egMemory'[t] # egMemory[t] => <<t, egMemory'[t]>> \in egExported
    <2>1. p \in Packet /\ p.state = "whole" /\ <<p.session, p.memory>> \in egExported /\ p.memory \in Seq(Nat) /\ p.session \in EngineSessions
        BY <1>4 DEF ImportHandoff, TalkInv, Packet
    <2>2. /\ egMemory' = [egMemory EXCEPT ![p.session] = p.memory]
          /\ egRolledBack' = [egRolledBack EXCEPT ![p.session] = TRUE]
          /\ UNCHANGED <<egCount, egSummed, egPackets, egExported>>
        BY <1>4 DEF ImportHandoff
    <2>3. \A t \in EngineSessions : egMemory'[t] # egMemory[t] => t = p.session /\ egMemory'[t] = p.memory
        BY <2>2 DEF TalkInv
    <2>4. /\ egMemory' \in [EngineSessions -> Seq(Nat)] /\ egRolledBack' \in [EngineSessions -> BOOLEAN]
        BY <2>1, <2>2 DEF TalkInv
    <2>5. \A t \in EngineSessions : ~egRolledBack'[t] => ~egRolledBack[t] /\ egMemory'[t] = egMemory[t]
        BY <2>1, <2>2 DEF TalkInv
    <2> QED
        BY <2>1, <2>2, <2>3, <2>4, <2>5 DEF TalkInv
<1>5. ASSUME UNCHANGED egTalk
      PROVE  TalkInv' /\ egMemory' = egMemory
    BY <1>5 DEF TalkInv
<1>6. CASE TalkNext
    <2>1. ASSUME NEW s \in EngineSessions, ExportHandoff(s)
          PROVE  TalkInv' /\ egMemory' = egMemory
        BY <1>2, <2>1 DEF ExportHandoff
    <2> QED
        BY <1>1, <1>3, <1>4, <1>6, <2>1 DEF TalkNext
<1>7. CASE SkillNext
    BY <1>5, <1>7 DEF SkillNext, GenerateSkill, SynthesizeSkill, SkillGatePasses, GateTimesOut, GateFails
<1>8. CASE ToolNext
    <2>1. ASSUME NEW f, ReadOnboardingFile(f)
          PROVE  UNCHANGED egTalk
        BY <2>1 DEF ReadOnboardingFile
    <2>2. CASE CompleteOnboarding
        BY <1>5, <2>2 DEF CompleteOnboarding
    <2>3. ASSUME NEW s \in EngineSessions, NEW runs \in BOOLEAN, ExecuteTool(s, runs)
          PROVE  TalkInv' /\ egMemory' = egMemory
        <3>1. UNCHANGED <<egMemory, egCount, egSummed, egRolledBack, egSessionTurns>>
            BY <2>3 DEF ExecuteTool
        <3>2. UNCHANGED <<egPackets, egExported>> \/ \E p \in Packets(s) : Write(p)
            BY <2>3 DEF ExecuteTool
        <3> QED
            BY <1>2, <1>5, <3>1, <3>2
    <2> QED
        BY <1>5, <1>8, <2>1, <2>2, <2>3 DEF ToolNext
<1>9. CASE RestartEngine
    BY <1>9 DEF RestartEngine, TalkInv
<1> QED
    BY <1>6, <1>7, <1>8, <1>9 DEF EngineNext

LEMMA SkillNextKeeps == ASSUME SkillInv, EngineNext PROVE SkillInv'
<1> USE DEF SkillInv, SkillsAreVetted
<1>1. CASE TalkNext
    BY <1>1 DEF TalkNext, AppendConversation, ExportHandoff, EditPacket, ImportHandoff, egSkills
<1>2. CASE ToolNext
    BY <1>2 DEF ToolNext, ReadOnboardingFile, CompleteOnboarding, ExecuteTool, egSkills
<1>3. ASSUME NEW n \in Skills, NEW c \in Codes, GenerateSkill(n, c)
      PROVE  SkillInv'
    BY <1>3 DEF GenerateSkill
<1>4. ASSUME NEW n \in Skills, NEW c \in Codes, SynthesizeSkill(n, c)
      PROVE  SkillInv'
    BY <1>4 DEF SynthesizeSkill
<1>5. CASE SkillGatePasses
    BY <1>5 DEF SkillGatePasses, Load
<1>6. CASE GateTimesOut \/ GateFails
    BY <1>6 DEF GateTimesOut, GateFails
<1>7. CASE RestartEngine
    BY <1>7 DEF RestartEngine
<1> QED
    BY <1>1, <1>2, <1>3, <1>4, <1>5, <1>6, <1>7 DEF EngineNext, SkillNext

LEMMA ToolNextKeeps == ASSUME ToolInv, EngineNext PROVE ToolInv'
<1>1. MaxTalkTurns \in Nat
    BY EngineAssumption
<1>2. ASSUME UNCHANGED <<egTurns, egRan>>
      PROVE  ToolInv'
    BY <1>2 DEF ToolInv
<1>3. ASSUME NEW s, NEW runs, ExecuteTool(s, runs)
      PROVE  ToolInv'
    BY <1>1, <1>3 DEF ExecuteTool, ToolInv
<1>4. CASE RestartEngine
    BY <1>1, <1>4 DEF RestartEngine, ToolInv
<1>5. CASE TalkNext
    BY <1>2, <1>5 DEF TalkNext, AppendConversation, ExportHandoff, EditPacket, ImportHandoff, egTools
<1>6. CASE SkillNext
    BY <1>2, <1>6 DEF SkillNext, GenerateSkill, SynthesizeSkill, SkillGatePasses, GateTimesOut, GateFails, egTools
<1>7. CASE ToolNext
    BY <1>2, <1>3, <1>7 DEF ToolNext, ReadOnboardingFile, CompleteOnboarding
<1> QED
    BY <1>4, <1>5, <1>6, <1>7 DEF EngineNext

EngineInv == ToolInv /\ TalkInv /\ SkillInv

LEMMA EngineStarts == EngineInit => EngineInv
<1> SUFFICES ASSUME EngineInit PROVE EngineInv
    OBVIOUS
<1>1. Window \in Nat \ {0} /\ MaxTalkTurns \in Nat
    BY EngineAssumption
<1>2. ToolInv
    BY <1>1 DEF EngineInit, ToolInv
<1>3. SkillInv
    BY DEF EngineInit, SkillInv, SkillsAreVetted
<1>4. << >> \in Seq(Nat) /\ Len(<< >>) = 0
    OBVIOUS
<1>5. Remembers(<< >>, 0, {})
    BY <1>1 DEF Remembers
<1>6. TalkInv
    BY <1>4, <1>5 DEF EngineInit, TalkInv
<1> QED
    BY <1>2, <1>3, <1>6 DEF EngineInv

LEMMA EngineStepKeeps == ASSUME EngineInv, EngineNext \/ UNCHANGED egVars PROVE EngineInv'
<1>1. CASE EngineNext
    BY <1>1, ToolNextKeeps, TalkNextKeeps, SkillNextKeeps DEF EngineInv
<1>2. CASE UNCHANGED egVars
    BY <1>2 DEF EngineInv, ToolInv, TalkInv, SkillInv, SkillsAreVetted, egVars, egTools, egTalk, egSkills
<1> QED
    BY <1>1, <1>2

LEMMA EngineInvGives == EngineInv => HandoffStopsTools /\ RolledTalkIsKept /\ SkillsAreVetted
<1> SUFFICES ASSUME EngineInv PROVE HandoffStopsTools /\ RolledTalkIsKept /\ SkillsAreVetted
    OBVIOUS
<1>1. HandoffStopsTools /\ SkillsAreVetted
    BY DEF EngineInv, ToolInv, SkillInv, HandoffStopsTools
<1>2. ASSUME NEW s \in EngineSessions, ~egRolledBack[s]
      PROVE  2 .. egCount[s] \subseteq Range1(egMemory[s]) \cup egSummed[s]
    <2>1. Window \in Nat /\ egCount[s] \in Nat /\ egMemory[s] \in Seq(Nat) /\ Remembers(egMemory[s], egCount[s], egSummed[s])
        BY <1>2, EngineAssumption DEF EngineInv, TalkInv
    <2>2. CASE egCount[s] > Window
        BY <2>1, <2>2 DEF Remembers
    <2>3. CASE egCount[s] <= Window
        <3>1. \A k \in 2 .. egCount[s] : k \in DOMAIN egMemory[s] /\ egMemory[s][k] = k
            BY <2>1, <2>3 DEF Remembers
        <3> QED
            BY <3>1 DEF Range1
    <2> QED
        BY <2>1, <2>2, <2>3
<1> QED
    BY <1>1, <1>2 DEF RolledTalkIsKept

-----------------------------------------------------------------------------
(* The task graph and the executor. *)

TgStatuses == {"absent", "PENDING", "READY", "COMPLETED", "FAILED", "BLOCKED"}
TgNode == [deps : SUBSET TgTasks, scope : TgScopes \cup {{}}, status : TgStatuses]

GraphInv ==
    /\ tgNodes \in [TgTasks -> TgNode]
    /\ tgTask # NoTask => tgTask \in Added
    /\ tgTurns \in 0 .. MaxTurns /\ tgCalls \in 0 .. MaxCalls /\ tgEvidence \in 0 .. tgCalls
    /\ tgWritten \subseteq Added \X TgPaths
    /\ \A w \in tgWritten : PathMutable(w[2], tgNodes[w[1]].scope)
    /\ ReadyMeansDepsDone

LEMMA PrefixesOfOne ==
    ASSUME NEW S, NEW s \in Seq(S), NEW t \in Seq(S), NEW p \in Seq(S),
           IsPrefix(s, p), IsPrefix(t, p), Len(s) <= Len(t)
    PROVE  IsPrefix(s, t)
<1>1. Len(s) \in Nat /\ Len(t) \in Nat /\ Len(p) \in Nat /\ Len(s) <= Len(p) /\ Len(t) <= Len(p)
    BY DEF IsPrefix
<1>2. SubSeq(s, 1, Len(s)) = SubSeq(p, 1, Len(s)) /\ SubSeq(t, 1, Len(t)) = SubSeq(p, 1, Len(t))
    BY DEF IsPrefix
<1>3. ASSUME NEW u \in Seq(S), NEW k \in Nat, k <= Len(u)
      PROVE  SubSeq(u, 1, k) \in Seq(S) /\ Len(SubSeq(u, 1, k)) = k /\ \A i \in 1 .. k : SubSeq(u, 1, k)[i] = u[i]
    <2>1. /\ SubSeq(u, 1, k) \in Seq(S) /\ Len(SubSeq(u, 1, k)) = (IF 1 <= k THEN k - 1 + 1 ELSE 0)
          /\ \A i \in 1 .. k - 1 + 1 : SubSeq(u, 1, k)[i] = u[1 + i - 1]
        <3>1. 1 \in Int /\ k \in Int /\ \A i \in 1 .. k : u[i] \in S
            BY <1>3
        <3> QED
            BY <3>1, SubSeqProperties
    <2> QED
        BY <1>3, <2>1
<1>4. \A i \in 1 .. Len(t) : t[i] = p[i]
    BY <1>1, <1>2, <1>3
<1>5. \A i \in 1 .. Len(s) : SubSeq(p, 1, Len(s))[i] = SubSeq(t, 1, Len(s))[i]
    BY <1>1, <1>3, <1>4
<1>6. /\ SubSeq(p, 1, Len(s)) \in Seq(S) /\ Len(SubSeq(p, 1, Len(s))) = Len(s)
      /\ SubSeq(t, 1, Len(s)) \in Seq(S) /\ Len(SubSeq(t, 1, Len(s))) = Len(s)
    BY <1>1, <1>3
<1>7. SubSeq(p, 1, Len(s)) = SubSeq(t, 1, Len(s))
    BY <1>5, <1>6, SeqEqual
<1> QED
    BY <1>2, <1>7 DEF IsPrefix

LEMMA WritersOverlap ==
    ASSUME NEW p \in TgPaths, NEW a \in TgScopes, NEW b \in TgScopes, PathMutable(p, a), PathMutable(p, b), a # {}, b # {}
    PROVE  Overlapping(a, b)
<1>1. PICK s \in a, t \in b : Within(p, s) /\ Within(p, t)
    BY DEF PathMutable
<1>2. p \in Seq(TgNames) /\ s \in Seq(TgNames) /\ t \in Seq(TgNames)
    BY TaskGraphAssumption
<1>3. Len(s) \in Nat /\ Len(t) \in Nat
    BY <1>2
<1>4. Within(s, t) \/ Within(t, s)
    <2>1. CASE Len(s) <= Len(t)
        BY <1>1, <1>2, <2>1, PrefixesOfOne DEF Within
    <2>2. CASE Len(t) <= Len(s)
        BY <1>1, <1>2, <2>2, PrefixesOfOne DEF Within
    <2> QED
        BY <1>3, <2>1, <2>2
<1> QED
    BY <1>4 DEF Overlapping

LEMMA GraphInvGives == GraphInv => TgTypeOK /\ ReadyMeansDepsDone /\ DisjointTasksWriteDisjointly
<1> SUFFICES ASSUME GraphInv PROVE TgTypeOK /\ ReadyMeansDepsDone /\ DisjointTasksWriteDisjointly
    OBVIOUS
<1>1. TgTypeOK /\ ReadyMeansDepsDone
    BY TaskGraphAssumption DEF GraphInv, TgTypeOK, TgNode, TgStatuses
<1>2. ASSUME NEW w \in tgWritten, NEW v \in tgWritten, w[2] = v[2],
             tgNodes[w[1]].scope # {}, tgNodes[v[1]].scope # {}
      PROVE  Overlapping(tgNodes[w[1]].scope, tgNodes[v[1]].scope)
    <2>1. w[2] \in TgPaths /\ tgNodes[w[1]].scope \in TgScopes /\ tgNodes[v[1]].scope \in TgScopes
        BY <1>2 DEF GraphInv, TgNode, Added
    <2>2. PathMutable(w[2], tgNodes[w[1]].scope) /\ PathMutable(w[2], tgNodes[v[1]].scope)
        BY <1>2 DEF GraphInv
    <2> QED
        BY <1>2, <2>1, <2>2, WritersOverlap
<1> QED
    BY <1>1, <1>2 DEF DisjointTasksWriteDisjointly

LEMMA GraphNextKeeps == ASSUME GraphInv, TaskGraphNext PROVE GraphInv'
<1> USE TaskGraphAssumption DEF tgAttempt
<1>1. ASSUME NEW t \in TgTasks, NEW deps \in SUBSET TgTasks, NEW scope \in TgScopes \cup {{}}, AddTask(t, deps, scope)
      PROVE  GraphInv'
    <2>1. /\ t \notin Added /\ tgNodes[t].status = "absent"
          /\ tgNodes' = [tgNodes EXCEPT ![t] = [deps |-> deps, scope |-> scope, status |-> "PENDING"]]
          /\ UNCHANGED tgAttempt
        BY <1>1 DEF AddTask, Added
    <2>2. tgNodes' \in [TgTasks -> TgNode]
        BY <2>1 DEF GraphInv, TgNode, TgStatuses
    <2>3. Added \subseteq Added' /\ \A u \in Added : tgNodes'[u] = tgNodes[u]
        BY <2>1, <2>2 DEF Added, GraphInv
    <2>4. \A w \in tgWritten : w[1] \in Added
        BY DEF GraphInv
    <2>5. ReadyMeansDepsDone'
        BY <2>1, <2>2 DEF GraphInv, ReadyMeansDepsDone, DepsDone, TgNode
    <2> QED
        BY <2>1, <2>2, <2>3, <2>4, <2>5 DEF GraphInv
<1>2. ASSUME tgNodes' \in [TgTasks -> TgNode], UNCHANGED tgAttempt, ReadyMeansDepsDone',
             \A t \in TgTasks : /\ tgNodes'[t].scope = tgNodes[t].scope
                                /\ tgNodes'[t].status = "absent" <=> tgNodes[t].status = "absent"
      PROVE  GraphInv'
    <2>1. Added' = Added
        BY <1>2 DEF Added
    <2>2. \A w \in tgWritten : tgNodes'[w[1]].scope = tgNodes[w[1]].scope
        BY <1>2 DEF GraphInv, Added
    <2> QED
        BY <1>2, <2>1, <2>2 DEF GraphInv
<1>3. ASSUME NEW t \in TgTasks, MarkCompleted(t)
      PROVE  GraphInv'
    <2>1. t \in Added /\ tgNodes' = [tgNodes EXCEPT ![t].status = "COMPLETED"] /\ UNCHANGED tgAttempt
        BY <1>3 DEF MarkCompleted
    <2>2. tgNodes' \in [TgTasks -> TgNode]
        BY <2>1 DEF GraphInv, TgNode, TgStatuses
    <2>3. ReadyMeansDepsDone'
        BY <2>1, <2>2 DEF GraphInv, ReadyMeansDepsDone, DepsDone, TgNode
    <2> QED
        BY <1>2, <2>1, <2>2, <2>3 DEF GraphInv, TgNode, Added
<1>4. ASSUME NEW t \in TgTasks, MarkFailed(t)
      PROVE  GraphInv'
    <2>1. /\ t \in Added /\ UNCHANGED tgAttempt
          /\ tgNodes' = [u \in TgTasks |->
                 IF u = t THEN [tgNodes[u] EXCEPT !.status = "FAILED"]
                 ELSE IF t \in tgNodes[u].deps /\ tgNodes[u].status \in {"PENDING", "READY"}
                 THEN [tgNodes[u] EXCEPT !.status = "BLOCKED"] ELSE tgNodes[u]]
        BY <1>4 DEF MarkFailed
    <2>2. tgNodes' \in [TgTasks -> TgNode]
        BY <2>1 DEF GraphInv, TgNode, TgStatuses
    <2>3. \A u \in TgTasks : /\ tgNodes'[u].deps = tgNodes[u].deps /\ tgNodes'[u].scope = tgNodes[u].scope
                             /\ u # t => tgNodes'[u].status \in {tgNodes[u].status, "BLOCKED"}
                             /\ u # t /\ tgNodes'[u].status = "READY" => tgNodes[u].status = "READY" /\ t \notin tgNodes[u].deps
                             /\ tgNodes[u].status \notin {"PENDING", "READY"} /\ u # t => tgNodes'[u] = tgNodes[u]
                             /\ u = t => tgNodes'[u].status = "FAILED"
                             /\ tgNodes[u].status = "absent" /\ u # t => tgNodes'[u].status = "absent"
        BY <2>1, <2>2 DEF GraphInv, TgNode
    <2>4. ReadyMeansDepsDone'
        <3> SUFFICES ASSUME NEW u \in TgTasks, tgNodes'[u].status = "READY", NEW d \in tgNodes'[u].deps
                     PROVE  tgNodes'[d].status = "COMPLETED"
            BY DEF ReadyMeansDepsDone, DepsDone
        <3>1. u # t /\ tgNodes[u].status = "READY" /\ t \notin tgNodes[u].deps /\ d \in tgNodes[u].deps
            BY <2>3
        <3>2. d \in TgTasks /\ d # t /\ tgNodes[d].status = "COMPLETED"
            BY <3>1 DEF GraphInv, ReadyMeansDepsDone, DepsDone, TgNode
        <3> QED
            BY <2>3, <3>2
    <2>5. \A u \in TgTasks : tgNodes'[u].status = "absent" => tgNodes[u].status = "absent"
        BY <2>3
    <2>6. \A u \in TgTasks : tgNodes[u].status = "absent" => tgNodes'[u].status = "absent"
        BY <2>1, <2>3 DEF Added
    <2> QED
        BY <1>2, <2>1, <2>2, <2>3, <2>4, <2>5, <2>6
<1>5. CASE GetReadyTasks
    <2>1. /\ tgNodes' = [t \in TgTasks |-> IF t \in ReadyTasks THEN [tgNodes[t] EXCEPT !.status = "READY"] ELSE tgNodes[t]]
          /\ UNCHANGED tgAttempt
        BY <1>5 DEF GetReadyTasks
    <2>2. tgNodes' \in [TgTasks -> TgNode]
        BY <2>1 DEF GraphInv, TgNode, TgStatuses
    <2>3. \A u \in TgTasks : /\ tgNodes'[u].deps = tgNodes[u].deps /\ tgNodes'[u].scope = tgNodes[u].scope
                             /\ u \in ReadyTasks => tgNodes'[u].status = "READY"
                             /\ u \notin ReadyTasks => tgNodes'[u] = tgNodes[u]
        BY <2>1, <2>2 DEF GraphInv, TgNode
    <2>4. \A u \in TgTasks : tgNodes[u].status \in {"COMPLETED", "absent"} => u \notin ReadyTasks
        BY DEF ReadyTasks
    <2>5. ReadyMeansDepsDone'
        <3> SUFFICES ASSUME NEW u \in TgTasks, tgNodes'[u].status = "READY", NEW d \in tgNodes'[u].deps
                     PROVE  tgNodes'[d].status = "COMPLETED"
            BY DEF ReadyMeansDepsDone, DepsDone
        <3>1. d \in TgTasks /\ d \in tgNodes[u].deps
            BY <2>2, <2>3 DEF TgNode
        <3>2. DepsDone(u)
            BY <2>3 DEF ReadyTasks, GraphInv, ReadyMeansDepsDone
        <3> QED
            BY <2>3, <2>4, <3>1, <3>2 DEF DepsDone
    <2>6. \A u \in TgTasks : tgNodes'[u].status = "absent" <=> tgNodes[u].status = "absent"
        BY <2>3, <2>4
    <2> QED
        BY <1>2, <2>1, <2>2, <2>3, <2>5, <2>6
<1>6. ASSUME NEW t \in TgTasks, BeginAttempt(t)
      PROVE  GraphInv'
    BY <1>6 DEF BeginAttempt, GraphInv, ReadyMeansDepsDone, DepsDone, Added
<1>7. ASSUME NEW p \in TgPaths, ToolWrites(p)
      PROVE  GraphInv'
    <2>1. /\ tgTask \in Added /\ PathMutable(p, tgNodes[tgTask].scope)
          /\ tgWritten' = tgWritten \cup {<<tgTask, p>>} /\ UNCHANGED <<tgNodes, tgTask>>
        BY <1>7 DEF ToolWrites, Call, WriteAllowed, GraphInv
    <2>2. tgTurns' \in 0 .. MaxTurns /\ tgCalls' \in 0 .. MaxCalls /\ tgEvidence' \in 0 .. tgCalls'
        BY <1>7 DEF ToolWrites, Call, GraphInv
    <2> QED
        BY <2>1, <2>2 DEF GraphInv, ReadyMeansDepsDone, DepsDone, Added
<1>8. CASE RepairFails \/ GuardRaises \/ ShellExec \/ ToolReads
    <2>1. UNCHANGED <<tgNodes, tgTask, tgWritten>>
        BY <1>8 DEF RepairFails, GuardRaises, ShellExec, ToolReads
    <2>2. tgTurns' \in 0 .. MaxTurns /\ tgCalls' \in 0 .. MaxCalls /\ tgEvidence' \in 0 .. tgCalls'
        BY <1>8 DEF RepairFails, GuardRaises, ShellExec, ToolReads, Call, GraphInv
    <2> QED
        BY <2>1, <2>2 DEF GraphInv, ReadyMeansDepsDone, DepsDone, Added
<1> QED
    BY <1>1, <1>3, <1>4, <1>5, <1>6, <1>7, <1>8 DEF TaskGraphNext

LEMMA GraphStarts == TaskGraphInit => GraphInv
BY TaskGraphAssumption DEF TaskGraphInit, GraphInv, TgNode, TgStatuses, Unadded, Added, ReadyMeansDepsDone

LEMMA GraphStepKeeps == ASSUME GraphInv, TaskGraphNext \/ UNCHANGED tgVars PROVE GraphInv'
<1>1. CASE UNCHANGED tgVars
    BY <1>1 DEF GraphInv, ReadyMeansDepsDone, DepsDone, Added, tgVars
<1> QED
    BY <1>1, GraphNextKeeps

-----------------------------------------------------------------------------
(* The sandbox: containers. *)

RunPlaces ==
    {"idle", "blocked", "probed", "noimage", "running", "failed", "ended", "timedout", "collected", "answered"}

\* The programs that were counted and not yet as blocked or allowed.
Uncounted == {p \in Programs : sbRun[p] \in {"probed", "running", "noimage", "collected", "ended"}}

\* A container that is not given up belongs to a program that runs, or that
\* the SDK is about to clear up after.
BoxInv ==
    /\ sbRun \in [Programs -> RunPlaces]
    /\ sbVia \in [Programs -> {"none", "sdk", "cli"}]
    /\ \A p \in Programs : sbRun[p] \in {"probed", "running", "ended", "timedout"} => sbVia[p] \in {"sdk", "cli"}
    /\ \A p \in Programs : p \in sbContainers \ sbKept =>
          sbRun[p] = "running" \/ (sbVia[p] = "sdk" /\ sbRun[p] \in {"ended", "timedout"})
    /\ sbCount \in [total : Int, blocked : Int, allowed : Int]
    /\ sbCount.total = sbCount.blocked + sbCount.allowed + Cardinality(Uncounted)

Pending == {"probed", "running", "noimage", "collected", "ended"}

LEMMA ProgramMoves ==
    ASSUME BoxInv, NEW p \in Programs, NEW place \in RunPlaces, sbRun' = [sbRun EXCEPT ![p] = place],
           NEW t \in Int, NEW b \in Int, NEW a \in Int,
           sbCount' = [total |-> sbCount.total + t, blocked |-> sbCount.blocked + b, allowed |-> sbCount.allowed + a],
           t - b - a = (IF place \in Pending THEN 1 ELSE 0) - (IF sbRun[p] \in Pending THEN 1 ELSE 0),
           sbVia' \in [Programs -> {"none", "sdk", "cli"}],
           \A q \in Programs \ {p} : /\ sbVia'[q] = sbVia[q]
                                     /\ q \in sbContainers' \ sbKept' => q \in sbContainers \ sbKept,
           place \in {"probed", "running", "ended", "timedout"} => sbVia'[p] \in {"sdk", "cli"},
           p \in sbContainers' \ sbKept' =>
               place = "running" \/ (sbVia'[p] = "sdk" /\ place \in {"ended", "timedout"})
    PROVE  BoxInv'
<1>1. /\ sbRun' \in [Programs -> RunPlaces]
      /\ \A q \in Programs : sbRun'[q] = IF q = p THEN place ELSE sbRun[q]
    BY DEF BoxInv
<1>2. \A q : q # p => (q \in Uncounted' <=> q \in Uncounted)
    BY <1>1 DEF Uncounted
<1>3. (p \in Uncounted' <=> place \in Pending) /\ (p \in Uncounted <=> sbRun[p] \in Pending)
    BY <1>1 DEF Uncounted, Pending
<1>4. IsFiniteSet(Uncounted) /\ Cardinality(Uncounted) \in Nat
    BY SandboxAssumption, FS_Subset, FS_CardinalityType DEF Uncounted
<1>5. /\ p \in Uncounted /\ p \in Uncounted' => Cardinality(Uncounted') = Cardinality(Uncounted)
      /\ p \notin Uncounted /\ p \notin Uncounted' => Cardinality(Uncounted') = Cardinality(Uncounted)
      /\ p \notin Uncounted /\ p \in Uncounted' => Cardinality(Uncounted') = Cardinality(Uncounted) + 1
      /\ p \in Uncounted /\ p \notin Uncounted' => Cardinality(Uncounted') = Cardinality(Uncounted) - 1
    BY <1>2, <1>4, CountMoves
<1>6. /\ sbCount.total \in Int /\ sbCount.blocked \in Int /\ sbCount.allowed \in Int
      /\ sbCount.total = sbCount.blocked + sbCount.allowed + Cardinality(Uncounted)
    BY DEF BoxInv
<1>7. Cardinality(Uncounted') = Cardinality(Uncounted) + (t - b - a)
    BY <1>3, <1>4, <1>5
<1>8. /\ sbCount' \in [total : Int, blocked : Int, allowed : Int]
      /\ sbCount'.total = sbCount'.blocked + sbCount'.allowed + Cardinality(Uncounted')
    BY <1>4, <1>6, <1>7
<1>9. /\ \A q \in Programs : sbRun'[q] \in {"probed", "running", "ended", "timedout"} => sbVia'[q] \in {"sdk", "cli"}
      /\ \A q \in Programs : q \in sbContainers' \ sbKept' =>
            sbRun'[q] = "running" \/ (sbVia'[q] = "sdk" /\ sbRun'[q] \in {"ended", "timedout"})
    BY <1>1 DEF BoxInv
<1> QED
    BY <1>1, <1>8, <1>9 DEF BoxInv

\* A move that counts nothing.
LEMMA CountStays ==
    ASSUME BoxInv, UNCHANGED sbCount
    PROVE  sbCount' = [total |-> sbCount.total + 0, blocked |-> sbCount.blocked + 0, allowed |-> sbCount.allowed + 0]
BY DEF BoxInv

LEMMA BoxStepKeeps == ASSUME BoxInv, BoxNext \/ UNCHANGED boxVars PROVE BoxInv'
<1>0. 0 \in Int /\ 1 \in Int /\ BoxInv /\ sbVia \in [Programs -> {"none", "sdk", "cli"}]
    BY DEF BoxInv
<1>1. CASE UNCHANGED boxVars
    BY <1>1 DEF boxVars, BoxInv, Uncounted
<1>2. ASSUME NEW p \in Programs, RegisterConsensus(p)
      PROVE  BoxInv'
    BY <1>2 DEF RegisterConsensus, BoxInv, Uncounted
<1>3. ASSUME NEW p \in Programs, Refused(p)
      PROVE  BoxInv'
    <2>1. sbRun' = [sbRun EXCEPT ![p] = "blocked"]
        BY <1>3 DEF Refused, BoxInv
    <2>2. sbCount' = [total |-> sbCount.total + 1, blocked |-> sbCount.blocked + 1, allowed |-> sbCount.allowed + 0]
        <3>1. sbCount' = [sbCount EXCEPT !.total = sbCount.total + 1, !.blocked = sbCount.blocked + 1]
            BY <1>3 DEF Refused
        <3>2. sbCount \in [total : Int, blocked : Int, allowed : Int]
            BY DEF BoxInv
        <3>3. sbCount.allowed + 0 = sbCount.allowed
            BY <3>2
        <3> QED
            BY ONLY <3>1, <3>2, <3>3
    <2>3. /\ sbVia' \in [Programs -> {"none", "sdk", "cli"}]
          /\ \A q \in Programs \ {p} : sbVia'[q] = sbVia[q] /\ (q \in sbContainers' \ sbKept' => q \in sbContainers \ sbKept)
        BY <1>3 DEF Refused, BoxInv
    <2>4. /\ "blocked" \in RunPlaces
          /\ 1 - 1 - 0 = (IF "blocked" \in Pending THEN 1 ELSE 0) - (IF sbRun[p] \in Pending THEN 1 ELSE 0)
        BY <1>3 DEF Refused, BoxInv, RunPlaces, Pending
    <2>5. /\ "blocked" \in {"probed", "running", "ended", "timedout"} => sbVia'[p] \in {"sdk", "cli"}
          /\ p \in sbContainers' \ sbKept' =>
                "blocked" = "running" \/ (sbVia'[p] = "sdk" /\ "blocked" \in {"ended", "timedout"})
        BY <1>3 DEF Refused, BoxInv
    <2> QED
        BY <1>0, <2>1, <2>2, <2>3, <2>4, <2>5, ProgramMoves
<1>4. ASSUME NEW p \in Programs, Probed(p)
      PROVE  BoxInv'
    <2>1. sbRun' = [sbRun EXCEPT ![p] = "probed"]
        BY <1>4 DEF Probed, BoxInv
    <2>2. sbCount' = [total |-> sbCount.total + 1, blocked |-> sbCount.blocked + 0, allowed |-> sbCount.allowed + 0]
        BY <1>4 DEF Probed, BoxInv
    <2>3. /\ sbVia' \in [Programs -> {"none", "sdk", "cli"}]
          /\ \A q \in Programs \ {p} : sbVia'[q] = sbVia[q] /\ (q \in sbContainers' \ sbKept' => q \in sbContainers \ sbKept)
        BY <1>4 DEF Probed, BoxInv
    <2>4. /\ "probed" \in RunPlaces
          /\ 1 - 0 - 0 = (IF "probed" \in Pending THEN 1 ELSE 0) - (IF sbRun[p] \in Pending THEN 1 ELSE 0)
        BY <1>4 DEF Probed, BoxInv, RunPlaces, Pending
    <2>5. /\ "probed" \in {"probed", "running", "ended", "timedout"} => sbVia'[p] \in {"sdk", "cli"}
          /\ p \in sbContainers' \ sbKept' =>
                "probed" = "running" \/ (sbVia'[p] = "sdk" /\ "probed" \in {"ended", "timedout"})
        BY <1>4 DEF Probed, BoxInv
    <2> QED
        BY <1>0, <2>1, <2>2, <2>3, <2>4, <2>5, ProgramMoves
<1>5. ASSUME NEW p \in Programs, NoImage(p)
      PROVE  BoxInv'
    <2>1. sbRun' = [sbRun EXCEPT ![p] = "noimage"]
        BY <1>5 DEF NoImage, BoxInv
    <2>2. sbCount' = [total |-> sbCount.total + 0, blocked |-> sbCount.blocked + 0, allowed |-> sbCount.allowed + 0]
        BY <1>5, CountStays DEF NoImage, BoxInv
    <2>3. /\ sbVia' \in [Programs -> {"none", "sdk", "cli"}]
          /\ \A q \in Programs \ {p} : sbVia'[q] = sbVia[q] /\ (q \in sbContainers' \ sbKept' => q \in sbContainers \ sbKept)
        BY <1>5 DEF NoImage, BoxInv
    <2>4. /\ "noimage" \in RunPlaces
          /\ 0 - 0 - 0 = (IF "noimage" \in Pending THEN 1 ELSE 0) - (IF sbRun[p] \in Pending THEN 1 ELSE 0)
        BY <1>5 DEF NoImage, BoxInv, RunPlaces, Pending
    <2>5. /\ "noimage" \in {"probed", "running", "ended", "timedout"} => sbVia'[p] \in {"sdk", "cli"}
          /\ p \in sbContainers' \ sbKept' =>
                "noimage" = "running" \/ (sbVia'[p] = "sdk" /\ "noimage" \in {"ended", "timedout"})
        BY <1>5 DEF NoImage, BoxInv
    <2> QED
        BY <1>0, <2>1, <2>2, <2>3, <2>4, <2>5, ProgramMoves
<1>6. ASSUME NEW p \in Programs, ContainerStarts(p)
      PROVE  BoxInv'
    <2>1. sbRun' = [sbRun EXCEPT ![p] = "running"]
        BY <1>6 DEF ContainerStarts, BoxInv
    <2>2. sbCount' = [total |-> sbCount.total + 0, blocked |-> sbCount.blocked + 0, allowed |-> sbCount.allowed + 0]
        BY <1>6, CountStays DEF ContainerStarts, BoxInv
    <2>3. /\ sbVia' \in [Programs -> {"none", "sdk", "cli"}]
          /\ \A q \in Programs \ {p} : sbVia'[q] = sbVia[q] /\ (q \in sbContainers' \ sbKept' => q \in sbContainers \ sbKept)
        BY <1>6 DEF ContainerStarts, BoxInv
    <2>4. /\ "running" \in RunPlaces
          /\ 0 - 0 - 0 = (IF "running" \in Pending THEN 1 ELSE 0) - (IF sbRun[p] \in Pending THEN 1 ELSE 0)
        BY <1>6 DEF ContainerStarts, BoxInv, RunPlaces, Pending
    <2>5. /\ "running" \in {"probed", "running", "ended", "timedout"} => sbVia'[p] \in {"sdk", "cli"}
          /\ p \in sbContainers' \ sbKept' =>
                "running" = "running" \/ (sbVia'[p] = "sdk" /\ "running" \in {"ended", "timedout"})
        BY <1>6 DEF ContainerStarts, BoxInv
    <2> QED
        BY <1>0, <2>1, <2>2, <2>3, <2>4, <2>5, ProgramMoves
<1>7. ASSUME NEW p \in Programs, StartFails(p)
      PROVE  BoxInv'
    <2>1. sbRun' = [sbRun EXCEPT ![p] = "failed"]
        BY <1>7 DEF StartFails, BoxInv
    <2>2. sbCount' = [total |-> sbCount.total + 0, blocked |-> sbCount.blocked + 1, allowed |-> sbCount.allowed + 0]
        BY <1>7 DEF StartFails, BoxInv
    <2>3. /\ sbVia' \in [Programs -> {"none", "sdk", "cli"}]
          /\ \A q \in Programs \ {p} : sbVia'[q] = sbVia[q] /\ (q \in sbContainers' \ sbKept' => q \in sbContainers \ sbKept)
        BY <1>7 DEF StartFails, BoxInv
    <2>4. /\ "failed" \in RunPlaces
          /\ 0 - 1 - 0 = (IF "failed" \in Pending THEN 1 ELSE 0) - (IF sbRun[p] \in Pending THEN 1 ELSE 0)
        BY <1>7 DEF StartFails, BoxInv, RunPlaces, Pending
    <2>5. /\ "failed" \in {"probed", "running", "ended", "timedout"} => sbVia'[p] \in {"sdk", "cli"}
          /\ p \in sbContainers' \ sbKept' =>
                "failed" = "running" \/ (sbVia'[p] = "sdk" /\ "failed" \in {"ended", "timedout"})
        BY <1>7 DEF StartFails, BoxInv
    <2> QED
        BY <1>0, <2>1, <2>2, <2>3, <2>4, <2>5, ProgramMoves
<1>8. ASSUME NEW p \in Programs, ProgramEnds(p)
      PROVE  BoxInv'
    <2>1. sbRun' = [sbRun EXCEPT ![p] = "ended"]
        BY <1>8 DEF ProgramEnds, BoxInv
    <2>2. sbCount' = [total |-> sbCount.total + 0, blocked |-> sbCount.blocked + 0, allowed |-> sbCount.allowed + 0]
        BY <1>8, CountStays DEF ProgramEnds, BoxInv
    <2>3. /\ sbVia' \in [Programs -> {"none", "sdk", "cli"}]
          /\ \A q \in Programs \ {p} : sbVia'[q] = sbVia[q] /\ (q \in sbContainers' \ sbKept' => q \in sbContainers \ sbKept)
        BY <1>8 DEF ProgramEnds, BoxInv
    <2>4. /\ "ended" \in RunPlaces
          /\ 0 - 0 - 0 = (IF "ended" \in Pending THEN 1 ELSE 0) - (IF sbRun[p] \in Pending THEN 1 ELSE 0)
        BY <1>8 DEF ProgramEnds, BoxInv, RunPlaces, Pending
    <2>5. /\ "ended" \in {"probed", "running", "ended", "timedout"} => sbVia'[p] \in {"sdk", "cli"}
          /\ p \in sbContainers' \ sbKept' =>
                "ended" = "running" \/ (sbVia'[p] = "sdk" /\ "ended" \in {"ended", "timedout"})
        BY <1>8 DEF ProgramEnds, BoxInv
    <2> QED
        BY <1>0, <2>1, <2>2, <2>3, <2>4, <2>5, ProgramMoves
<1>9. ASSUME NEW p \in Programs, ProgramTimesOut(p)
      PROVE  BoxInv'
    <2>1. sbRun' = [sbRun EXCEPT ![p] = "timedout"]
        BY <1>9 DEF ProgramTimesOut, BoxInv
    <2>2. sbCount' = [total |-> sbCount.total + 0, blocked |-> sbCount.blocked + 1, allowed |-> sbCount.allowed + 0]
        BY <1>9 DEF ProgramTimesOut, BoxInv
    <2>3. /\ sbVia' \in [Programs -> {"none", "sdk", "cli"}]
          /\ \A q \in Programs \ {p} : sbVia'[q] = sbVia[q] /\ (q \in sbContainers' \ sbKept' => q \in sbContainers \ sbKept)
        BY <1>9 DEF ProgramTimesOut, BoxInv
    <2>4. /\ "timedout" \in RunPlaces
          /\ 0 - 1 - 0 = (IF "timedout" \in Pending THEN 1 ELSE 0) - (IF sbRun[p] \in Pending THEN 1 ELSE 0)
        BY <1>9 DEF ProgramTimesOut, BoxInv, RunPlaces, Pending
    <2>5. /\ "timedout" \in {"probed", "running", "ended", "timedout"} => sbVia'[p] \in {"sdk", "cli"}
          /\ p \in sbContainers' \ sbKept' =>
                "timedout" = "running" \/ (sbVia'[p] = "sdk" /\ "timedout" \in {"ended", "timedout"})
        BY <1>9 DEF ProgramTimesOut, BoxInv
    <2> QED
        BY <1>0, <2>1, <2>2, <2>3, <2>4, <2>5, ProgramMoves
<1>10. ASSUME NEW p \in Programs, Removed(p)
      PROVE  BoxInv'
    <2>1. sbRun' = [sbRun EXCEPT ![p] = (IF sbRun[p] = "ended" THEN "collected" ELSE "failed")]
        BY <1>10 DEF Removed, RemovedAfter, BoxInv
    <2>2. sbCount' = [total |-> sbCount.total + 0, blocked |-> sbCount.blocked + 0, allowed |-> sbCount.allowed + 0]
        BY <1>10, CountStays DEF Removed, RemovedAfter, BoxInv
    <2>3. /\ sbVia' \in [Programs -> {"none", "sdk", "cli"}]
          /\ \A q \in Programs \ {p} : sbVia'[q] = sbVia[q] /\ (q \in sbContainers' \ sbKept' => q \in sbContainers \ sbKept)
        BY <1>10 DEF Removed, RemovedAfter, BoxInv
    <2>4. /\ (IF sbRun[p] = "ended" THEN "collected" ELSE "failed") \in RunPlaces
          /\ 0 - 0 - 0 = (IF (IF sbRun[p] = "ended" THEN "collected" ELSE "failed") \in Pending THEN 1 ELSE 0) - (IF sbRun[p] \in Pending THEN 1 ELSE 0)
        BY <1>10 DEF Removed, RemovedAfter, BoxInv, RunPlaces, Pending
    <2>5. /\ (IF sbRun[p] = "ended" THEN "collected" ELSE "failed") \in {"probed", "running", "ended", "timedout"} => sbVia'[p] \in {"sdk", "cli"}
          /\ p \in sbContainers' \ sbKept' =>
                (IF sbRun[p] = "ended" THEN "collected" ELSE "failed") = "running" \/ (sbVia'[p] = "sdk" /\ (IF sbRun[p] = "ended" THEN "collected" ELSE "failed") \in {"ended", "timedout"})
        BY <1>10 DEF Removed, RemovedAfter, BoxInv
    <2> QED
        BY <1>0, <2>1, <2>2, <2>3, <2>4, <2>5, ProgramMoves
<1>11. ASSUME NEW p \in Programs, Answered(p)
      PROVE  BoxInv'
    <2>1. sbRun' = [sbRun EXCEPT ![p] = "answered"]
        BY <1>11 DEF Answered, BoxInv
    <2>2. sbCount' = [total |-> sbCount.total + 0, blocked |-> sbCount.blocked + 0, allowed |-> sbCount.allowed + 1]
        BY <1>11 DEF Answered, BoxInv
    <2>3. /\ sbVia' \in [Programs -> {"none", "sdk", "cli"}]
          /\ \A q \in Programs \ {p} : sbVia'[q] = sbVia[q] /\ (q \in sbContainers' \ sbKept' => q \in sbContainers \ sbKept)
        BY <1>11 DEF Answered, BoxInv
    <2>4. /\ "answered" \in RunPlaces
          /\ 0 - 0 - 1 = (IF "answered" \in Pending THEN 1 ELSE 0) - (IF sbRun[p] \in Pending THEN 1 ELSE 0)
        BY <1>11 DEF Answered, BoxInv, RunPlaces, Pending
    <2>5. /\ "answered" \in {"probed", "running", "ended", "timedout"} => sbVia'[p] \in {"sdk", "cli"}
          /\ p \in sbContainers' \ sbKept' =>
                "answered" = "running" \/ (sbVia'[p] = "sdk" /\ "answered" \in {"ended", "timedout"})
        BY <1>11 DEF Answered, BoxInv
    <2> QED
        BY <1>0, <2>1, <2>2, <2>3, <2>4, <2>5, ProgramMoves
<1>12. ASSUME NEW p \in Programs, Raised(p)
      PROVE  BoxInv'
    <2>1. sbRun' = [sbRun EXCEPT ![p] = "failed"]
        BY <1>12 DEF Raised, RemovedAfter, BoxInv
    <2>2. sbCount' = [total |-> sbCount.total + 0, blocked |-> sbCount.blocked + 0, allowed |-> sbCount.allowed + 0]
        BY <1>12, CountStays DEF Raised, RemovedAfter, BoxInv
    <2>3. /\ sbVia' \in [Programs -> {"none", "sdk", "cli"}]
          /\ \A q \in Programs \ {p} : sbVia'[q] = sbVia[q] /\ (q \in sbContainers' \ sbKept' => q \in sbContainers \ sbKept)
        BY <1>12 DEF Raised, RemovedAfter, BoxInv
    <2>4. /\ "failed" \in RunPlaces
          /\ 0 - 0 - 0 = (IF "failed" \in Pending THEN 1 ELSE 0) - (IF sbRun[p] \in Pending THEN 1 ELSE 0)
        BY <1>12 DEF Raised, RemovedAfter, BoxInv, RunPlaces, Pending
    <2>5. /\ "failed" \in {"probed", "running", "ended", "timedout"} => sbVia'[p] \in {"sdk", "cli"}
          /\ p \in sbContainers' \ sbKept' =>
                "failed" = "running" \/ (sbVia'[p] = "sdk" /\ "failed" \in {"ended", "timedout"})
        BY <1>12 DEF Raised, RemovedAfter, BoxInv
    <2> QED
        BY <1>0, <2>1, <2>2, <2>3, <2>4, <2>5, ProgramMoves
<1> QED
    BY <1>1, <1>2, <1>3, <1>4, <1>5, <1>6, <1>7, <1>8, <1>9, <1>10, <1>11, <1>12 DEF BoxNext

LEMMA BoxStarts == SandboxInit => BoxInv
<1> SUFFICES ASSUME SandboxInit PROVE BoxInv
    OBVIOUS
<1>1. Uncounted = {}
    BY DEF SandboxInit, Uncounted
<1> QED
    BY <1>1, FS_EmptySet DEF SandboxInit, BoxInv, RunPlaces

LEMMA BoxInvGives == BoxInv => ContainersAreRemoved /\ ExecutionsAreCountedOnce
<1> SUFFICES ASSUME BoxInv PROVE ContainersAreRemoved /\ ExecutionsAreCountedOnce
    OBVIOUS
<1>1. {p \in Programs : sbRun[p] \in {"probed", "running", "noimage", "collected"} \/ sbRun[p] = "ended"} = Uncounted
    BY DEF Uncounted
<1> QED
    BY <1>1 DEF BoxInv, ContainersAreRemoved, ExecutionsAreCountedOnce

-----------------------------------------------------------------------------
(* The sandbox: transactions on the workspace. *)

TxPlaces == {"ready", "copying", "working", "deleting", "restoring", "committed", "undone", "dead"}

\* The files a dispatch answers for: those no other one has changed while it was
\* open and whose copy or removal has not failed.
Answerable(d) == SbFiles \ (sbSkipped[d] \cup sbTouched[d])

\* Where a transaction stands tells what its copies and the workspace hold, in
\* the files it answers for.
TxHolds(d) ==
    /\ sbTx[d] = "ready" => sbSnap[d] = NoCopies
    /\ sbTx[d] = "copying" =>
          \A f \in Answerable(d) :
              /\ sbDisk[f] = sbEntry[d][f]
              /\ f \notin sbLeft[d] => sbSnap[d][f] = sbEntry[d][f]
    /\ sbTx[d] \in {"working", "deleting", "restoring"} =>
          \A f \in Answerable(d) : sbSnap[d][f] = sbEntry[d][f]
    /\ sbTx[d] = "deleting" => \A f \in Answerable(d) : f \notin sbLeft[d] => sbDisk[f] = Missing
    /\ sbTx[d] = "restoring" => \A f \in Answerable(d) : f \notin sbLeft[d] => sbDisk[f] = sbEntry[d][f]

Contents == {Missing, "base"} \cup Dispatches

FilesInv ==
    /\ sbDisk \in [SbFiles -> Contents]
    /\ sbTx \in [Dispatches -> TxPlaces]
    /\ sbLeft \in [Dispatches -> SUBSET SbFiles]
    /\ sbSnap \in [Dispatches -> [SbFiles -> Contents]]
    /\ sbEntry \in [Dispatches -> [SbFiles -> Contents]]
    /\ sbSkipped \in [Dispatches -> SUBSET SbFiles]
    /\ sbTouched \in [Dispatches -> SUBSET SbFiles]
    /\ \A d \in Dispatches : TxHolds(d)

\* A step of a dispatch leaves what others hold, but for the files it changes,
\* which are noted for those that are open.
LEMMA OthersHold ==
    ASSUME FilesInv, NEW d \in Dispatches, NEW e \in Dispatches \ {d}, OthersNote(d),
           sbTx'[e] = sbTx[e], sbLeft'[e] = sbLeft[e], sbSnap'[e] = sbSnap[e], sbEntry'[e] = sbEntry[e],
           sbSkipped'[e] = sbSkipped[e]
    PROVE  TxHolds(e)'
<1>1. TxHolds(e)
    BY DEF FilesInv
<1>2. CASE e \in OpenTx
    <2>1. sbTouched'[e] = sbTouched[e] \cup {f \in SbFiles : sbDisk'[f] # sbDisk[f]}
        BY <1>2 DEF OthersNote
    <2>2. Answerable(e)' \subseteq Answerable(e) /\ \A f \in Answerable(e)' : sbDisk'[f] = sbDisk[f]
        BY <2>1 DEF Answerable
    <2> QED
        BY <1>1, <2>2 DEF TxHolds
<1>3. CASE e \notin OpenTx
    <2>1. sbTx'[e] \notin {"copying", "working", "deleting", "restoring"}
        BY <1>3 DEF OpenTx
    <2> QED
        BY <1>1, <2>1 DEF TxHolds, NoCopies
<1> QED
    BY <1>2, <1>3

\* A step of one transaction.
LEMMA TransactionMoves ==
    ASSUME FilesInv, NEW d \in Dispatches, NEW place \in TxPlaces, OthersNote(d),
           sbTx' = [sbTx EXCEPT ![d] = place],
           sbDisk' \in [SbFiles -> Contents],
           sbLeft' \in [Dispatches -> SUBSET SbFiles], sbSkipped' \in [Dispatches -> SUBSET SbFiles],
           sbSnap' \in [Dispatches -> [SbFiles -> Contents]], sbEntry' \in [Dispatches -> [SbFiles -> Contents]],
           \A e \in Dispatches \ {d} : /\ sbSnap'[e] = sbSnap[e] /\ sbLeft'[e] = sbLeft[e]
                                       /\ sbEntry'[e] = sbEntry[e] /\ sbSkipped'[e] = sbSkipped[e],
           TxHolds(d)'
    PROVE  FilesInv'
<1>1. sbTx' \in [Dispatches -> TxPlaces] /\ \A e \in Dispatches \ {d} : sbTx'[e] = sbTx[e]
    BY DEF FilesInv
<1>2. sbTouched' \in [Dispatches -> SUBSET SbFiles]
    <2>1. \A e \in Dispatches : sbTouched[e] \in SUBSET SbFiles
        BY DEF FilesInv
    <2> QED
        BY <2>1 DEF OthersNote
<1>3. \A e \in Dispatches \ {d} : TxHolds(e)'
    BY <1>1, OthersHold
<1> QED
    BY <1>1, <1>2, <1>3 DEF FilesInv

LEMMA FileTypes ==
    ASSUME FilesInv, NEW d \in Dispatches
    PROVE  /\ Missing \in Contents /\ d \in Contents /\ NoCopies \in [SbFiles -> Contents]
           /\ sbSnap[d] \in [SbFiles -> Contents] /\ sbEntry[d] \in [SbFiles -> Contents]
           /\ sbLeft[d] \in SUBSET SbFiles /\ sbSkipped[d] \in SUBSET SbFiles
           /\ Present(sbDisk) \in SUBSET SbFiles /\ Present(sbSnap[d]) \in SUBSET SbFiles
           /\ \A f \in SbFiles : f \notin Present(sbDisk) => sbDisk[f] = Missing
           /\ \A f \in SbFiles : f \notin Present(sbSnap[d]) => sbSnap[d][f] = Missing
           /\ \A f \in SbFiles : NoCopies[f] = Missing
           /\ TxHolds(d)
           /\ [sbTx EXCEPT ![d] = sbTx[d]] = sbTx /\ sbTx[d] \in TxPlaces
BY DEF FilesInv, Contents, NoCopies, Present

\* A dispatch's own steps are not noted for it.
LEMMA OwnSteps ==
    ASSUME FilesInv, NEW d \in Dispatches, OthersNote(d)
    PROVE  sbTouched'[d] = sbTouched[d]
BY DEF OthersNote, FilesInv

LEMMA PhasesKeepFiles ==
    ASSUME FilesInv, NEW d \in Dispatches, OthersNote(d),
           EnterTx(d) \/ SnapshotTaken(d) \/ CommitTx(d) \/ BeginRollback(d) \/ AllDeleted(d) \/ RollbackEnds(d) \/ TxDies(d)
    PROVE  FilesInv'
<1> USE FileTypes, OwnSteps DEF TxPlaces, Answerable
<1>1. CASE EnterTx(d)
    <2>2. TxHolds(d)'
        BY <1>1 DEF EnterTx, FilesInv, TxHolds
    <2> QED
        BY <1>1, <2>2, TransactionMoves DEF EnterTx, FilesInv
<1>2. CASE SnapshotTaken(d)
    <2>1. TxHolds(d)'
        BY <1>2 DEF SnapshotTaken, FilesInv, TxHolds
    <2> QED
        BY <1>2, <2>1, TransactionMoves DEF SnapshotTaken, FilesInv
<1>3. CASE CommitTx(d)
    <2>1. TxHolds(d)'
        BY <1>3 DEF CommitTx, FilesInv, TxHolds
    <2> QED
        BY <1>3, <2>1, TransactionMoves DEF CommitTx, FilesInv
<1>4. CASE BeginRollback(d)
    <2>1. TxHolds(d)'
        BY <1>4 DEF BeginRollback, FirstRollbackPhase, FilesInv, TxHolds
    <2> QED
        BY <1>4, <2>1, TransactionMoves DEF BeginRollback, FirstRollbackPhase, FilesInv
<1>5. CASE AllDeleted(d)
    <2>1. TxHolds(d)'
        BY <1>5 DEF AllDeleted, FilesInv, TxHolds
    <2> QED
        BY <1>5, <2>1, TransactionMoves DEF AllDeleted, FilesInv
<1>6. CASE RollbackEnds(d)
    <2>1. TxHolds(d)'
        BY <1>6 DEF RollbackEnds, FilesInv, TxHolds
    <2> QED
        BY <1>6, <2>1, TransactionMoves DEF RollbackEnds, FilesInv
<1>7. CASE TxDies(d)
    <2>1. TxHolds(d)'
        BY <1>7 DEF TxDies, FilesInv, TxHolds
    <2> QED
        BY <1>7, <2>1, TransactionMoves DEF TxDies, FilesInv
<1> QED
    BY <1>1, <1>2, <1>3, <1>4, <1>5, <1>6, <1>7

LEMMA FileStepsKeepFiles ==
    ASSUME FilesInv, NEW d \in Dispatches, OthersNote(d), NEW f \in SbFiles,
           CopyFile(d, f) \/ RoleWrites(d, f) \/ DeleteFile(d, f) \/ RestoreFile(d, f)
    PROVE  FilesInv'
<1> USE FileTypes, OwnSteps DEF TxPlaces, Answerable
<1>1. CASE CopyFile(d, f)
    <2>1. TxHolds(d)'
        BY <1>1 DEF CopyFile, FilesInv, TxHolds
    <2>2. /\ sbLeft' \in [Dispatches -> SUBSET SbFiles] /\ sbSkipped' \in [Dispatches -> SUBSET SbFiles]
          /\ \A e \in Dispatches \ {d} : sbLeft'[e] = sbLeft[e] /\ sbSkipped'[e] = sbSkipped[e]
        <3>1. sbLeft \in [Dispatches -> SUBSET SbFiles] /\ sbSkipped \in [Dispatches -> SUBSET SbFiles]
            BY DEF FilesInv
        <3>2. sbLeft' = [sbLeft EXCEPT ![d] = @ \ {f}]
            BY <1>1 DEF CopyFile
        <3>3. sbSkipped' = [sbSkipped EXCEPT ![d] = @ \cup {f}] \/ sbSkipped' = sbSkipped
            BY <1>1 DEF CopyFile
        <3>4. sbLeft' \in [Dispatches -> SUBSET SbFiles]
            BY ONLY <3>1, <3>2, f \in SbFiles
        <3>5. sbSkipped' \in [Dispatches -> SUBSET SbFiles]
            BY ONLY <3>1, <3>3, f \in SbFiles
        <3>6. \A e \in Dispatches \ {d} : sbLeft'[e] = sbLeft[e] /\ sbSkipped'[e] = sbSkipped[e]
            BY ONLY <3>1, <3>2, <3>3
        <3> QED
            BY ONLY <3>4, <3>5, <3>6
    <2>3. sbSnap' \in [Dispatches -> [SbFiles -> Contents]] /\ \A e \in Dispatches \ {d} : sbSnap'[e] = sbSnap[e]
        <3>1. sbSnap \in [Dispatches -> [SbFiles -> Contents]] /\ sbDisk[f] \in Contents
            BY DEF FilesInv
        <3>2. sbSnap' = [sbSnap EXCEPT ![d][f] = sbDisk[f]] \/ sbSnap' = sbSnap
            BY <1>1 DEF CopyFile
        <3> QED
            BY ONLY <3>1, <3>2
    <2> QED
        BY <1>1, <2>1, <2>2, <2>3, TransactionMoves DEF CopyFile, FilesInv
<1>2. CASE RoleWrites(d, f)
    <2>1. TxHolds(d)'
        BY <1>2 DEF RoleWrites, FilesInv, TxHolds
    <2>2. sbDisk' \in [SbFiles -> Contents]
        BY <1>2 DEF RoleWrites, FilesInv
    <2> QED
        BY <1>2, <2>1, <2>2, TransactionMoves DEF RoleWrites, FilesInv
<1>3. CASE DeleteFile(d, f)
    <2>1. TxHolds(d)'
        BY <1>3 DEF DeleteFile, FilesInv, TxHolds
    <2>2. /\ sbDisk' \in [SbFiles -> Contents] /\ sbLeft' \in [Dispatches -> SUBSET SbFiles]
          /\ sbSkipped' \in [Dispatches -> SUBSET SbFiles]
          /\ \A e \in Dispatches \ {d} : sbLeft'[e] = sbLeft[e] /\ sbSkipped'[e] = sbSkipped[e]
        <3>1. sbLeft \in [Dispatches -> SUBSET SbFiles] /\ sbSkipped \in [Dispatches -> SUBSET SbFiles]
            BY DEF FilesInv
        <3>2. sbLeft' = [sbLeft EXCEPT ![d] = @ \ {f}]
            BY <1>3 DEF DeleteFile
        <3>3. sbSkipped' = [sbSkipped EXCEPT ![d] = @ \cup {f}] \/ sbSkipped' = sbSkipped
            BY <1>3 DEF DeleteFile
        <3>4. sbLeft' \in [Dispatches -> SUBSET SbFiles]
            BY ONLY <3>1, <3>2, f \in SbFiles
        <3>5. sbSkipped' \in [Dispatches -> SUBSET SbFiles]
            BY ONLY <3>1, <3>3, f \in SbFiles
        <3>6. \A e \in Dispatches \ {d} : sbLeft'[e] = sbLeft[e] /\ sbSkipped'[e] = sbSkipped[e]
            BY ONLY <3>1, <3>2, <3>3
        <3>7. sbDisk' \in [SbFiles -> Contents]
            BY <1>3 DEF DeleteFile, FilesInv
        <3> QED
            BY ONLY <3>4, <3>5, <3>6, <3>7
    <2> QED
        BY <1>3, <2>1, <2>2, TransactionMoves DEF DeleteFile, FilesInv
<1>4. CASE RestoreFile(d, f)
    <2>1. TxHolds(d)'
        BY <1>4 DEF RestoreFile, FilesInv, TxHolds
    <2>2. /\ sbDisk' \in [SbFiles -> Contents] /\ sbLeft' \in [Dispatches -> SUBSET SbFiles]
          /\ sbSkipped' \in [Dispatches -> SUBSET SbFiles]
          /\ \A e \in Dispatches \ {d} : sbLeft'[e] = sbLeft[e] /\ sbSkipped'[e] = sbSkipped[e]
        <3>1. sbLeft \in [Dispatches -> SUBSET SbFiles] /\ sbSkipped \in [Dispatches -> SUBSET SbFiles]
            BY DEF FilesInv
        <3>2. sbLeft' = [sbLeft EXCEPT ![d] = @ \ {f}]
            BY <1>4 DEF RestoreFile
        <3>3. sbSkipped' = [sbSkipped EXCEPT ![d] = @ \cup {f}] \/ sbSkipped' = sbSkipped
            BY <1>4 DEF RestoreFile
        <3>4. sbLeft' \in [Dispatches -> SUBSET SbFiles]
            BY ONLY <3>1, <3>2, f \in SbFiles
        <3>5. sbSkipped' \in [Dispatches -> SUBSET SbFiles]
            BY ONLY <3>1, <3>3, f \in SbFiles
        <3>6. \A e \in Dispatches \ {d} : sbLeft'[e] = sbLeft[e] /\ sbSkipped'[e] = sbSkipped[e]
            BY ONLY <3>1, <3>2, <3>3
        <3>7. sbDisk \in [SbFiles -> Contents] /\ sbSnap[d][f] \in Contents
            BY DEF FilesInv
        <3>8. sbDisk' = [sbDisk EXCEPT ![f] = sbSnap[d][f]] \/ sbDisk' = sbDisk
            BY <1>4 DEF RestoreFile
        <3>9. sbDisk' \in [SbFiles -> Contents]
            BY ONLY <3>7, <3>8
        <3> QED
            BY ONLY <3>4, <3>5, <3>6, <3>9
    <2> QED
        BY <1>4, <2>1, <2>2, TransactionMoves DEF RestoreFile, FilesInv
<1> QED
    BY <1>1, <1>2, <1>3, <1>4

LEMMA FilesStart == SandboxInit => FilesInv
<1> SUFFICES ASSUME SandboxInit PROVE FilesInv
    OBVIOUS
<1> QED
    BY DEF SandboxInit, FilesInv, TxHolds, TxPlaces, Contents, NoCopies

LEMMA FilesStepKeeps ==
    ASSUME FilesInv, FileNext \/ UNCHANGED fileVars
    PROVE  /\ FilesInv'
           /\ \A d \in Dispatches : sbTx[d] = "restoring" /\ sbTx'[d] = "undone" =>
                 \A f \in Answerable(d) : sbDisk'[f] = sbEntry[d][f]
<1>1. CASE UNCHANGED fileVars
    BY <1>1 DEF fileVars, FilesInv, TxHolds, Answerable
<1>2. CASE FileNext
    <2>1. FilesInv'
        BY <1>2, PhasesKeepFiles, FileStepsKeepFiles DEF FileNext
    <2>2. ASSUME NEW d \in Dispatches, sbTx[d] = "restoring", sbTx'[d] = "undone"
          PROVE  RollbackEnds(d)
        BY <1>2, <2>2 DEF FileNext, EnterTx, SnapshotTaken, CommitTx, BeginRollback, AllDeleted, RollbackEnds,
           TxDies, CopyFile, RoleWrites, DeleteFile, RestoreFile, FilesInv, FirstRollbackPhase
    <2>3. ASSUME NEW d \in Dispatches, RollbackEnds(d), NEW f \in Answerable(d)
          PROVE  sbDisk'[f] = sbEntry[d][f]
        BY <2>3, FileTypes DEF RollbackEnds, TxHolds, Answerable
    <2> QED
        BY <2>1, <2>2, <2>3
<1> QED
    BY <1>1, <1>2

-----------------------------------------------------------------------------
(* The Responses gateway. *)

LEMMA LeastOf ==
    ASSUME NEW S \in SUBSET Nat, S # {}
    PROVE  Min(S) \in S /\ \A y \in S : Min(S) <= y
<1>1. PICK x \in S : \A y \in S : ~(<<y, x>> \in OpToRel(<, Nat))
    BY NatLessThanWellFounded, WFMin
<1>2. \A y \in S : ~(y < x)
    BY <1>1 DEF OpToRel
<1>3. \A y \in S : x <= y
    BY <1>2
<1> QED
    BY <1>3 DEF Min

Opened == <<"created", "item_added">>
FailedOver == <<"created", "item_added", "failover">>
Ended(s) == s \in {<<"created", "item_added", "content", "item_done", "completed">>,
                   <<"created", "item_added", "failover", "content", "item_done", "completed">>}
Broken(s) == s \in {<<"created", "item_added", "error">>, <<"created", "item_added", "failover", "error">>}

\* The place of a request tells what its stream has shown.
RespHolds(r) ==
    LET pc == respPc[r]
        s == respEvents[r]
    IN  /\ pc \in {"new", "refused", "calling", "fallback", "deliver", "gone", "failed", "completed"}
        /\ pc \in {"new", "refused"} => s = << >> /\ respReq[r].fallback = "none"
        /\ pc = "calling" => s = Opened /\ respReq[r].fallback = "none"
        /\ pc = "fallback" => s = FailedOver
        /\ pc \in {"deliver", "gone"} => s \in {Opened, FailedOver}
        /\ pc = "failed" => Broken(s)
        /\ pc = "completed" => Ended(s)
        /\ pc \notin {"new", "refused"} => respReq[r].acct \in Ids
        /\ respReq[r].fallback # "none" => respReq[r].fallback # respReq[r].provider
        /\ pc = "completed" <=> \E i \in Ids : <<r, i>> \in telemetry

RespRecord == [provider : Providers \cup {"none"}, acct : Ids \cup {None},
               fallback : Providers \cup {"none", "another", DefaultProvider}]

RespInv ==
    /\ DOMAIN respPc = RespRequests /\ DOMAIN respEvents = RespRequests
    /\ respReq \in [RespRequests -> RespRecord]
    /\ \A r \in RespRequests : RespHolds(r)

LEMMA AccountsAreNumbered == Ids \in SUBSET Nat
BY ResponsesAssumption DEF Ids

LEMMA AnAccountIsChosen ==
    ASSUME NEW r, NEW p, Candidates(r) # {}
    PROVE  GetAvailableAccount(r, p) \in Ids
<1>1. \A S \in SUBSET Ids : S # {} => ActiveOrFirst(S) \in Ids
    <2> SUFFICES ASSUME NEW S \in SUBSET Ids, S # {}
                 PROVE  ActiveOrFirst(S) \in Ids
        OBVIOUS
    <2>1. \A T \in SUBSET Ids : T # {} => Min(T) \in Ids
        BY AccountsAreNumbered, LeastOf
    <2>2. {i \in S : Accts[i].isActive} \in SUBSET Ids
        OBVIOUS
    <2> QED
        BY <2>1, <2>2 DEF ActiveOrFirst
<1>2. Candidates(r) \in SUBSET Ids /\ {i \in Candidates(r) : Accts[i].provider = p} \in SUBSET Ids
    BY DEF Candidates
<1> QED
    BY <1>1, <1>2 DEF GetAvailableAccount

LEMMA TheFallbackIsNamed ==
    ASSUME NEW r, NEW failed, NEW p
    PROVE  FallbackProvider(r, failed, p) \in Providers \cup {"none", "another", DefaultProvider}
<1>1. \A T \in SUBSET Ids : T # {} => Min(T) \in Ids
    BY AccountsAreNumbered, LeastOf
<1>2. FallbackAccount(r, failed, p) \in Ids \cup {None}
    <2> DEFINE others == Candidates(r) \ {failed}
               alt == {i \in others : Accts[i].provider # p}
    <2>1. others \in SUBSET Ids /\ alt \in SUBSET Ids
        BY DEF Candidates
    <2>2. FallbackAccount(r, failed, p) = IF alt # {} THEN Min(alt) ELSE IF others # {} THEN Min(others) ELSE None
        BY DEF FallbackAccount
    <2> HIDE DEF alt, others
    <2> QED
        BY <1>1, <2>1, <2>2
<1>3. \A i \in Ids : Accts[i].provider \in Providers
    <2> DEFINE R == [provider : Providers, isActive : BOOLEAN]
    <2>1. Accts \in Seq(R)
        BY ResponsesAssumption
    <2> HIDE DEF R
    <2>2. \A i \in Ids : Accts[i] \in R
        BY <2>1 DEF Ids
    <2> QED
        BY <2>2 DEF R
<1> QED
    BY <1>2, <1>3 DEF FallbackProvider

\* A step of one request leaves the others where they are.
OnlyMoves(r) ==
    /\ DOMAIN respPc' = RespRequests /\ DOMAIN respEvents' = RespRequests
    /\ respReq' \in [RespRequests -> RespRecord]
    /\ \A t \in RespRequests \ {r} :
          /\ respPc'[t] = respPc[t] /\ respEvents'[t] = respEvents[t] /\ respReq'[t] = respReq[t]
          /\ \A i \in Ids : <<t, i>> \in telemetry' <=> <<t, i>> \in telemetry

LEMMA RequestMoves ==
    ASSUME RespInv, NEW r \in RespRequests, OnlyMoves(r), RespHolds(r)'
    PROVE  RespInv'
<1>1. \A t \in RespRequests \ {r} : RespHolds(t)'
    <2> TAKE t \in RespRequests \ {r}
    <2>1. RespHolds(t)
        BY DEF RespInv
    <2>2. /\ respPc'[t] = respPc[t] /\ respEvents'[t] = respEvents[t] /\ respReq'[t] = respReq[t]
          /\ \A i \in Ids : <<t, i>> \in telemetry' <=> <<t, i>> \in telemetry
        BY DEF OnlyMoves
    <2> QED
        BY <2>1, <2>2, Zenon DEF RespHolds, Ids
<1> QED
    BY <1>1 DEF RespInv, OnlyMoves

LEMMA ShortTuples ==
    ASSUME NEW S, NEW a \in S, NEW b \in S, NEW c \in S
    PROVE  /\ <<a>> \in Seq(S) /\ Len(<<a>>) = 1 /\ <<a>>[1] = a
           /\ <<a, b>> \in Seq(S) /\ Len(<<a, b>>) = 2 /\ <<a, b>>[1] = a /\ <<a, b>>[2] = b
           /\ <<a, b, c>> \in Seq(S) /\ Len(<<a, b, c>>) = 3
           /\ <<a, b, c>>[1] = a /\ <<a, b, c>>[2] = b /\ <<a, b, c>>[3] = c
<1>1. <<a>> \in [1 .. 1 -> S] /\ <<a, b>> \in [1 .. 2 -> S] /\ <<a, b, c>> \in [1 .. 3 -> S]
    OBVIOUS
<1>2. <<a>> \in Seq(S) /\ <<a, b>> \in Seq(S) /\ <<a, b, c>> \in Seq(S)
    BY <1>1, SeqDef
<1> QED
    BY <1>2

LEMMA JoinedElements ==
    ASSUME NEW S, NEW u \in Seq(S), NEW t \in Seq(S), Len(u) \in {2, 3}, Len(t) \in {1, 3}
    PROVE  /\ u \o t \in Seq(S) /\ Len(u \o t) = Len(u) + Len(t)
           /\ (u \o t)[1] = u[1] /\ (u \o t)[2] = u[2]
           /\ Len(u) = 2 => (u \o t)[3] = t[1] /\ (Len(t) = 3 => (u \o t)[4] = t[2] /\ (u \o t)[5] = t[3])
           /\ Len(u) = 3 => (u \o t)[3] = u[3] /\ (u \o t)[4] = t[1] /\ (Len(t) = 3 => (u \o t)[5] = t[2] /\ (u \o t)[6] = t[3])
<1>1. /\ u \o t \in Seq(S) /\ Len(u \o t) = Len(u) + Len(t)
      /\ \A k \in 1 .. Len(u) + Len(t) : (u \o t)[k] = IF k <= Len(u) THEN u[k] ELSE t[k - Len(u)]
    BY ConcatProperties
<1>2. CASE Len(u) = 2
    BY <1>1, <1>2
<1>3. CASE Len(u) = 3
    BY <1>1, <1>3
<1> QED
    BY <1>1, <1>2, <1>3

LEMMA Join2And1 ==
    ASSUME NEW S, NEW a \in S, NEW b \in S, NEW c \in S
    PROVE  <<a, b>> \o <<c>> = <<a, b, c>>
<1> PICK x : x = <<a, b>>
    OBVIOUS
<1> PICK y : y = <<c>>
    OBVIOUS
<1> PICK u : u = x \o y
    OBVIOUS
<1>1. /\ x \in Seq(S) /\ Len(x) = 2 /\ x[1] = a /\ x[2] = b
      /\ y \in Seq(S) /\ Len(y) = 1 /\ y[1] = c
    BY ShortTuples
<1>2. u \in Seq(S) /\ Len(u) = 3 /\ u[1] = a /\ u[2] = b /\ u[3] = c
    BY <1>1, JoinedElements
<1>3. u = <<a, b, c>>
    BY ONLY <1>2
<1> QED
    BY ONLY <1>3, u = x \o y, x = <<a, b>>, y = <<c>>

LEMMA Join3And1 ==
    ASSUME NEW S, NEW a \in S, NEW b \in S, NEW c \in S, NEW d \in S
    PROVE  <<a, b, c>> \o <<d>> = <<a, b, c, d>>
<1> PICK x : x = <<a, b, c>>
    OBVIOUS
<1> PICK y : y = <<d>>
    OBVIOUS
<1> PICK u : u = x \o y
    OBVIOUS
<1>1. /\ x \in Seq(S) /\ Len(x) = 3 /\ x[1] = a /\ x[2] = b /\ x[3] = c
      /\ y \in Seq(S) /\ Len(y) = 1 /\ y[1] = d
    BY ShortTuples
<1>2. u \in Seq(S) /\ Len(u) = 4 /\ u[1] = a /\ u[2] = b /\ u[3] = c /\ u[4] = d
    BY <1>1, JoinedElements
<1>3. u = <<a, b, c, d>>
    BY ONLY <1>2
<1> QED
    BY ONLY <1>3, u = x \o y, x = <<a, b, c>>, y = <<d>>

LEMMA Join2And3 ==
    ASSUME NEW S, NEW a \in S, NEW b \in S, NEW c \in S, NEW d \in S, NEW e \in S
    PROVE  <<a, b>> \o <<c, d, e>> = <<a, b, c, d, e>>
<1> PICK x : x = <<a, b>>
    OBVIOUS
<1> PICK y : y = <<c, d, e>>
    OBVIOUS
<1> PICK u : u = x \o y
    OBVIOUS
<1>1. /\ x \in Seq(S) /\ Len(x) = 2 /\ x[1] = a /\ x[2] = b
      /\ y \in Seq(S) /\ Len(y) = 3 /\ y[1] = c /\ y[2] = d /\ y[3] = e
    BY ShortTuples
<1>2. u \in Seq(S) /\ Len(u) = 5 /\ u[1] = a /\ u[2] = b /\ u[3] = c /\ u[4] = d /\ u[5] = e
    BY <1>1, JoinedElements
<1>3. u = <<a, b, c, d, e>>
    BY ONLY <1>2
<1> QED
    BY ONLY <1>3, u = x \o y, x = <<a, b>>, y = <<c, d, e>>

LEMMA Join3And3 ==
    ASSUME NEW S, NEW a \in S, NEW b \in S, NEW c \in S, NEW d \in S, NEW e \in S, NEW f \in S
    PROVE  <<a, b, c>> \o <<d, e, f>> = <<a, b, c, d, e, f>>
<1> PICK x : x = <<a, b, c>>
    OBVIOUS
<1> PICK y : y = <<d, e, f>>
    OBVIOUS
<1> PICK u : u = x \o y
    OBVIOUS
<1>1. /\ x \in Seq(S) /\ Len(x) = 3 /\ x[1] = a /\ x[2] = b /\ x[3] = c
      /\ y \in Seq(S) /\ Len(y) = 3 /\ y[1] = d /\ y[2] = e /\ y[3] = f
    BY ShortTuples
<1>2. u \in Seq(S) /\ Len(u) = 6 /\ u[1] = a /\ u[2] = b /\ u[3] = c /\ u[4] = d /\ u[5] = e /\ u[6] = f
    BY <1>1, JoinedElements
<1>3. u = <<a, b, c, d, e, f>>
    BY ONLY <1>2
<1> QED
    BY ONLY <1>3, u = x \o y, x = <<a, b, c>>, y = <<d, e, f>>

RespEventNames == {"created", "item_added", "failover", "error", "content", "item_done", "completed"}

\* The streams, joined as Emit joins them.
LEMMA StreamsJoin ==
    /\ << >> \o <<"created", "item_added">> = Opened
    /\ Opened \o <<"failover">> = FailedOver
    /\ Broken(Opened \o <<"error">>) /\ Broken(FailedOver \o <<"error">>)
    /\ Ended(Opened \o <<"content", "item_done", "completed">>)
    /\ Ended(FailedOver \o <<"content", "item_done", "completed">>)
<1>1. /\ "created" \in RespEventNames /\ "item_added" \in RespEventNames /\ "failover" \in RespEventNames
      /\ "error" \in RespEventNames /\ "content" \in RespEventNames /\ "item_done" \in RespEventNames
      /\ "completed" \in RespEventNames
    BY DEF RespEventNames
<1>2. << >> \o <<"created", "item_added">> = Opened
    BY DEF Opened
<1>3. Opened \o <<"failover">> = FailedOver /\ Broken(Opened \o <<"error">>)
    BY <1>1, Join2And1 DEF Opened, FailedOver, Broken
<1>4. Broken(FailedOver \o <<"error">>)
    BY <1>1, Join3And1 DEF FailedOver, Broken
<1>5. Ended(Opened \o <<"content", "item_done", "completed">>)
    BY <1>1, Join2And3 DEF Opened, Ended
<1>6. Ended(FailedOver \o <<"content", "item_done", "completed">>)
    BY <1>1, Join3And3 DEF FailedOver, Ended
<1> QED
    BY <1>2, <1>3, <1>4, <1>5, <1>6

LEMMA OneOccurrence ==
    ASSUME NEW s, NEW x, NEW n \in Nat, DOMAIN s = 1 .. n, NEW k \in 1 .. n, \A i \in 1 .. n : s[i] = x => i = k
    PROVE  Count(s, x) = IF s[k] = x THEN 1 ELSE 0
<1>1. CASE s[k] = x
    <2>1. {i \in DOMAIN s : s[i] = x} = {k}
        BY <1>1
    <2> QED
        BY <1>1, <2>1, FS_Singleton DEF Count
<1>2. CASE s[k] # x
    <2>1. {i \in DOMAIN s : s[i] = x} = {}
        BY <1>2
    <2> QED
        BY <1>2, <2>1, FS_EmptySet DEF Count
<1> QED
    BY <1>1, <1>2

\* A stream that opens once, fails over at most once and ends with its end.
Shaped(s, n) ==
    /\ s \in Seq(RespEventNames) /\ Len(s) = n
    /\ s[1] = "created" /\ s[2] = "item_added"
    /\ \A i \in 3 .. n : s[i] # "created" /\ (s[i] = "failover" => i = 3) /\ (s[i] \in {"completed", "error"} => i = n)

LEMMA ShapedIsWhole ==
    ASSUME NEW s, NEW n \in Nat, n >= 2, Shaped(s, n)
    PROVE  /\ s # << >> /\ SubSeq(s, 1, 2) = <<"created", "item_added">> /\ Count(s, "created") = 1
           /\ Count(s, "failover") <= 1
           /\ Count(s, "completed") + Count(s, "error") <= 1
           /\ Count(s, "completed") = IF s[n] = "completed" THEN 1 ELSE 0
<1>1. DOMAIN s = 1 .. n /\ 1 \in 1 .. n /\ n \in 1 .. n /\ 2 \in 1 .. n
    BY DEF Shaped
<1>2. \A i \in 1 .. n : i = 1 \/ i = 2 \/ i \in 3 .. n
    OBVIOUS
<1>3. Count(s, "created") = 1
    BY <1>1, <1>2, OneOccurrence DEF Shaped
<1>4. Count(s, "failover") <= 1
    <2>1. CASE n = 2
        <3>1. \A i \in 1 .. n : s[i] # "failover"
            BY <1>2, <2>1 DEF Shaped
        <3> QED
            BY <1>1, <3>1, OneOccurrence
    <2>2. CASE n >= 3
        <3>1. 3 \in 1 .. n /\ \A i \in 1 .. n : s[i] = "failover" => i = 3
            BY <1>2, <2>2 DEF Shaped
        <3> QED
            BY <1>1, <3>1, OneOccurrence
    <2> QED
        BY <2>1, <2>2
<1>5. /\ Count(s, "completed") = IF s[n] = "completed" THEN 1 ELSE 0
      /\ Count(s, "error") = IF s[n] = "error" THEN 1 ELSE 0
    <2>1. \A i \in 1 .. n : s[i] \in {"completed", "error"} => i = n
        BY <1>2 DEF Shaped
    <2> QED
        BY <1>1, <2>1, OneOccurrence
<1>6. SubSeq(s, 1, 2) = <<"created", "item_added">>
    <2>1. \A i \in 1 .. 2 : s[i] \in RespEventNames
        BY <1>1 DEF Shaped
    <2>2. /\ SubSeq(s, 1, 2) \in Seq(RespEventNames) /\ Len(SubSeq(s, 1, 2)) = (IF 1 <= 2 THEN 2 - 1 + 1 ELSE 0)
          /\ \A i \in 1 .. 2 - 1 + 1 : SubSeq(s, 1, 2)[i] = s[1 + i - 1]
        BY <2>1, SubSeqProperties
    <2> PICK u : u = SubSeq(s, 1, 2)
        OBVIOUS
    <2>3. u \in Seq(RespEventNames) /\ Len(u) = 2 /\ u[1] = "created" /\ u[2] = "item_added"
        BY <2>2 DEF Shaped
    <2>4. u = <<"created", "item_added">>
        BY ONLY <2>3
    <2> QED
        BY <2>4
<1>7. s # << >>
    BY <1>1 DEF Shaped
<1> QED
    BY <1>3, <1>4, <1>5, <1>6, <1>7

LEMMA StreamsAreShaped ==
    /\ Shaped(Opened, 2) /\ Shaped(FailedOver, 3)
    /\ \A s : Broken(s) => \E n \in {3, 4} : Shaped(s, n) /\ s[n] = "error"
    /\ \A s : Ended(s) => \E n \in {5, 6} : Shaped(s, n) /\ s[n] = "completed"
<1>1. Shaped(<<"created", "item_added">>, 2)
    <2>1. <<"created", "item_added">> \in [1 .. 2 -> RespEventNames]
        BY DEF RespEventNames
    <2>2. <<"created", "item_added">> \in Seq(RespEventNames)
        BY <2>1, SeqDef
    <2> QED
        BY <2>2 DEF Shaped
<1>2. Shaped(<<"created", "item_added", "failover">>, 3)
    <2>1. <<"created", "item_added", "failover">> \in [1 .. 3 -> RespEventNames]
        BY DEF RespEventNames
    <2>2. <<"created", "item_added", "failover">> \in Seq(RespEventNames)
        BY <2>1, SeqDef
    <2> QED
        BY <2>2 DEF Shaped
<1>3. Shaped(<<"created", "item_added", "error">>, 3)
    <2>1. <<"created", "item_added", "error">> \in [1 .. 3 -> RespEventNames]
        BY DEF RespEventNames
    <2>2. <<"created", "item_added", "error">> \in Seq(RespEventNames)
        BY <2>1, SeqDef
    <2> QED
        BY <2>2 DEF Shaped
<1>4. Shaped(<<"created", "item_added", "failover", "error">>, 4)
    <2>1. <<"created", "item_added", "failover", "error">> \in [1 .. 4 -> RespEventNames]
        BY DEF RespEventNames
    <2>2. <<"created", "item_added", "failover", "error">> \in Seq(RespEventNames)
        BY <2>1, SeqDef
    <2> QED
        BY <2>2 DEF Shaped
<1>5. Shaped(<<"created", "item_added", "content", "item_done", "completed">>, 5)
    <2>1. <<"created", "item_added", "content", "item_done", "completed">> \in [1 .. 5 -> RespEventNames]
        BY DEF RespEventNames
    <2>2. <<"created", "item_added", "content", "item_done", "completed">> \in Seq(RespEventNames)
        BY <2>1, SeqDef
    <2> QED
        BY <2>2 DEF Shaped
<1>6. Shaped(<<"created", "item_added", "failover", "content", "item_done", "completed">>, 6)
    <2>1. <<"created", "item_added", "failover", "content", "item_done", "completed">> \in [1 .. 6 -> RespEventNames]
        BY DEF RespEventNames
    <2>2. <<"created", "item_added", "failover", "content", "item_done", "completed">> \in Seq(RespEventNames)
        BY <2>1, SeqDef
    <2> QED
        BY <2>2 DEF Shaped
<1> QED
    BY <1>1, <1>2, <1>3, <1>4, <1>5, <1>6 DEF Opened, FailedOver, Broken, Ended

LEMMA RespInvGives == RespInv => StreamsAreWellFormed
<1> SUFFICES ASSUME RespInv, NEW r \in RespRequests
             PROVE  LET s == respEvents[r] IN
                    /\ s # <<>> => SubSeq(s, 1, 2) = <<"created", "item_added">> /\ Count(s, "created") = 1
                    /\ Count(s, "failover") <= 1
                    /\ Count(s, "completed") + Count(s, "error") <= 1
                    /\ Count(s, "completed") = 1 <=> \E i \in Ids : <<r, i>> \in telemetry
                    /\ respReq[r].fallback # "none" => respReq[r].fallback # respReq[r].provider
    BY DEF StreamsAreWellFormed
<1>1. RespHolds(r)
    BY DEF RespInv
<1>2. CASE respEvents[r] = << >>
    <2>1. \A x : Count(<< >>, x) = 0
        <3>1. \A x : {i \in DOMAIN << >> : << >>[i] = x} = {}
            OBVIOUS
        <3> QED
            BY <3>1, FS_EmptySet DEF Count
    <2>2. respPc[r] # "completed"
        <3>1. ~Ended(<< >>)
            BY StreamsAreShaped, ShapedIsWhole
        <3> QED
            BY <1>1, <1>2, <3>1 DEF RespHolds
    <2> QED
        BY <1>1, <1>2, <2>1, <2>2 DEF RespHolds
<1>3. CASE respEvents[r] # << >>
    <2>1. /\ respPc[r] # "completed" => respEvents[r] \in {Opened, FailedOver} \/ Broken(respEvents[r])
          /\ respPc[r] = "completed" => Ended(respEvents[r])
        BY <1>1, <1>3 DEF RespHolds
    <2>2. \E n \in 2 .. 6 : Shaped(respEvents[r], n) /\ (respEvents[r][n] = "completed" <=> respPc[r] = "completed")
        <3>1. Opened[2] = "item_added" /\ FailedOver[3] = "failover"
            BY DEF Opened, FailedOver
        <3> QED
            BY <2>1, <3>1, StreamsAreShaped
    <2> QED
        BY <1>1, <2>2, ShapedIsWhole DEF RespHolds
<1> QED
    BY <1>2, <1>3

LEMMA RespStepKeeps == ASSUME RespInv, RespNext \/ UNCHANGED respVars PROVE RespInv'
<1>1. CASE UNCHANGED respVars \/ RespTick
    <2>1. UNCHANGED <<respPc, respReq, respEvents, telemetry>>
        BY <1>1 DEF respVars, RespTick
    <2> QED
        BY <2>1 DEF RespInv, RespHolds, Ids
<1>2. ASSUME NEW r \in RespRequests, RespStep(r)
      PROVE  RespInv'
    <2>1. /\ respReq[r] \in RespRecord /\ RespHolds(r) /\ DOMAIN respPc = RespRequests /\ DOMAIN respEvents = RespRequests
          /\ DOMAIN respReq = RespRequests /\ respReq \in [RespRequests -> RespRecord]
        BY DEF RespInv
    <2>2. ASSUME NEW p \in Providers, RespBegin(r, p)
          PROVE  RespInv'
        <3> DEFINE q == [respReq[r] EXCEPT !.provider = p, !.acct = GetAvailableAccount(r, p)]
        <3>1. GetAvailableAccount(r, p) \in Ids
            BY <2>2, AnAccountIsChosen DEF RespBegin
        <3>2. q \in RespRecord /\ q.acct \in Ids /\ q.fallback = respReq[r].fallback
            BY <2>1, <3>1 DEF RespRecord
        <3>3. respReq' = [respReq EXCEPT ![r] = q]
            BY <2>1, <2>2 DEF RespBegin
        <3>4. respPc[r] = "new" /\ respEvents[r] = << >> /\ respReq[r].fallback = "none"
            BY <2>1, <2>2 DEF RespBegin, RespHolds
        <3>5. respPc' = [respPc EXCEPT ![r] = "calling"] /\ respEvents' = [respEvents EXCEPT ![r] = Opened] /\ telemetry' = telemetry \cup {}
            BY <2>2, <3>4, StreamsJoin DEF RespBegin, RespGoto, Emit
        <3>6. RespHolds(r)'
            BY <2>1, <3>2, <3>3, <3>4, <3>5 DEF RespHolds, Ids
        <3> HIDE DEF q
        <3>7. OnlyMoves(r)
            BY <2>1, <3>2, <3>3, <3>5 DEF OnlyMoves
        <3> QED
            BY <3>6, <3>7, RequestMoves
    <2>3. CASE Exhausted(r)
        <3>1. respPc' = [respPc EXCEPT ![r] = "refused"] /\ UNCHANGED <<respReq, respEvents, telemetry>> /\ respPc[r] = "new"
            BY <2>3 DEF Exhausted, RespGoto
        <3>2. RespHolds(r)'
            BY <2>1, <3>1 DEF RespHolds, Ids
        <3>3. OnlyMoves(r)
            BY <2>1, <3>1 DEF OnlyMoves
        <3> QED
            BY <3>2, <3>3, RequestMoves
    <2>4. CASE RespAnswers(r)
        <3>1. respPc' = [respPc EXCEPT ![r] = "deliver"] /\ UNCHANGED <<respReq, respEvents, telemetry>> /\ respPc[r] \in {"calling", "fallback"}
            BY <2>4 DEF RespAnswers, RespGoto
        <3>2. RespHolds(r)'
            BY <2>1, <3>1 DEF RespHolds, Ids
        <3>3. OnlyMoves(r)
            BY <2>1, <3>1 DEF OnlyMoves
        <3> QED
            BY <3>2, <3>3, RequestMoves
    <2>5. CASE Disconnects(r)
        <3>1. respPc' = [respPc EXCEPT ![r] = "gone"] /\ UNCHANGED <<respReq, respEvents, telemetry>> /\ respPc[r] \in {"calling", "deliver"}
            BY <2>5 DEF Disconnects, RespGoto
        <3>2. RespHolds(r)'
            BY <2>1, <3>1 DEF RespHolds, Ids
        <3>3. OnlyMoves(r)
            BY <2>1, <3>1 DEF OnlyMoves
        <3> QED
            BY <3>2, <3>3, RequestMoves
    <2>6. CASE FailsOver(r)
        <3> DEFINE fb == FallbackProvider(r, respReq[r].acct, respReq[r].provider)
                   q == [respReq[r] EXCEPT !.fallback = fb]
        <3>1. /\ respPc[r] = "calling" /\ fb # respReq[r].provider /\ respReq' = [respReq EXCEPT ![r].fallback = fb]
              /\ respPc' = [respPc EXCEPT ![r] = "fallback"] /\ respEvents' = [respEvents EXCEPT ![r] = respEvents[r] \o <<"failover">>]
              /\ telemetry' = telemetry \cup {}
            BY <2>6 DEF FailsOver, RespGoto, Emit
        <3>2. fb \in Providers \cup {"none", "another", DefaultProvider}
            BY TheFallbackIsNamed
        <3> HIDE DEF fb
        <3>3. q \in RespRecord /\ q.fallback = fb /\ q.acct = respReq[r].acct /\ q.provider = respReq[r].provider /\ respReq' = [respReq EXCEPT ![r] = q]
            BY <2>1, <3>1, <3>2 DEF RespRecord
        <3> HIDE DEF q
        <3>4. respEvents' = [respEvents EXCEPT ![r] = FailedOver]
            BY <2>1, <3>1, StreamsJoin DEF RespHolds
        <3>5. RespHolds(r)'
            BY <2>1, <3>1, <3>3, <3>4 DEF RespHolds, Ids
        <3>6. OnlyMoves(r)
            BY <2>1, <3>1, <3>3, <3>4 DEF OnlyMoves
        <3> QED
            BY <3>5, <3>6, RequestMoves
    <2>7. CASE FailsAlone(r) \/ FallbackFails(r)
        <3>1. /\ respPc[r] \in {"calling", "fallback"} /\ UNCHANGED <<respReq, telemetry>>
              /\ respPc' = [respPc EXCEPT ![r] = "failed"] /\ respEvents' = [respEvents EXCEPT ![r] = respEvents[r] \o <<"error">>]
            BY <2>7 DEF FailsAlone, FallbackFails, RespGoto, Emit
        <3>2. Broken(respEvents'[r])
            BY <2>1, <3>1, StreamsJoin DEF RespHolds
        <3>3. RespHolds(r)'
            BY <2>1, <3>1, <3>2 DEF RespHolds, Ids
        <3>4. OnlyMoves(r)
            BY <2>1, <3>1 DEF OnlyMoves
        <3> QED
            BY <3>3, <3>4, RequestMoves
    <2>8. CASE Deliver(r)
        <3>1. /\ respPc[r] = "deliver" /\ UNCHANGED respReq
              /\ telemetry' = telemetry \cup {<<r, respReq[r].acct>>}
              /\ respPc' = [respPc EXCEPT ![r] = "completed"]
              /\ respEvents' = [respEvents EXCEPT ![r] = respEvents[r] \o <<"content", "item_done", "completed">>]
            BY <2>8 DEF Deliver, RespGoto, Emit
        <3>2. Ended(respEvents'[r])
            BY <2>1, <3>1, StreamsJoin DEF RespHolds
        <3>3. RespHolds(r)'
            BY <2>1, <3>1, <3>2 DEF RespHolds, Ids
        <3>4. OnlyMoves(r)
            BY <2>1, <3>1 DEF OnlyMoves
        <3> QED
            BY <3>3, <3>4, RequestMoves
    <2> QED
        BY <1>2, <2>2, <2>3, <2>4, <2>5, <2>6, <2>7, <2>8 DEF RespStep
<1> QED
    BY <1>1, <1>2 DEF RespNext

LEMMA RespStarts == RespInit => RespInv
BY DEF RespInit, RespInv, RespHolds, RespRecord, Ids

-----------------------------------------------------------------------------
(* The coding pipeline. *)

PlStatuses == {"NOT_RUN", "BLOCKED", "FAIL", "PASS"}
PlanRecords == [id : Nat, origin : Nat, token : Tokens]
TaskRecords == [req : Requests, plan : PlanRecords \cup {NoPlan}, status : PlStatuses]
ExecPlaces == {"worktree", "mutate", "ladder", "heal", "recollect", "commit", "publish", "done"}
ExecRecords == [task : PlTasks, req : Requests, plan : PlanRecords, pc : ExecPlaces, run : 1 .. MaxRuns,
                branch : Branches, content : Nat, receipts : {"none", "pass", "fail"}, healed : Nat,
                status : PlStatuses]

PipeTypes ==
    /\ plReg \in [PlTasks -> TaskRecords \cup {NoRec}] /\ plDb \in [PlTasks -> TaskRecords \cup {NoRec}]
    /\ plSess \in [PlTasks -> {"absent", "open", "failed", "completed"}]
    /\ plExec \in ExecRecords \cup {Idle}
    /\ plRuns \in 0 .. MaxRuns /\ plPlans \in 0 .. MaxPlans
    /\ plMerge \in [outcome : {"new", "merging", "merged", "failed"}, merged : SUBSET PlRoles, here : BOOLEAN]

\* A branch of a session has the number of a past execution.
GitHolds ==
    /\ plTips = [b \in DOMAIN plTips |-> plTips[b]]
    /\ DOMAIN plTips \subseteq {Target} \cup 1 .. plRuns
    /\ plOut \subseteq DOMAIN plTips
    /\ plMerge.here => Target \in plOut

\* An approval is a human's, and a pass has its pull request.
PlanHolds(plan) == plan # NoPlan /\ plan.token = "human" => plan.origin \in plApproved
PassHolds(t, rec) == rec.status = "PASS" => \E pr \in plPrs : pr.task = t
RecordHolds(t, rec) == rec # NoRec => PlanHolds(rec.plan) /\ PassHolds(t, rec)

\* What an execution may rely on at its place.  Its branch stays empty until
\* the commit: that is why a rollback takes no commit away.
ExecHolds ==
    plExec # Idle =>
        /\ plReg[plExec.task] # NoRec /\ plMerge.outcome # "merging"
        /\ plExec.healed <= plExec.req.heal /\ PassHolds(plExec.task, plExec)
        /\ plExec.pc # "done" => plExec.plan.origin \in plApproved
        /\ plExec.pc \in {"recollect", "commit", "publish"} => <<plExec.run, plExec.content>> \in plVerified
        /\ plExec.pc = "worktree" => plExec.run \notin DOMAIN plTips /\ plExec.run <= plRuns
        /\ plExec.pc \in {"mutate", "ladder", "heal", "recollect", "commit"} =>
              plExec.branch \in DOMAIN plTips /\ plTips[plExec.branch] = {}

PipeInv ==
    /\ PipeTypes /\ GitHolds /\ ExecHolds /\ PublishedWasVerified
    /\ \A t \in PlTasks : RecordHolds(t, plReg[t]) /\ RecordHolds(t, plDb[t])

LEMMA PipeInvGives == PipeInv => PublishedWasVerified /\ PassMeansPublished /\ PlTypeOK
<1> SUFFICES ASSUME PipeInv PROVE PublishedWasVerified /\ PassMeansPublished /\ PlTypeOK
    OBVIOUS
<1>1. PassMeansPublished
    BY DEF PipeInv, PassMeansPublished, RecordHolds, PassHolds
<1>2. DOMAIN plTips \subseteq Branches
    BY PipelineAssumption DEF PipeInv, GitHolds, PipeTypes, Branches
<1>3. \A t \in PlTasks : /\ plDb[t] # NoRec => plDb[t].status \in {"NOT_RUN", "BLOCKED", "FAIL", "PASS"}
                         /\ plReg[t] # NoRec => plReg[t].status \in {"NOT_RUN", "BLOCKED", "FAIL", "PASS"}
    <2>1. \A t \in PlTasks : plDb[t] \in TaskRecords \cup {NoRec} /\ plReg[t] \in TaskRecords \cup {NoRec}
        BY DEF PipeInv, PipeTypes
    <2> QED
        BY <2>1 DEF TaskRecords, PlStatuses
<1>4. plExec # Idle => plExec.healed \in 0 .. plExec.req.heal
    <2>1. plExec # Idle => plExec \in ExecRecords /\ plExec.healed <= plExec.req.heal
        BY DEF PipeInv, PipeTypes, ExecHolds
    <2> QED
        BY <2>1, PipelineAssumption DEF ExecRecords
<1> QED
    BY <1>1, <1>2, <1>3, <1>4 DEF PipeInv, PipeTypes, GitHolds, PlTypeOK

LEMMA PipeStarts == PipelineInit => PipeInv
<1> SUFFICES ASSUME PipelineInit PROVE PipeInv
    OBVIOUS
<1>1. PipeTypes
    BY PipelineAssumption DEF PipelineInit, PipeTypes
<1>2. GitHolds
    BY DEF PipelineInit, GitHolds, PlStarts
<1> QED
    BY <1>1, <1>2 DEF PipelineInit, PipeInv, ExecHolds, PublishedWasVerified, RecordHolds

\* Storing a record in memory, and perhaps in the database.
LEMMA StoreKeepsRecords ==
    ASSUME PipeInv, NEW t \in PlTasks, NEW rec \in TaskRecords, Store(t, rec),
           plApproved \subseteq plApproved', plPrs \subseteq plPrs',
           PlanHolds(rec.plan)', PassHolds(t, rec)'
    PROVE  /\ plReg' \in [PlTasks -> TaskRecords \cup {NoRec}] /\ plDb' \in [PlTasks -> TaskRecords \cup {NoRec}]
           /\ \A u \in PlTasks : RecordHolds(u, plReg[u])' /\ RecordHolds(u, plDb[u])'
<1> DEFINE row == [rec EXCEPT !.req = IF plDb[t] = NoRec THEN @ ELSE plDb[t].req]
<1>1. /\ plReg \in [PlTasks -> TaskRecords \cup {NoRec}] /\ plDb \in [PlTasks -> TaskRecords \cup {NoRec}]
      /\ plReg' = [plReg EXCEPT ![t] = rec] /\ plDb' \in {plDb, [plDb EXCEPT ![t] = row]}
    BY DEF PipeInv, PipeTypes, Store, PersistTask
<1>2. row \in TaskRecords /\ row.plan = rec.plan /\ row.status = rec.status
    BY <1>1 DEF TaskRecords
<1> HIDE DEF row
<1>3. \A u, r : RecordHolds(u, r) => (r # NoRec => (r.plan # NoPlan /\ r.plan.token = "human" => r.plan.origin \in plApproved')
                                                         /\ (r.status = "PASS" => \E pr \in plPrs' : pr.task = u))
    BY DEF RecordHolds, PlanHolds, PassHolds
<1>4. \A u \in PlTasks : /\ plReg'[u] = plReg[u] \/ (u = t /\ plReg'[u] = rec)
                         /\ plDb'[u] = plDb[u] \/ (u = t /\ plDb'[u] = row)
    BY <1>1
<1>5. \A u \in PlTasks : RecordHolds(u, plReg[u]) /\ RecordHolds(u, plDb[u])
    BY DEF PipeInv
<1>6. ASSUME NEW u \in PlTasks
      PROVE  RecordHolds(u, plReg[u])' /\ RecordHolds(u, plDb[u])'
    BY <1>2, <1>3, <1>4, <1>5 DEF RecordHolds, PlanHolds, PassHolds
<1> QED
    BY <1>1, <1>2, <1>6

\* What the steps of an execution leave alone, and what the others do.
LEMMA QuietRecords ==
    ASSUME PipeInv, UNCHANGED <<plReg, plDb>>, plApproved \subseteq plApproved', plPrs \subseteq plPrs'
    PROVE  \A t \in PlTasks : RecordHolds(t, plReg[t])' /\ RecordHolds(t, plDb[t])'
BY DEF PipeInv, RecordHolds, PlanHolds, PassHolds

LEMMA QuietPrs ==
    ASSUME PipeInv, plApproved \subseteq plApproved', plVerified \subseteq plVerified', UNCHANGED plPrs
    PROVE  PublishedWasVerified'
BY DEF PipeInv, PublishedWasVerified

LEMMA IdleHolds == ASSUME plExec' = Idle PROVE ExecHolds'
BY DEF ExecHolds

\* The record of a task, if there is one.
LEMMA RecordOf ==
    ASSUME PipeInv, NEW t \in PlTasks, Record(t) # NoRec
    PROVE  Record(t) \in TaskRecords /\ PlanHolds(Record(t).plan) /\ PassHolds(t, Record(t))
BY DEF PipeInv, PipeTypes, Record, RecordHolds

\* The requests outside of an execution.
LEMMA TaskRequestsKeepPipe ==
    ASSUME PipeInv, NEW t \in PlTasks,
           \/ \E req \in Requests, passed \in BOOLEAN : CreateTask(t, req, passed)
           \/ \E k \in Tokens : SubmitMutationPlan(t, k)
           \/ LoadTask(t) \/ TriggerDebate(t) \/ ApproveMutationPlan(t)
    PROVE  PipeInv'
<1> USE DEF plGit, plHistory
<1>1. /\ plExec = Idle /\ UNCHANGED <<plExec, plTips, plOut, plRuns, plVerified, plPrs, plMerge>>
      /\ plApproved \subseteq plApproved'
      /\ plSess' \in {plSess, [plSess EXCEPT ![t] = "open"]} \/ \E passed \in BOOLEAN : StartPipeline(t, passed)
      /\ plPlans' \in 0 .. MaxPlans
    <2>1. plPlans \in 0 .. MaxPlans
        BY DEF PipeInv, PipeTypes
    <2> USE <2>1, PipelineAssumption
    <2>2. ASSUME NEW req \in Requests, NEW passed \in BOOLEAN, CreateTask(t, req, passed)
          PROVE  <1>1!:
        BY <2>2 DEF CreateTask, Free
    <2>3. CASE \E k \in Tokens : SubmitMutationPlan(t, k)
        BY <2>3 DEF SubmitMutationPlan, Free
    <2>4. CASE LoadTask(t)
        BY <2>4 DEF LoadTask, Free
    <2>5. CASE TriggerDebate(t)
        BY <2>5 DEF TriggerDebate, Free
    <2>6. CASE ApproveMutationPlan(t)
        BY <2>6 DEF ApproveMutationPlan, Free
    <2> QED
        BY <2>2, <2>3, <2>4, <2>5, <2>6
<1>2. ExecHolds' /\ GitHolds' /\ PublishedWasVerified'
    BY <1>1, IdleHolds, QuietPrs DEF PipeInv, GitHolds
<1>3. plSess' \in [PlTasks -> {"absent", "open", "failed", "completed"}]
    BY <1>1 DEF PipeInv, PipeTypes, StartPipeline
<1>4. /\ plReg' \in [PlTasks -> TaskRecords \cup {NoRec}] /\ plDb' \in [PlTasks -> TaskRecords \cup {NoRec}]
      /\ \A u \in PlTasks : RecordHolds(u, plReg[u])' /\ RecordHolds(u, plDb[u])'
    <2>1. ASSUME NEW req \in Requests, NEW passed \in BOOLEAN, CreateTask(t, req, passed)
          PROVE  <1>4!:
        <3> DEFINE rec == [req |-> req, plan |-> NoPlan, status |-> IF passed THEN "NOT_RUN" ELSE "BLOCKED"]
        <3>1. rec \in TaskRecords /\ PlanHolds(rec.plan)' /\ PassHolds(t, rec)' /\ Store(t, rec)
            BY <2>1 DEF TaskRecords, PlStatuses, PlanHolds, PassHolds, CreateTask
        <3> HIDE DEF rec
        <3> QED
            BY <1>1, <3>1, StoreKeepsRecords
    <2>2. ASSUME NEW k \in Tokens, SubmitMutationPlan(t, k)
          PROVE  <1>4!:
        <3> PICK plan : plan = [id |-> plPlans + 1, origin |-> plPlans + 1, token |-> k]
            OBVIOUS
        <3> PICK rec : rec = [Record(t) EXCEPT !.plan = plan]
            OBVIOUS
        <3>1. Record(t) \in TaskRecords /\ PassHolds(t, Record(t)) /\ Store(t, rec)
            BY <2>2, RecordOf DEF SubmitMutationPlan
        <3>2. /\ plan \in PlanRecords /\ plan.token = k /\ plan.origin = plPlans + 1
              /\ k = "human" => plPlans + 1 \in plApproved'
            BY <2>2 DEF PlanRecords, SubmitMutationPlan, PipeInv, PipeTypes
        <3>3. rec \in TaskRecords /\ rec.plan = plan /\ rec.status = Record(t).status
            BY <3>1, <3>2 DEF TaskRecords
        <3>4. PlanHolds(rec.plan)' /\ PassHolds(t, rec)'
            BY <1>1, <3>1, <3>2, <3>3 DEF PlanHolds, PassHolds
        <3> QED
            BY <1>1, <3>1, <3>3, <3>4, StoreKeepsRecords
    <2>3. CASE LoadTask(t)
        <3>1. plReg' = [plReg EXCEPT ![t] = plDb[t]] /\ plDb' = plDb /\ plApproved' = plApproved
            BY <2>3 DEF LoadTask
        <3>2. plDb[t] \in TaskRecords \cup {NoRec} /\ RecordHolds(t, plDb[t])
            BY DEF PipeInv, PipeTypes
        <3> QED
            BY <1>1, <3>1, <3>2 DEF PipeInv, PipeTypes, RecordHolds, PlanHolds, PassHolds
    <2>4. CASE TriggerDebate(t)
        <3> DEFINE plan == Synthesized(plReg[t].plan, plPlans + 1)
                   rec == [plReg[t] EXCEPT !.plan = plan]
        <3>1. plReg[t] \in TaskRecords /\ RecordHolds(t, plReg[t]) /\ plReg[t] # NoRec /\ plPlans \in Nat
            BY <2>4 DEF TriggerDebate, PipeInv, PipeTypes
        <3>2. plan \in PlanRecords /\ PlanHolds(plan)
            BY <3>1 DEF Synthesized, PlanRecords, PlanHolds, TaskRecords, RecordHolds, Tokens
        <3>3. plReg' = [plReg EXCEPT ![t] = rec] /\ plDb' = plDb /\ plApproved' = plApproved
            BY <2>4, <3>1 DEF TriggerDebate, PipeInv, PipeTypes
        <3> HIDE DEF plan
        <3>4. rec \in TaskRecords /\ rec.plan = plan /\ rec.status = plReg[t].status
            BY <3>1, <3>2 DEF TaskRecords
        <3> HIDE DEF rec
        <3> QED
            BY <1>1, <3>1, <3>2, <3>3, <3>4 DEF PipeInv, PipeTypes, RecordHolds, PlanHolds, PassHolds
    <2>5. CASE ApproveMutationPlan(t)
        <3> PICK rec : rec = [Record(t) EXCEPT !.plan.token = "human", !.plan.origin = Record(t).plan.id]
            OBVIOUS
        <3>1. /\ Record(t) \in TaskRecords /\ PassHolds(t, Record(t)) /\ Record(t).plan # NoPlan
              /\ Store(t, rec) /\ Record(t).plan.id \in plApproved'
            BY <2>5, RecordOf DEF ApproveMutationPlan
        <3>2. /\ rec \in TaskRecords /\ rec.plan.origin = Record(t).plan.id /\ rec.status = Record(t).status
            BY <3>1 DEF TaskRecords, PlanRecords, Tokens
        <3>3. PlanHolds(rec.plan)' /\ PassHolds(t, rec)'
            BY <1>1, <3>1, <3>2 DEF PlanHolds, PassHolds
        <3> QED
            BY <1>1, <3>1, <3>2, <3>3, StoreKeepsRecords
    <2> QED
        BY <2>1, <2>2, <2>3, <2>4, <2>5
<1> QED
    BY <1>1, <1>2, <1>3, <1>4 DEF PipeInv, PipeTypes

\* An execution begins: preflight, committee and the gate.
LEMMA BeginningHolds ==
    ASSUME PipeInv, NEW t \in PlTasks, NEW req \in Requests, NEW plan \in PlanRecords, NEW plans \in 0 .. MaxPlans,
           Begin(t, req, plan, plans), plan.token = "human" => plan.origin \in plApproved', plReg'[t] # NoRec
    PROVE  /\ plExec' \in ExecRecords /\ plSess' \in [PlTasks -> {"absent", "open", "failed", "completed"}]
           /\ plRuns' \in 0 .. MaxRuns /\ plPlans' \in 0 .. MaxPlans /\ ExecHolds' /\ GitHolds'
<1> USE DEF plGit
<1> PICK enriched : enriched = IF req.committee THEN Synthesized(plan, plans + 1) ELSE plan
    OBVIOUS
<1> PICK go : go = [task |-> t, req |-> req, plan |-> enriched, pc |-> "worktree", run |-> plRuns + 1,
                    branch |-> Target, content |-> 0, receipts |-> "none", healed |-> 0, status |-> "NOT_RUN"]
    OBVIOUS
<1> PICK stop : stop = [go EXCEPT !.pc = "done", !.status = "BLOCKED"]
    OBVIOUS
<1>1. /\ plExec = Idle /\ plMerge.outcome # "merging" /\ plRuns < MaxRuns /\ plRuns' = plRuns + 1
      /\ UNCHANGED <<plDb, plTips, plOut, plVerified, plPrs, plMerge>> /\ plPlans' <= MaxPlans /\ plPlans' \in Nat
    BY DEF Begin, Free
<1>2. /\ plExec' = stop \/ (GatePasses(enriched) /\ plExec' = go)
      /\ \E passed \in BOOLEAN : StartPipeline(t, passed)
    BY DEF Begin
<1>3. enriched \in PlanRecords /\ (enriched.token = "human" => enriched.origin \in plApproved')
    BY DEF Synthesized, PlanRecords, Tokens
<1>4. plRuns \in 0 .. MaxRuns /\ MaxRuns \in Nat /\ MaxPlans \in Nat /\ req.heal \in Nat
    BY PipelineAssumption DEF PipeInv, PipeTypes
<1>5. go \in ExecRecords /\ stop \in ExecRecords
    <2>1. plRuns + 1 \in 1 .. MaxRuns /\ Target \in Branches
        BY <1>1, <1>4 DEF Branches
    <2> USE <1>3 DEF ExecRecords, ExecPlaces, PlStatuses
    <2>2. go \in ExecRecords
        BY <2>1
    <2>3. stop \in ExecRecords
        BY <2>2
    <2> QED
        BY <2>2, <2>3
<1>6. GatePasses(enriched) => enriched.origin \in plApproved'
    BY <1>3 DEF GatePasses
<1>7. ExecHolds'
    <2>1. plRuns + 1 \notin DOMAIN plTips
        BY <1>4 DEF PipeInv, GitHolds, Target
    <2>2. CASE plExec' = stop
        BY <1>1, <1>4, <2>2 DEF ExecHolds, PassHolds
    <2>3. CASE GatePasses(enriched) /\ plExec' = go
        BY <1>1, <1>4, <1>6, <2>1, <2>3 DEF ExecHolds, PassHolds
    <2> QED
        BY <1>2, <2>2, <2>3
<1>8. GitHolds'
    <2>1. 1 .. plRuns \subseteq 1 .. plRuns'
        BY <1>1, <1>4
    <2> QED
        BY <1>1, <2>1 DEF PipeInv, GitHolds
<1>9. plSess' \in [PlTasks -> {"absent", "open", "failed", "completed"}]
    BY <1>2 DEF PipeInv, PipeTypes, StartPipeline
<1> QED
    BY <1>1, <1>2, <1>4, <1>5, <1>7, <1>8, <1>9

LEMMA ExecuteKeepsPipe ==
    ASSUME PipeInv, NEW t \in PlTasks, ExecutePipelineTask(t)
    PROVE  PipeInv'
<1> PICK rec : rec = Record(t)
    OBVIOUS
<1>1. /\ rec \in TaskRecords /\ PlanHolds(rec.plan) /\ PassHolds(t, rec) /\ rec # NoRec /\ rec.plan # NoPlan
      /\ plReg' = [plReg EXCEPT ![t] = rec] /\ Begin(t, rec.req, rec.plan, plPlans) /\ plApproved' = plApproved
    BY RecordOf DEF ExecutePipelineTask
<1>2. /\ UNCHANGED <<plDb, plVerified, plPrs, plMerge>> /\ plReg'[t] # NoRec /\ rec.req \in Requests
      /\ rec.plan \in PlanRecords /\ plPlans \in 0 .. MaxPlans /\ PlanHolds(rec.plan)'
      /\ rec.plan.token = "human" => rec.plan.origin \in plApproved'
    BY <1>1 DEF Begin, PipeInv, PipeTypes, TaskRecords, PlanHolds
<1>3. /\ plExec' \in ExecRecords /\ plSess' \in [PlTasks -> {"absent", "open", "failed", "completed"}]
      /\ plRuns' \in 0 .. MaxRuns /\ plPlans' \in 0 .. MaxPlans /\ ExecHolds' /\ GitHolds'
    BY <1>1, <1>2, BeginningHolds
<1>4. PipeTypes'
    BY <1>1, <1>2, <1>3 DEF PipeInv, PipeTypes
<1>5. \A u \in PlTasks : RecordHolds(u, plReg[u])' /\ RecordHolds(u, plDb[u])'
    BY <1>1, <1>2 DEF PipeInv, PipeTypes, RecordHolds, PlanHolds, PassHolds
<1>6. PublishedWasVerified'
    BY <1>1, <1>2, QuietPrs
<1> QED
    BY <1>3, <1>4, <1>5, <1>6 DEF PipeInv

LEMMA RunKeepsPipe ==
    ASSUME PipeInv, NEW t \in PlTasks, NEW req \in Requests, NEW k \in Tokens, RunFullPipeline(t, req, k)
    PROVE  PipeInv'
<1> PICK plan : plan = [id |-> plPlans + 1, origin |-> plPlans + 1, token |-> k]
    OBVIOUS
<1> PICK rec : rec = [req |-> req, plan |-> plan, status |-> "NOT_RUN"]
    OBVIOUS
<1>1. plPlans \in 0 .. MaxPlans /\ MaxPlans \in Nat /\ plan \in PlanRecords /\ rec \in TaskRecords /\ rec.plan = plan
    BY PipelineAssumption DEF PipeInv, PipeTypes, PlanRecords, TaskRecords, PlStatuses
<1>2. /\ plReg' = [plReg EXCEPT ![t] = rec] /\ Begin(t, req, plan, plPlans + 1)
      /\ plApproved' = IF k = "human" THEN plApproved \cup {plan.id} ELSE plApproved
    BY DEF RunFullPipeline
<1>3. UNCHANGED <<plDb, plVerified, plPrs, plMerge>> /\ plPlans' <= MaxPlans /\ plPlans' \in {plPlans + 1, plPlans + 2}
    BY <1>1, <1>2 DEF Begin
<1>4. plPlans + 1 \in 0 .. MaxPlans
    BY <1>1, <1>3
<1>5. rec # NoRec
    BY <1>1 DEF TaskRecords, NoRec
<1>6. /\ plReg'[t] # NoRec /\ PlanHolds(plan)' /\ plApproved \subseteq plApproved'
      /\ plan.token = "human" => plan.origin \in plApproved'
    BY <1>2, <1>5 DEF PipeInv, PipeTypes, PlanHolds
<1>7. /\ plExec' \in ExecRecords /\ plSess' \in [PlTasks -> {"absent", "open", "failed", "completed"}]
      /\ plRuns' \in 0 .. MaxRuns /\ plPlans' \in 0 .. MaxPlans /\ ExecHolds' /\ GitHolds'
    BY <1>1, <1>2, <1>4, <1>6, BeginningHolds
<1>8. PipeTypes'
    BY <1>1, <1>2, <1>3, <1>7 DEF PipeInv, PipeTypes
<1>9. \A u \in PlTasks : RecordHolds(u, plReg[u])' /\ RecordHolds(u, plDb[u])'
    BY <1>1, <1>2, <1>3, <1>6 DEF PipeInv, PipeTypes, RecordHolds, PlanHolds, PassHolds
<1>10. PublishedWasVerified'
    BY <1>3, <1>6, QuietPrs
<1> QED
    BY <1>7, <1>8, <1>9, <1>10 DEF PipeInv

\* The steps of an execution, but for the last, leave the records alone.
LEMMA StageKeepsPipe ==
    ASSUME PipeInv, UNCHANGED <<plReg, plDb, plRuns, plPlans, plApproved, plMerge>>,
           plVerified \subseteq plVerified', plPrs \subseteq plPrs', PublishedWasVerified',
           plExec' \in ExecRecords, plSess' \in [PlTasks -> {"absent", "open", "failed", "completed"}],
           GitHolds', ExecHolds'
    PROVE  PipeInv'
<1>1. \A t \in PlTasks : RecordHolds(t, plReg[t])' /\ RecordHolds(t, plDb[t])'
    BY QuietRecords
<1> QED
    BY <1>1 DEF PipeInv, PipeTypes

LEMMA FailingStops ==
    ASSUME PipeInv, plExec # Idle, Fails, UNCHANGED <<plReg, plMerge>>, plPrs \subseteq plPrs'
    PROVE  /\ plExec' \in ExecRecords /\ plSess' \in [PlTasks -> {"absent", "open", "failed", "completed"}]
           /\ ExecHolds'
<1>1. /\ plExec \in ExecRecords /\ plExec.task \in PlTasks
      /\ plSess \in [PlTasks -> {"absent", "open", "failed", "completed"}]
    BY DEF PipeInv, PipeTypes, ExecRecords
<1>2. plExec' = [plExec EXCEPT !.pc = "done", !.status = "FAIL"]
    BY DEF Fails
<1>3. /\ plExec' \in ExecRecords /\ plExec'.pc = "done" /\ plExec'.status = "FAIL" /\ plExec'.task = plExec.task
      /\ plExec'.healed = plExec.healed /\ plExec'.req = plExec.req
    BY <1>1, <1>2 DEF ExecRecords, ExecPlaces, PlStatuses
<1>4. ExecHolds'
    BY <1>3 DEF PipeInv, ExecHolds, PassHolds
<1> QED
    BY <1>1, <1>3, <1>4 DEF Fails

LEMMA MutatingKeepsPipe ==
    ASSUME PipeInv, CreateWorktree \/ ExecutePlan \/ RunLadder
    PROVE  PipeInv'
<1> USE DEF plGit, plHistory
<1>1. /\ plExec \in ExecRecords /\ plExec # Idle /\ plExec.content \in Nat
      /\ UNCHANGED <<plReg, plDb, plRuns, plPlans, plApproved, plPrs, plMerge>> /\ plVerified \subseteq plVerified'
      /\ plSess \in [PlTasks -> {"absent", "open", "failed", "completed"}]
    BY DEF CreateWorktree, ExecutePlan, RunLadder, At, Ladder, PipeInv, PipeTypes, ExecRecords
<1>2. PublishedWasVerified'
    BY <1>1, QuietPrs
<1>3. CASE CreateWorktree
    <2>1. /\ plExec.pc = "worktree" /\ plOut' = plOut \cup {WorktreeBranch} /\ UNCHANGED <<plSess, plVerified>>
          /\ plTips' = IF WorktreeBranch \in DOMAIN plTips THEN plTips
                 ELSE [b \in DOMAIN plTips \cup {WorktreeBranch} |-> IF b \in DOMAIN plTips THEN plTips[b] ELSE {}]
          /\ plExec' = [plExec EXCEPT !.pc = "mutate", !.branch = WorktreeBranch]
        BY <1>3 DEF CreateWorktree, At
    <2>2. plExec.run \notin DOMAIN plTips /\ plExec.run <= plRuns /\ plExec.run \in 1 .. MaxRuns /\ plRuns \in Nat /\ MaxRuns \in Nat
        BY <1>1, <2>1, PipelineAssumption DEF PipeInv, PipeTypes, ExecHolds, ExecRecords
    <2>3. WorktreeBranch \in {Target} \cup 1 .. plRuns /\ WorktreeBranch \in Branches
        BY <2>2 DEF WorktreeBranch, Branches
    <2>4. WorktreeBranch \in DOMAIN plTips => plTips[WorktreeBranch] = {}
        BY <2>2 DEF WorktreeBranch
    <2> PICK wb : wb = WorktreeBranch
        OBVIOUS
    <2>5. /\ wb \in DOMAIN plTips' /\ plTips'[wb] = {} /\ DOMAIN plTips' = DOMAIN plTips \cup {wb}
          /\ plTips' = [b \in DOMAIN plTips' |-> plTips'[b]]
        BY <2>1, <2>4 DEF PipeInv, GitHolds
    <2>6. GitHolds'
        BY <1>1, <2>1, <2>3, <2>5 DEF PipeInv, GitHolds
    <2>7. /\ plExec' \in ExecRecords /\ plExec'.pc = "mutate" /\ plExec'.branch = wb
          /\ \A f \in {"task", "req", "plan", "status", "healed"} : plExec'[f] = plExec[f]
        BY <1>1, <2>1, <2>3 DEF ExecRecords, ExecPlaces
    <2>8. ExecHolds'
        BY <1>1, <2>1, <2>5, <2>7 DEF PipeInv, ExecHolds, PassHolds
    <2> QED
        BY <1>1, <1>2, <2>1, <2>6, <2>7, <2>8, StageKeepsPipe
<1>4. CASE ExecutePlan
    <2>1. UNCHANGED <<plTips, plOut, plVerified>> /\ plExec.pc = "mutate"
        BY <1>4 DEF ExecutePlan, At
    <2>2. GitHolds'
        BY <1>1, <2>1 DEF PipeInv, GitHolds
    <2>3. CASE Fails
        BY <1>1, <1>2, <2>1, <2>2, <2>3, FailingStops, StageKeepsPipe
    <2>4. ASSUME NEW n \in {0, 1}, plExec' = [plExec EXCEPT !.pc = "ladder", !.content = n], UNCHANGED plSess
          PROVE  PipeInv'
        <3>1. /\ plExec' \in ExecRecords /\ plExec'.pc = "ladder"
              /\ \A f \in {"task", "req", "plan", "status", "healed", "branch"} : plExec'[f] = plExec[f]
            <4>1. n \in Nat
                OBVIOUS
            <4>2. plExec' \in ExecRecords
                BY <1>1, <2>4, <4>1 DEF ExecRecords, ExecPlaces
            <4> QED
                BY <1>1, <2>4, <4>2 DEF ExecRecords
        <3>2. ExecHolds'
            BY <1>1, <2>1, <3>1 DEF PipeInv, ExecHolds, PassHolds
        <3> QED
            BY <1>1, <1>2, <2>1, <2>2, <2>4, <3>1, <3>2, StageKeepsPipe
    <2> QED
        BY <1>4, <2>3, <2>4 DEF ExecutePlan
<1>5. CASE RunLadder
    <2>1. UNCHANGED <<plTips, plOut>> /\ plExec.pc = "ladder"
        BY <1>5 DEF RunLadder, At
    <2>2. GitHolds'
        BY <1>1, <2>1 DEF PipeInv, GitHolds
    <2>3. CASE Fails
        BY <1>1, <1>2, <2>1, <2>2, <2>3, FailingStops, StageKeepsPipe
    <2>4. CASE Goto("heal") /\ UNCHANGED plSess
        <3>1. /\ plExec' \in ExecRecords /\ plExec'.pc = "heal"
              /\ \A f \in {"task", "req", "plan", "status", "healed", "branch"} : plExec'[f] = plExec[f]
            BY <1>1, <2>4 DEF Goto, ExecRecords, ExecPlaces
        <3>2. ExecHolds'
            BY <1>1, <2>1, <3>1 DEF PipeInv, ExecHolds, PassHolds
        <3> QED
            BY <1>1, <1>2, <2>1, <2>2, <2>4, <3>1, <3>2, StageKeepsPipe
    <2>5. CASE /\ plExec' = [plExec EXCEPT !.pc = "commit", !.receipts = "pass"] /\ UNCHANGED plSess
               /\ <<plExec.run, plExec.content>> \in plVerified'
        <3>1. /\ plExec' \in ExecRecords /\ plExec'.pc = "commit"
              /\ \A f \in {"task", "req", "plan", "status", "healed", "branch", "run", "content"} : plExec'[f] = plExec[f]
            BY <1>1, <2>5 DEF ExecRecords, ExecPlaces
        <3>2. ExecHolds'
            BY <1>1, <2>1, <2>5, <3>1 DEF PipeInv, ExecHolds, PassHolds
        <3> QED
            BY <1>1, <1>2, <2>1, <2>2, <2>5, <3>1, <3>2, StageKeepsPipe
    <2>6. Fails \/ (Goto("heal") /\ UNCHANGED plSess) \/ (/\ plExec' = [plExec EXCEPT !.pc = "commit", !.receipts = "pass"] /\ UNCHANGED plSess
                                                           /\ <<plExec.run, plExec.content>> \in plVerified')
        BY <1>5 DEF RunLadder, Ladder
    <2> QED
        BY <2>3, <2>4, <2>5, <2>6
<1> QED
    BY <1>3, <1>4, <1>5

LEMMA HealingKeepsPipe ==
    ASSUME PipeInv, Heal \/ Recollect \/ AutoRollback
    PROVE  PipeInv'
<1> USE DEF plGit, plHistory
<1>1. /\ plExec \in ExecRecords /\ plExec # Idle /\ plExec.content \in Nat /\ plExec.healed \in Nat /\ plExec.req.heal \in Nat
      /\ UNCHANGED <<plReg, plDb, plRuns, plPlans, plApproved, plPrs, plMerge>> /\ plVerified \subseteq plVerified'
      /\ plSess \in [PlTasks -> {"absent", "open", "failed", "completed"}]
    BY PipelineAssumption DEF Heal, Recollect, AutoRollback, At, Ladder, PipeInv, PipeTypes, ExecRecords
<1>2. PublishedWasVerified'
    BY <1>1, QuietPrs
<1>3. CASE Heal
    <2>1. PICK outcome \in {"pass", "fail"}, content \in {plExec.content, plExec.content + 1} :
              /\ plVerified' = IF outcome = "pass" THEN plVerified \cup {<<plExec.run, content>>} ELSE plVerified
              /\ plExec' = [plExec EXCEPT !.healed = @ + 1, !.content = content,
                                          !.pc = IF outcome = "pass" THEN "recollect" ELSE "heal"]
        BY <1>3 DEF Heal
    <2>2. plExec.pc = "heal" /\ plExec.healed < plExec.req.heal /\ UNCHANGED <<plTips, plOut, plSess>>
        BY <1>3 DEF Heal, At
    <2>3. GitHolds'
        BY <1>1, <2>2 DEF PipeInv, GitHolds
    <2>4. /\ plExec' \in ExecRecords /\ plExec'.pc = (IF outcome = "pass" THEN "recollect" ELSE "heal")
          /\ plExec'.content = content /\ plExec'.healed = plExec.healed + 1
          /\ \A f \in {"task", "req", "plan", "status", "branch", "run"} : plExec'[f] = plExec[f]
        <3>1. content \in Nat /\ plExec.healed + 1 \in Nat
            BY <1>1
        <3>2. plExec' \in ExecRecords
            BY <1>1, <2>1, <3>1 DEF ExecRecords, ExecPlaces
        <3> QED
            BY <1>1, <2>1, <3>2 DEF ExecRecords
    <2>5. plExec'.healed <= plExec'.req.heal
        BY <1>1, <2>2, <2>4
    <2>6. plExec'.pc = "recollect" => <<plExec'.run, plExec'.content>> \in plVerified'
        BY <2>1, <2>4
    <2>7. ExecHolds'
        BY <1>1, <2>2, <2>4, <2>5, <2>6 DEF PipeInv, ExecHolds, PassHolds
    <2> QED
        BY <1>1, <1>2, <2>2, <2>3, <2>4, <2>7, StageKeepsPipe
<1>4. CASE Recollect
    <2>1. PICK outcome \in {"pass", "fail"} : plExec' = [plExec EXCEPT !.pc = "commit", !.receipts = outcome]
        BY <1>4 DEF Recollect
    <2>2. plExec.pc = "recollect" /\ UNCHANGED <<plTips, plOut, plSess>>
        BY <1>4 DEF Recollect, At
    <2>3. GitHolds'
        BY <1>1, <2>2 DEF PipeInv, GitHolds
    <2>4. /\ plExec' \in ExecRecords /\ plExec'.pc = "commit"
          /\ \A f \in {"task", "req", "plan", "status", "branch", "run", "content", "healed"} : plExec'[f] = plExec[f]
        BY <1>1, <2>1 DEF ExecRecords, ExecPlaces
    <2>5. ExecHolds'
        BY <1>1, <2>2, <2>4 DEF PipeInv, ExecHolds, PassHolds
    <2> QED
        BY <1>1, <1>2, <2>2, <2>3, <2>4, <2>5, StageKeepsPipe
<1>5. CASE AutoRollback
    <2>1. /\ plExec.pc = "heal" /\ Fails /\ UNCHANGED <<plOut, plVerified>>
          /\ plTips' = [plTips EXCEPT ![plExec.branch] = {}]
        BY <1>5 DEF AutoRollback, At
    <2>2. plTips' = plTips
        BY <1>1, <2>1 DEF PipeInv, ExecHolds, GitHolds
    <2>3. GitHolds'
        BY <1>1, <2>1, <2>2 DEF PipeInv, GitHolds
    <2> QED
        BY <1>1, <1>2, <2>1, <2>3, FailingStops, StageKeepsPipe
<1> QED
    BY <1>3, <1>4, <1>5

LEMMA PublishingKeepsPipe ==
    ASSUME PipeInv, CommitChanges \/ PublishDraftPr \/ FinishExecution
    PROVE  PipeInv'
<1> USE DEF plGit, plHistory
<1>1. /\ plExec \in ExecRecords /\ plExec # Idle /\ plExec.content \in Nat /\ plExec.task \in PlTasks
      /\ UNCHANGED <<plOut, plRuns, plPlans, plApproved, plVerified, plMerge>> /\ plPrs \subseteq plPrs'
      /\ plSess \in [PlTasks -> {"absent", "open", "failed", "completed"}]
    BY DEF CommitChanges, PublishDraftPr, FinishExecution, At, PipeInv, PipeTypes, ExecRecords
<1>2. CASE CommitChanges
    <2>1. PublishedWasVerified' /\ UNCHANGED <<plReg, plDb, plPrs>> /\ plExec.pc = "commit"
        BY <1>1, <1>2, QuietPrs DEF CommitChanges, At
    <2>2. CASE Fails /\ UNCHANGED plTips
        <3>1. GitHolds'
            BY <1>1, <2>2 DEF PipeInv, GitHolds
        <3> QED
            BY <1>1, <2>1, <2>2, <3>1, FailingStops, StageKeepsPipe
    <2>3. CASE /\ plTips' = IF plExec.content = 0 THEN plTips
                            ELSE [plTips EXCEPT ![plExec.branch] = @ \cup {<<plExec.run, plExec.content>>}]
               /\ Goto("publish") /\ UNCHANGED plSess
        <3>1. DOMAIN plTips' = DOMAIN plTips /\ plTips' = [b \in DOMAIN plTips' |-> plTips'[b]]
            BY <2>3 DEF PipeInv, GitHolds
        <3>2. GitHolds'
            BY <1>1, <3>1 DEF PipeInv, GitHolds
        <3>3. /\ plExec' \in ExecRecords /\ plExec'.pc = "publish"
              /\ \A f \in {"task", "req", "plan", "status", "run", "content", "healed"} : plExec'[f] = plExec[f]
            BY <1>1, <2>3 DEF Goto, ExecRecords, ExecPlaces
        <3>4. ExecHolds'
            BY <1>1, <2>1, <3>3 DEF PipeInv, ExecHolds, PassHolds
        <3> QED
            BY <1>1, <2>1, <2>3, <3>2, <3>3, <3>4, StageKeepsPipe
    <2> QED
        BY <1>2, <2>2, <2>3 DEF CommitChanges
<1>3. CASE PublishDraftPr
    <2>1. UNCHANGED <<plReg, plDb, plTips>> /\ plExec.pc = "publish"
        BY <1>3 DEF PublishDraftPr, At
    <2>2. GitHolds'
        BY <1>1, <2>1 DEF PipeInv, GitHolds
    <2>3. CASE Fails /\ UNCHANGED plPrs
        <3>1. PublishedWasVerified'
            BY <1>1, <2>3, QuietPrs
        <3> QED
            BY <1>1, <2>1, <2>2, <2>3, <3>1, FailingStops, StageKeepsPipe
    <2>4. CASE /\ plPrs' = plPrs \cup {[task |-> plExec.task, plan |-> plExec.plan, run |-> plExec.run,
                                   content |-> plExec.content, branch |-> plExec.branch, receipts |-> plExec.receipts]}
               /\ plExec' = [plExec EXCEPT !.pc = "done", !.status = "PASS"]
               /\ plSess' = [plSess EXCEPT ![plExec.task] = "completed"]
        <3>1. plExec.plan.origin \in plApproved /\ <<plExec.run, plExec.content>> \in plVerified
            BY <1>1, <2>1 DEF PipeInv, ExecHolds
        <3> PICK made : made = [task |-> plExec.task, plan |-> plExec.plan, run |-> plExec.run,
                                content |-> plExec.content, branch |-> plExec.branch, receipts |-> plExec.receipts]
            OBVIOUS
        <3>6. /\ plPrs' = plPrs \cup {made} /\ made.task = plExec.task
              /\ made.plan.origin \in plApproved' /\ <<made.run, made.content>> \in plVerified'
            BY <1>1, <2>4, <3>1
        <3>2. PublishedWasVerified'
            BY <1>1, <3>6 DEF PipeInv, PublishedWasVerified
        <3>3. /\ plExec' \in ExecRecords /\ plExec'.pc = "done"
              /\ \A f \in {"task", "req", "healed"} : plExec'[f] = plExec[f]
            BY <1>1, <2>4 DEF ExecRecords, ExecPlaces, PlStatuses
        <3>4. \E pr \in plPrs' : pr.task = plExec.task
            BY <3>6
        <3>5. ExecHolds'
            BY <1>1, <2>1, <3>3, <3>4 DEF PipeInv, ExecHolds, PassHolds
        <3> QED
            BY <1>1, <2>1, <2>2, <2>4, <3>2, <3>3, <3>5, StageKeepsPipe
    <2> QED
        BY <1>3, <2>3, <2>4 DEF PublishDraftPr
<1>4. CASE FinishExecution
    <2> PICK t : t = plExec.task
        OBVIOUS
    <2> PICK rec : rec = [plReg[t] EXCEPT !.status = plExec.status]
        OBVIOUS
    <2>1. plExec' = Idle /\ Store(t, rec) /\ UNCHANGED <<plSess, plTips, plPrs>>
        BY <1>4 DEF FinishExecution
    <2>2. plReg[t] \in TaskRecords /\ RecordHolds(t, plReg[t]) /\ plReg[t] # NoRec /\ PassHolds(t, plExec) /\ t \in PlTasks
        BY <1>1 DEF PipeInv, PipeTypes, ExecHolds
    <2>3. rec \in TaskRecords /\ rec.plan = plReg[t].plan /\ rec.status = plExec.status
        BY <1>1, <2>2 DEF TaskRecords, ExecRecords
    <2>4. PlanHolds(rec.plan)' /\ PassHolds(t, rec)'
        BY <1>1, <2>1, <2>2, <2>3 DEF RecordHolds, PlanHolds, PassHolds
    <2>5. /\ plReg' \in [PlTasks -> TaskRecords \cup {NoRec}] /\ plDb' \in [PlTasks -> TaskRecords \cup {NoRec}]
          /\ \A u \in PlTasks : RecordHolds(u, plReg[u])' /\ RecordHolds(u, plDb[u])'
        BY <1>1, <2>1, <2>2, <2>3, <2>4, StoreKeepsRecords
    <2>6. ExecHolds' /\ GitHolds' /\ PublishedWasVerified'
        BY <1>1, <2>1, IdleHolds, QuietPrs DEF PipeInv, GitHolds
    <2> QED
        BY <1>1, <2>1, <2>5, <2>6 DEF PipeInv, PipeTypes
<1> QED
    BY <1>2, <1>3, <1>4

\* The merge of several roles, and a crash.
LEMMA RolesAndCrashKeepPipe ==
    ASSUME PipeInv, StartRoles \/ (\E r \in PlRoles : SquashMerge(r)) \/ MergeFails \/ CrashPipeline
    PROVE  PipeInv'
<1> USE DEF plGit, plHistory
<1>1. UNCHANGED <<plDb, plPlans, plApproved, plVerified, plPrs>> /\ PublishedWasVerified'
    BY QuietPrs DEF StartRoles, SquashMerge, MergeFails, CrashPipeline
<1>2. CASE StartRoles
    <2>1. /\ plExec = Idle /\ plExec' = Idle /\ plRuns' = plRuns + 1 /\ plRuns < MaxRuns
          /\ plMerge' = [plMerge EXCEPT !.outcome = "merging", !.merged = {}]
          /\ UNCHANGED <<plReg, plSess, plTips, plOut>>
        BY <1>2 DEF StartRoles, Free
    <2>2. plRuns \in Nat /\ plRuns' \in 0 .. MaxRuns /\ 1 .. plRuns \subseteq 1 .. plRuns'
        BY <2>1, PipelineAssumption DEF PipeInv, PipeTypes
    <2>3. plMerge' \in [outcome : {"new", "merging", "merged", "failed"}, merged : SUBSET PlRoles, here : BOOLEAN]
          /\ plMerge'.here = plMerge.here
        BY <2>1 DEF PipeInv, PipeTypes
    <2>4. GitHolds'
        BY <2>1, <2>2, <2>3 DEF PipeInv, GitHolds
    <2>5. \A t \in PlTasks : RecordHolds(t, plReg[t])' /\ RecordHolds(t, plDb[t])'
        BY <1>1, <2>1, QuietRecords
    <2> QED
        BY <1>1, <2>1, <2>2, <2>3, <2>4, <2>5, IdleHolds DEF PipeInv, PipeTypes
<1>3. ASSUME NEW r \in PlRoles, SquashMerge(r)
      PROVE  PipeInv'
    <2>1. /\ plMerge.outcome = "merging" /\ (plMerge.here \/ (Target \in DOMAIN plTips /\ Target \notin plOut))
          /\ plTips' = [plTips EXCEPT ![Target] = @ \cup {<<"role", r>>}] /\ plOut' = plOut \cup {Target}
          /\ plMerge' = [outcome |-> IF plMerge.merged \cup {r} = PlRoles THEN "merged" ELSE "merging",
                         merged |-> plMerge.merged \cup {r}, here |-> TRUE]
          /\ UNCHANGED <<plReg, plSess, plExec, plRuns>>
        BY <1>3 DEF SquashMerge
    <2>2. plExec = Idle
        BY <2>1 DEF PipeInv, ExecHolds
    <2>3. plMerge' \in [outcome : {"new", "merging", "merged", "failed"}, merged : SUBSET PlRoles, here : BOOLEAN]
        BY <2>1 DEF PipeInv, PipeTypes
    <2>4. GitHolds'
        <3>1. Target \in DOMAIN plTips
            BY <2>1 DEF PipeInv, GitHolds
        <3>2. DOMAIN plTips' = DOMAIN plTips /\ plTips' = [b \in DOMAIN plTips' |-> plTips'[b]]
            BY <2>1 DEF PipeInv, GitHolds
        <3> QED
            BY <2>1, <3>1, <3>2 DEF PipeInv, GitHolds
    <2>5. \A t \in PlTasks : RecordHolds(t, plReg[t])' /\ RecordHolds(t, plDb[t])'
        BY <1>1, <2>1, QuietRecords
    <2> QED
        BY <1>1, <2>1, <2>2, <2>3, <2>4, <2>5, IdleHolds DEF PipeInv, PipeTypes
<1>4. CASE MergeFails
    <2>1. plMerge' = [plMerge EXCEPT !.outcome = "failed"] /\ UNCHANGED <<plReg, plSess, plExec, plTips, plOut, plRuns>>
        BY <1>4 DEF MergeFails
    <2>2. /\ plMerge' \in [outcome : {"new", "merging", "merged", "failed"}, merged : SUBSET PlRoles, here : BOOLEAN]
          /\ plMerge'.here = plMerge.here /\ plMerge'.outcome = "failed"
        BY <2>1 DEF PipeInv, PipeTypes
    <2>3. GitHolds' /\ ExecHolds'
        BY <1>1, <2>1, <2>2 DEF PipeInv, GitHolds, ExecHolds, PassHolds
    <2>4. \A t \in PlTasks : RecordHolds(t, plReg[t])' /\ RecordHolds(t, plDb[t])'
        BY <1>1, <2>1, QuietRecords
    <2> QED
        BY <1>1, <2>1, <2>2, <2>3, <2>4 DEF PipeInv, PipeTypes
<1>5. CASE CrashPipeline
    <2>1. /\ plReg' = [t \in PlTasks |-> NoRec] /\ plSess' = [t \in PlTasks |-> "absent"] /\ plExec' = Idle
          /\ plMerge' = IF plMerge.outcome = "merging" THEN [plMerge EXCEPT !.outcome = "failed"] ELSE plMerge
          /\ UNCHANGED <<plTips, plOut, plRuns>>
        BY <1>5 DEF CrashPipeline
    <2>2. /\ plMerge' \in [outcome : {"new", "merging", "merged", "failed"}, merged : SUBSET PlRoles, here : BOOLEAN]
          /\ plMerge'.here = plMerge.here
        BY <2>1 DEF PipeInv, PipeTypes
    <2>3. GitHolds'
        BY <1>1, <2>1, <2>2 DEF PipeInv, GitHolds
    <2>4. \A t \in PlTasks : RecordHolds(t, plReg[t])' /\ RecordHolds(t, plDb[t])'
        BY <1>1, <2>1 DEF PipeInv, RecordHolds, PlanHolds, PassHolds
    <2> QED
        BY <1>1, <2>1, <2>2, <2>3, <2>4, IdleHolds DEF PipeInv, PipeTypes
<1> QED
    BY <1>2, <1>3, <1>4, <1>5

\* No step takes a commit off a branch.
BranchesGrow == \A b \in DOMAIN plTips : b \in DOMAIN plTips' /\ plTips[b] \subseteq plTips'[b]

LEMMA PipeStepKeeps ==
    ASSUME PipeInv, PipelineNext \/ UNCHANGED plVars
    PROVE  PipeInv' /\ BranchesGrow
<1>1. CASE UNCHANGED plVars
    BY <1>1 DEF plVars, PipeInv, PipeTypes, GitHolds, ExecHolds, PublishedWasVerified, RecordHolds, PlanHolds, PassHolds, BranchesGrow
<1>2. CASE PipelineNext
    <2>1. PipeInv'
        BY <1>2, TaskRequestsKeepPipe, ExecuteKeepsPipe, RunKeepsPipe, MutatingKeepsPipe, HealingKeepsPipe,
           PublishingKeepsPipe, RolesAndCrashKeepPipe DEF PipelineNext, ExecutionStep
    <2>2. plTips = [b \in DOMAIN plTips |-> plTips[b]]
        BY DEF PipeInv, GitHolds
    <2>3. UNCHANGED plTips => BranchesGrow
        BY DEF BranchesGrow
    <2>4. CASE \E t \in PlTasks :
           \/ \E req \in Requests : (\E i \in BOOLEAN : CreateTask(t, req, i)) \/ \E k \in Tokens : RunFullPipeline(t, req, k)
           \/ \E k \in Tokens : SubmitMutationPlan(t, k)
           \/ LoadTask(t) \/ TriggerDebate(t) \/ ApproveMutationPlan(t) \/ ExecutePipelineTask(t)
        <3> PICK t \in PlTasks :
                 \/ \E req \in Requests : (\E i \in BOOLEAN : CreateTask(t, req, i)) \/ \E k \in Tokens : RunFullPipeline(t, req, k)
                 \/ \E k \in Tokens : SubmitMutationPlan(t, k)
                 \/ LoadTask(t) \/ TriggerDebate(t) \/ ApproveMutationPlan(t) \/ ExecutePipelineTask(t)
            BY <2>4
        <3> USE DEF plGit
        <3>1. ASSUME NEW req \in Requests, (\E i \in BOOLEAN : CreateTask(t, req, i)) \/ \E k \in Tokens : RunFullPipeline(t, req, k)
              PROVE  UNCHANGED plTips
            BY <3>1 DEF CreateTask, RunFullPipeline, Begin
        <3>2. CASE \E k \in Tokens : SubmitMutationPlan(t, k)
            BY <2>1, <2>3, <3>2 DEF SubmitMutationPlan
        <3>3. CASE LoadTask(t) \/ TriggerDebate(t)
            BY <2>1, <2>3, <3>3 DEF LoadTask, TriggerDebate
        <3>4. CASE ApproveMutationPlan(t) \/ ExecutePipelineTask(t)
            BY <2>1, <2>3, <3>4 DEF ApproveMutationPlan, ExecutePipelineTask, Begin
        <3> QED
            BY <2>1, <2>3, <3>1, <3>2, <3>3, <3>4
    <2>5. CASE ExecutePlan \/ RunLadder \/ Heal \/ Recollect \/ PublishDraftPr \/ FinishExecution \/ StartRoles \/ MergeFails \/ CrashPipeline
        <3>1. UNCHANGED plTips
            BY <2>5 DEF ExecutePlan, RunLadder, Heal, Recollect, PublishDraftPr, FinishExecution, StartRoles, MergeFails, CrashPipeline, plGit
        <3> QED
            BY <2>1, <2>3, <3>1
    <2>6. CASE CreateWorktree
        <3> PICK wb : wb = WorktreeBranch
            OBVIOUS
        <3>1. plTips' = IF wb \in DOMAIN plTips THEN plTips
                 ELSE [b \in DOMAIN plTips \cup {wb} |-> IF b \in DOMAIN plTips THEN plTips[b] ELSE {}]
            BY <2>6 DEF CreateWorktree
        <3> QED
            BY <2>1, <3>1 DEF BranchesGrow
    <2>7. CASE AutoRollback
        <3>1. plTips' = [plTips EXCEPT ![plExec.branch] = {}] /\ plTips[plExec.branch] = {}
            BY <2>7 DEF AutoRollback, At, PipeInv, ExecHolds
        <3> QED
            BY <2>1, <2>2, <3>1 DEF BranchesGrow
    <2>8. CASE CommitChanges
        <3>1. PICK c : plTips' = plTips \/ plTips' = [plTips EXCEPT ![plExec.branch] = @ \cup {c}]
            BY <2>8 DEF CommitChanges
        <3> QED
            BY <2>1, <2>2, <3>1 DEF BranchesGrow
    <2>9. ASSUME NEW r \in PlRoles, SquashMerge(r)
          PROVE  BranchesGrow
        <3>1. plTips' = [plTips EXCEPT ![Target] = @ \cup {<<"role", r>>}]
            BY <2>9 DEF SquashMerge
        <3> QED
            BY <2>2, <3>1 DEF BranchesGrow
    <2> QED
        BY <1>2, <2>1, <2>4, <2>5, <2>6, <2>7, <2>8, <2>9 DEF PipelineNext, ExecutionStep
<1> QED
    BY <1>1, <1>2

-----------------------------------------------------------------------------
(* Recursive functions: over 0 .. n, and over the subsets of a finite set.  *)

LEMMA SetInduction ==
    ASSUME NEW A, 0 \in A, \A k \in Nat : k \in A => k + 1 \in A
    PROVE  Nat \subseteq A
<1> SUFFICES ASSUME Nat \ A # {} PROVE FALSE
    OBVIOUS
<1> PICK m : m = Min(Nat \ A)
    OBVIOUS
<1>1. m \in Nat \ A /\ \A y \in Nat \ A : m <= y
    BY LeastOf
<1>2. m # 0
    BY <1>1
<1>3. m - 1 \in Nat /\ m - 1 \in A
    BY <1>1, <1>2
<1>4. m - 1 + 1 = m
    BY <1>1
<1> QED
    BY <1>1, <1>3, <1>4

Advances(step, n, S) == \A i \in 1 .. n, x \in S : step[<<x, i>>] \in S
Runs(n, S, base, step) == {F \in [0 .. n -> S] : F[0] = base /\ \A i \in 1 .. n : F[i] = step[<<F[i - 1], i>>]}

LEMMA RecursionDefined ==
    ASSUME NEW n \in Nat, NEW S, NEW base \in S, NEW step, Advances(step, n, S)
    PROVE  Runs(n, S, base, step) # {}
<1> USE DEF Advances, Runs
<1> DEFINE Good(F, k) == F \in [0 .. k -> S] /\ F[0] = base /\ \A i \in 1 .. k : F[i] = step[<<F[i - 1], i>>]
           A == {k \in Nat : k <= n => \E F : Good(F, k)}
<1>1. 0 \in A
    <2>1. Good([i \in 0 .. 0 |-> base], 0)
        OBVIOUS
    <2> HIDE DEF Good
    <2> QED
        BY <2>1
<1>2. ASSUME NEW k \in Nat, k \in A
      PROVE  k + 1 \in A
    <2> SUFFICES ASSUME k + 1 <= n PROVE \E F : Good(F, k + 1)
        OBVIOUS
    <2>1. PICK F : Good(F, k)
        <3> HIDE DEF Good
        <3> QED
            BY <1>2
    <2> PICK G : G = [i \in 0 .. k + 1 |-> IF i = k + 1 THEN step[<<F[k], k + 1>>] ELSE F[i]]
        OBVIOUS
    <2>2. F[k] \in S /\ k + 1 \in 1 .. n
        BY <2>1
    <2>3. step[<<F[k], k + 1>>] \in S
        BY <2>2
    <2>4. G \in [0 .. k + 1 -> S] /\ G[0] = base
        BY <2>1, <2>3
    <2>5. \A i \in 1 .. k + 1 : G[i] = step[<<G[i - 1], i>>]
        <3> TAKE i \in 1 .. k + 1
        <3>1. CASE i = k + 1
            <4>1. G[k] = F[k] /\ G[k + 1] = step[<<F[k], k + 1>>] /\ k + 1 - 1 = k
                OBVIOUS
            <4> QED
                BY ONLY <3>1, <4>1
        <3>2. CASE i \in 1 .. k
            BY <2>1, <3>2
        <3> QED
            BY <3>1, <3>2
    <2>6. Good(G, k + 1)
        BY <2>4, <2>5
    <2> HIDE DEF Good
    <2> QED
        BY <2>6
<1>3. n \in A
    <2> HIDE DEF A
    <2> QED
        BY <1>1, <1>2, SetInduction
<1>4. \E F : Good(F, n)
    <2> HIDE DEF Good
    <2> QED
        BY <1>3
<1> QED
    BY <1>4

Descends(S, X, head, next) ==
    \A T \in SUBSET S : T # {} => head[T] \in X /\ next[T] \in SUBSET T /\ next[T] # T
Follows(F, S, head, next) ==
    \A T \in SUBSET S : F[T] = IF T = {} THEN << >> ELSE << head[T] >> \o F[next[T]]

LEMMA ChainDefined ==
    ASSUME NEW S, IsFiniteSet(S), NEW X, NEW head, NEW next, Descends(S, X, head, next)
    PROVE  \E F \in [SUBSET S -> Seq(X)] : Follows(F, S, head, next)
<1> USE DEF Descends, Follows
<1> DEFINE Small(k) == {T \in SUBSET S : Cardinality(T) <= k}
           Fits(F, T) == F[T] = IF T = {} THEN << >> ELSE << head[T] >> \o F[next[T]]
           Good(F, k) == F \in [Small(k) -> Seq(X)] /\ \A T \in Small(k) : Fits(F, T)
           A == {k \in Nat : \E F : Good(F, k)}
<1>1. \A T \in SUBSET S : /\ IsFiniteSet(T) /\ Cardinality(T) \in Nat /\ (Cardinality(T) = 0 <=> T = {})
                          /\ T # {} => Cardinality(next[T]) < Cardinality(T)
    BY FS_Subset, FS_CardinalityType, FS_EmptySet
<1>2. \A k \in Nat : \A T \in Small(k + 1) : T # {} => next[T] \in Small(k) /\ head[T] \in X
    <2> TAKE k \in Nat
    <2> TAKE T \in Small(k + 1)
    <2> HAVE T # {}
    <2>1. next[T] \in SUBSET S /\ Cardinality(next[T]) \in Nat /\ Cardinality(next[T]) < Cardinality(T) /\ Cardinality(T) <= k + 1
          /\ Cardinality(T) \in Nat
        BY <1>1
    <2> QED
        BY <2>1
<1>3. 0 \in A
    <2>1. \A T \in Small(0) : T = {}
        BY <1>1
    <2>2. Good([T \in Small(0) |-> << >>], 0)
        BY <2>1
    <2> HIDE DEF Good
    <2> QED
        BY <2>2
<1>4. ASSUME NEW k \in Nat, k \in A
      PROVE  k + 1 \in A
    <2>1. PICK F : Good(F, k)
        <3> HIDE DEF Good
        <3> QED
            BY <1>4
    <2> PICK G : G = [T \in Small(k + 1) |-> IF T = {} THEN << >> ELSE << head[T] >> \o F[next[T]]]
        OBVIOUS
    <2>2. \A T \in Small(k) : T \in Small(k + 1)
        BY <1>1
    <2>3. \A T \in Small(k) : G[T] = F[T]
        BY <2>1, <2>2
    <2>4. ASSUME NEW T \in Small(k + 1)
          PROVE  G[T] \in Seq(X) /\ Fits(G, T)
        <3>1. CASE T = {}
            BY <3>1
        <3>2. CASE T # {}
            <4>1. next[T] \in Small(k) /\ head[T] \in X
                BY <1>2, <3>2
            <4>2. F[next[T]] \in Seq(X) /\ G[next[T]] = F[next[T]]
                BY <2>1, <2>3, <4>1
            <4>3. << head[T] >> \o F[next[T]] \in Seq(X)
                <5>1. << head[T] >> \in Seq(X)
                    BY <4>1
                <5> QED
                    BY ONLY <4>2, <5>1
            <4>4. G[T] = << head[T] >> \o F[next[T]]
                BY <3>2
            <4> QED
                BY <3>2, <4>2, <4>3, <4>4
        <3> QED
            BY <3>1, <3>2
    <2>5. Good(G, k + 1)
        <3>1. G \in [Small(k + 1) -> Seq(X)]
            BY <2>4
        <3> HIDE DEF Fits, Small
        <3> QED
            BY <2>4, <3>1
    <2> HIDE DEF Good
    <2> QED
        BY <2>5
<1>5. Nat \subseteq A
    <2> HIDE DEF A
    <2> QED
        BY <1>3, <1>4, SetInduction
<1>6. PICK F : Good(F, Cardinality(S))
    <2>1. Cardinality(S) \in A
        BY <1>1, <1>5
    <2> HIDE DEF Good
    <2> QED
        BY <2>1
<1>7. Small(Cardinality(S)) = SUBSET S
    BY FS_Subset
<1> QED
    BY <1>6, <1>7

LEMMA NothingIn == ToSet(<< >>) = {} /\ \A e : ~Contains(<< >>, e)
BY DEF ToSet, Contains

LEMMA Prepending ==
    ASSUME NEW S, NEW s \in Seq(S), NEW x \in S
    PROVE  /\ << x >> \o s \in Seq(S) /\ ToSet(<< x >> \o s) = {x} \cup ToSet(s)
           /\ Len(<< x >> \o s) = Len(s) + 1 /\ (<< x >> \o s)[1] = x
           /\ \A i \in 1 .. Len(s) : (<< x >> \o s)[i + 1] = s[i]
<1> PICK j : j = << x >> \o s
    OBVIOUS
<1>1. << x >> \in Seq(S) /\ Len(<< x >>) = 1 /\ << x >>[1] = x
    OBVIOUS
<1>2. /\ j \in Seq(S) /\ Len(j) = 1 + Len(s)
      /\ \A i \in 1 .. 1 + Len(s) : j[i] = IF i <= 1 THEN << x >>[i] ELSE s[i - 1]
    BY <1>1, ConcatProperties
<1>3. j[1] = x /\ \A i \in 1 .. Len(s) : j[i + 1] = s[i]
    BY <1>1, <1>2
<1>4. /\ \A i \in 1 .. Len(s) + 1 : i = 1 \/ (i - 1 \in 1 .. Len(s) /\ i = i - 1 + 1)
      /\ 1 \in 1 .. Len(s) + 1 /\ \A i \in 1 .. Len(s) : i + 1 \in 1 .. Len(s) + 1
    OBVIOUS
<1>5. ToSet(j) = {x} \cup ToSet(s)
    <2>1. DOMAIN j = 1 .. Len(s) + 1 /\ DOMAIN s = 1 .. Len(s)
        BY <1>2
    <2>2. \A i \in 1 .. Len(s) + 1 : j[i] \in {x} \cup {s[k] : k \in 1 .. Len(s)}
        <3> TAKE i \in 1 .. Len(s) + 1
        <3>1. CASE i = 1
            BY <1>3, <3>1
        <3>2. CASE i # 1
            <4> PICK k : k = i - 1
                OBVIOUS
            <4>1. k \in 1 .. Len(s) /\ i = k + 1
                BY <1>4, <3>2
            <4>2. j[i] = s[k]
                BY <1>3, <4>1
            <4> QED
                BY <4>1, <4>2
        <3> QED
            BY <3>1, <3>2
    <2>3. x \in {j[i] : i \in 1 .. Len(s) + 1} /\ \A k \in 1 .. Len(s) : s[k] \in {j[i] : i \in 1 .. Len(s) + 1}
        BY ONLY <1>3, <1>4
    <2> QED
        BY ONLY <2>1, <2>2, <2>3 DEF ToSet
<1> QED
    BY <1>2, <1>3, <1>5

Heads(head, T) == {head[U] : U \in (SUBSET T) \ {{}}}
Covers(S, head, next) == \A U \in SUBSET S : U # {} => U \subseteq {head[U]} \cup next[U]

\* What such a chain holds: the heads of the sets it goes through, and every
\* element if none is dropped on the way.
LEMMA ChainFacts ==
    ASSUME NEW S, IsFiniteSet(S), NEW X, NEW head, NEW next, Descends(S, X, head, next), NEW F, Follows(F, S, head, next)
    PROVE  \A T \in SUBSET S : /\ F[T] \in Seq(X)
                               /\ ToSet(F[T]) \subseteq Heads(head, T)
                               /\ Covers(S, head, next) => T \subseteq ToSet(F[T])
<1> USE DEF Heads, Covers
<1> DEFINE Fact(T) == /\ F[T] \in Seq(X)
                      /\ ToSet(F[T]) \subseteq {head[U] : U \in (SUBSET T) \ {{}}}
                      /\ (\A U \in SUBSET S : U # {} => U \subseteq {head[U]} \cup next[U]) => T \subseteq ToSet(F[T])
           A == {k \in Nat : \A T \in SUBSET S : Cardinality(T) <= k => Fact(T)}
<1>1. \A T \in SUBSET S : /\ IsFiniteSet(T) /\ Cardinality(T) \in Nat /\ (Cardinality(T) = 0 <=> T = {})
                          /\ T # {} => Cardinality(next[T]) < Cardinality(T)
    BY FS_Subset, FS_CardinalityType, FS_EmptySet DEF Descends
<1>2. Fact({})
    <2>1. F[{}] = << >>
        BY DEF Follows
    <2> QED
        BY <2>1, NothingIn
<1>3. ASSUME NEW T \in SUBSET S, T # {}, Fact(next[T])
      PROVE  Fact(T)
    <2> PICK h, N, rest : h = head[T] /\ N = next[T] /\ rest = F[N]
        OBVIOUS
    <2>1. h \in X /\ N \in SUBSET T /\ F[T] = << h >> \o rest
        BY <1>3 DEF Descends, Follows
    <2>2. /\ rest \in Seq(X) /\ ToSet(rest) \subseteq {head[U] : U \in (SUBSET N) \ {{}}}
          /\ (\A U \in SUBSET S : U # {} => U \subseteq {head[U]} \cup next[U]) => N \subseteq ToSet(rest)
        BY <1>3
    <2>3. F[T] \in Seq(X) /\ ToSet(F[T]) = {h} \cup ToSet(rest)
        BY ONLY <2>1, <2>2, Prepending
    <2>4. h \in {head[U] : U \in (SUBSET T) \ {{}}} /\ {head[U] : U \in (SUBSET N) \ {{}}} \subseteq {head[U] : U \in (SUBSET T) \ {{}}}
        <3>1. T \in (SUBSET T) \ {{}} /\ h = head[T]
            BY <1>3
        <3>2. (SUBSET N) \ {{}} \subseteq (SUBSET T) \ {{}}
            BY <2>1
        <3> QED
            BY ONLY <3>1, <3>2
    <2>5. (\A U \in SUBSET S : U # {} => U \subseteq {head[U]} \cup next[U]) => T \subseteq {h} \cup N
        BY <1>3
    <2> QED
        BY <2>2, <2>3, <2>4, <2>5
<1> HIDE DEF Fact
<1>4. 0 \in A
    <2>1. \A T \in SUBSET S : Cardinality(T) <= 0 => T = {}
        BY <1>1
    <2> QED
        BY <1>2, <2>1
<1>5. ASSUME NEW k \in Nat, k \in A
      PROVE  k + 1 \in A
    <2> SUFFICES ASSUME NEW T \in SUBSET S, Cardinality(T) <= k + 1 PROVE Fact(T)
        OBVIOUS
    <2>1. CASE T = {}
        BY <1>2, <2>1
    <2>2. CASE T # {}
        <3>1. next[T] \in SUBSET S /\ Cardinality(next[T]) \in Nat /\ Cardinality(next[T]) < Cardinality(T) /\ Cardinality(T) \in Nat
            BY <1>1, <2>2 DEF Descends
        <3>2. Cardinality(next[T]) <= k
            BY <3>1
        <3>3. Fact(next[T])
            BY <1>5, <3>1, <3>2
        <3> QED
            BY <1>3, <2>2, <3>3
    <2> QED
        BY <2>1, <2>2
<1>6. Nat \subseteq A
    <2> HIDE DEF A
    <2> QED
        BY <1>4, <1>5, SetInduction
<1>7. \A T \in SUBSET S : Fact(T)
    <2> TAKE T \in SUBSET S
    <2>1. Cardinality(T) \in A /\ Cardinality(T) <= Cardinality(T)
        BY <1>1, <1>6
    <2> QED
        BY <2>1
<1> QED
    BY <1>7 DEF Fact

-----------------------------------------------------------------------------
(* The task workspace: the board. *)

TaskNodes == [status : {"absent", "Todo", "Done", "Cancelled"}, deps : Seq(BoardTasks), kids : Seq(BoardTasks), logs : Seq(Nat)]
Boards == [BoardTasks -> TaskNodes]

Mutual(b) == \A t, u \in BoardTasks : Contains(b[t].deps, u) <=> Contains(b[u].kids, t)

\* A board with both ends of every link, and nothing where there is no task.
Whole(b) ==
    /\ b \in Boards /\ Mutual(b)
    /\ \A t \in BoardTasks : b[t].status = "absent" => b[t] = Absent

\* Not only the file: every board that a tool is about to save or saves, as long
\* as no two had the file open together.
BoardInv ==
    /\ Whole(wbFile) /\ wbLines \in Nat
    /\ wbCall = [c \in Callers |-> wbCall[c]]
    /\ \A c \in Callers : wbCall[c].at # "mixing"
    /\ \A c \in Busy : Whole(wbCall[c].board)
BoardsOK == wbMixed \/ BoardInv

LinesKept(b) == \A l \in 1 .. wbLines : l \in wbArchive \cup wbDropped \cup LinesOn(b)

\* One board at a time is on its way from the file and back.
LinesInv ==
    /\ \A c, d \in Busy : c = d
    /\ Busy = {} => LinesKept(wbFile)
    /\ \A c \in Busy : LinesKept(wbCall[c].board)
LinesOK == wbOverlap \/ (~wbMixed /\ LinesInv)

\* A tool has loaded the board and made another of it: what was in a log is
\* there, in the archive or dropped on purpose, and so is a new line.
Prepares(c, b) ==
    /\ Prepare(c, b) /\ Whole(b) /\ UNCHANGED savedVars
    /\ wbArchive \subseteq wbArchive' /\ wbDropped \subseteq wbDropped'
    /\ wbLines' \in {wbLines, wbLines + 1}
    /\ \A t \in BoardTasks : ToSet(wbFile[t].logs) \subseteq wbArchive' \cup wbDropped' \cup ToSet(b[t].logs)
    /\ wbLines' # wbLines => wbLines' \in wbDropped' \cup LinesOn(b)

LEMMA BusyIs == \A c \in Callers : c \in Busy <=> wbCall[c].at \in {"saving", "writing", "mixing"}
BY DEF Busy

LEMMA PreparingKeepsBoards ==
    ASSUME BoardInv, ~wbMixed, NEW c \in Callers, NEW b, Prepares(c, b)
    PROVE  BoardInv' /\ ~wbMixed' /\ (LinesInv => wbOverlap' \/ LinesInv')
<1>1. /\ wbCall' = [wbCall EXCEPT ![c] = [at |-> "saving", board |-> b]] /\ wbCall[c].at = "idle"
      /\ wbCall = [d \in Callers |-> wbCall[d]] /\ wbLines \in Nat /\ ~wbMixed'
      /\ ~wbOverlap' => Busy = {}
    BY DEF Prepares, Prepare, BoardInv, savedVars
<1>2. /\ wbCall'[c].at = "saving" /\ wbCall'[c].board = b /\ wbCall' = [d \in Callers |-> wbCall'[d]]
      /\ \A d \in Callers \ {c} : wbCall'[d] = wbCall[d]
    BY <1>1
<1>3. Busy' = Busy \cup {c}
    BY <1>2 DEF Busy
<1>4. BoardInv'
    <2>1. Whole(wbFile) /\ Whole(b) /\ wbFile' = wbFile /\ wbLines' \in Nat
        BY <1>1 DEF Prepares, BoardInv, savedVars
    <2>2. \A d \in Busy' : Whole(wbCall'[d].board)
        <3> TAKE d \in Busy'
        <3>1. d = c \/ (d \in Busy /\ wbCall'[d] = wbCall[d])
            BY <1>2, <1>3 DEF Busy
        <3> QED
            BY <1>2, <2>1, <3>1 DEF BoardInv
    <2>3. \A d \in Callers : wbCall'[d].at # "mixing"
        BY <1>2 DEF BoardInv
    <2>4. Whole(wbFile)'
        BY <2>1 DEF Whole, Mutual
    <2>5. \A d \in Busy' : Whole(wbCall[d].board)'
        BY <2>2 DEF Whole, Mutual
    <2> QED
        BY <1>2, <2>1, <2>3, <2>4, <2>5 DEF BoardInv
<1>5. ASSUME LinesInv, ~wbOverlap'
      PROVE  LinesInv'
    <2>1. LinesKept(wbFile) /\ Busy' = {c}
        BY <1>1, <1>3, <1>5 DEF LinesInv
    <2>2. \A l \in 1 .. wbLines' : l \in wbArchive' \cup wbDropped' \cup LinesOn(b)
        <3> TAKE l \in 1 .. wbLines'
        <3>1. l \in 1 .. wbLines \/ (l = wbLines' /\ wbLines' # wbLines)
            BY <1>1 DEF Prepares
        <3>2. LinesOn(wbFile) \subseteq wbArchive' \cup wbDropped' \cup LinesOn(b)
            BY DEF LinesOn, Prepares
        <3> QED
            BY <2>1, <3>1, <3>2 DEF LinesKept, Prepares
    <2>3. LinesKept(wbCall[c].board)'
        BY <1>2, <2>2 DEF LinesKept, LinesOn
    <2> QED
        BY <2>1, <2>3 DEF LinesInv
<1> QED
    BY <1>1, <1>4, <1>5

LEMMA Appending ==
    ASSUME NEW S, NEW s \in Seq(S), NEW x \in S
    PROVE  /\ Append(s, x) \in Seq(S) /\ ToSet(Append(s, x)) = ToSet(s) \cup {x}
           /\ \A e : Contains(Append(s, x), e) <=> Contains(s, e) \/ e = x
<1>1. /\ Append(s, x) \in Seq(S) /\ Len(Append(s, x)) = Len(s) + 1 /\ Append(s, x)[Len(s) + 1] = x
      /\ \A i \in 1 .. Len(s) : Append(s, x)[i] = s[i]
    BY AppendProperties
<1>2. DOMAIN s = 1 .. Len(s) /\ DOMAIN Append(s, x) = 1 .. Len(s) + 1 /\ Len(s) \in Nat
    BY <1>1
<1>3. \A i : i \in 1 .. Len(s) + 1 <=> i \in 1 .. Len(s) \/ i = Len(s) + 1
    BY <1>2
<1> QED
    BY <1>1, <1>2, <1>3 DEF ToSet, Contains

\* What compressing a log keeps of its end.
LEMMA TheLastTwo ==
    ASSUME NEW S, NEW s \in Seq(S), Len(s) > 3
    PROVE  SubSeq(s, Len(s) - 1, Len(s)) \in Seq(S)
<1> PICK n : n = Len(s)
    OBVIOUS
<1>1. n \in Nat /\ n > 3 /\ \A i \in 1 .. n : s[i] \in S
    OBVIOUS
<1>2. \A i \in n - 1 .. n : i \in 1 .. n
    BY <1>1
<1>3. n \in Int /\ n - 1 \in Int /\ \A i \in n - 1 .. n : s[i] \in S
    BY ONLY <1>1, <1>2
<1> QED
    BY <1>3, SubSeqProperties

WithLink(b, t, p) == [b EXCEPT ![t].deps = Append(@, p), ![p].kids = Append(@, t)]
Retold(b, t, status, logs) == [b EXCEPT ![t].status = status, ![t].logs = logs]

\* A task is among its dependency's children, and names it.
LEMMA LinkingIsMutual ==
    ASSUME NEW b, Whole(b), NEW t \in OnBoard(b), NEW p \in OnBoard(b), NEW n, n = WithLink(b, t, p)
    PROVE  Whole(n) /\ \A u \in BoardTasks : n[u].logs = b[u].logs
<1>1. b \in Boards /\ t \in BoardTasks /\ p \in BoardTasks /\ b[t].status # "absent" /\ b[p].status # "absent"
    BY DEF Whole, OnBoard
<1>2. \A u \in BoardTasks : /\ b[u] \in TaskNodes /\ b[u].deps \in Seq(BoardTasks) /\ b[u].kids \in Seq(BoardTasks)
    BY <1>1 DEF Boards, TaskNodes
<1>3. /\ Append(b[t].deps, p) \in Seq(BoardTasks) /\ \A e : Contains(Append(b[t].deps, p), e) <=> Contains(b[t].deps, e) \/ e = p
      /\ Append(b[p].kids, t) \in Seq(BoardTasks) /\ \A e : Contains(Append(b[p].kids, t), e) <=> Contains(b[p].kids, e) \/ e = t
    BY <1>1, <1>2, Appending
<1> PICK ds, ks : ds = Append(b[t].deps, p) /\ ks = Append(b[p].kids, t)
    OBVIOUS
<1>7. /\ ds \in Seq(BoardTasks) /\ \A e : Contains(ds, e) <=> Contains(b[t].deps, e) \/ e = p
      /\ ks \in Seq(BoardTasks) /\ \A e : Contains(ks, e) <=> Contains(b[p].kids, e) \/ e = t
    BY <1>3
<1>4. /\ n \in Boards
      /\ \A u \in BoardTasks : /\ n[u].status = b[u].status /\ n[u].logs = b[u].logs
                               /\ n[u].deps = (IF u = t THEN ds ELSE b[u].deps) /\ n[u].kids = (IF u = p THEN ks ELSE b[u].kids)
                               /\ u \notin {t, p} => n[u] = b[u]
    <2>1. n = [[b EXCEPT ![t] = [b[t] EXCEPT !.deps = ds]] EXCEPT ![p].kids = ks]
        <3>1. t # p => [b EXCEPT ![t].deps = Append(@, p)][p].kids = b[p].kids
            BY <1>1 DEF Boards
        <3>2. t = p => [b EXCEPT ![t].deps = Append(@, p)][p].kids = b[p].kids
            BY <1>1, <1>2 DEF Boards, TaskNodes
        <3> QED
            BY <3>1, <3>2 DEF WithLink
    <2> PICK m : m = [b EXCEPT ![t] = [b[t] EXCEPT !.deps = ds]]
        OBVIOUS
    <2>2. [b[t] EXCEPT !.deps = ds] \in TaskNodes
        BY <1>1, <1>2, <1>3 DEF TaskNodes
    <2>3. /\ m \in Boards /\ \A u \in BoardTasks : u # t => m[u] = b[u]
          /\ m[t] = [b[t] EXCEPT !.deps = ds]
        BY <1>1, <2>2 DEF Boards
    <2>4. m[t].deps = ds /\ m[t].kids = b[t].kids /\ m[t].logs = b[t].logs /\ m[t].status = b[t].status
        BY <1>1, <1>2, <2>3 DEF TaskNodes
    <2>5. m[p] \in TaskNodes /\ n = [m EXCEPT ![p].kids = ks]
        BY <1>1, <2>1, <2>3 DEF Boards
    <2>6. [m[p] EXCEPT !.kids = ks] \in TaskNodes
        BY <1>3, <2>5 DEF TaskNodes
    <2>7. n \in Boards /\ (\A u \in BoardTasks : u # p => n[u] = m[u]) /\ n[p] = [m[p] EXCEPT !.kids = ks]
        <3> PICK r : r = [m[p] EXCEPT !.kids = ks]
            OBVIOUS
        <3>1. m \in [BoardTasks -> TaskNodes] /\ n = [m EXCEPT ![p] = r] /\ r \in TaskNodes /\ p \in BoardTasks
            BY <1>1, <2>3, <2>5, <2>6 DEF Boards
        <3>2. n \in [BoardTasks -> TaskNodes] /\ (\A u \in BoardTasks : u # p => n[u] = m[u]) /\ n[p] = r
            BY ONLY <3>1
        <3> QED
            BY <3>2 DEF Boards
    <2>8. n[p].deps = m[p].deps /\ n[p].kids = ks /\ n[p].logs = m[p].logs /\ n[p].status = m[p].status
        BY <2>5, <2>7 DEF TaskNodes
    <2>9. ASSUME NEW u \in BoardTasks
          PROVE  /\ n[u].status = b[u].status /\ n[u].logs = b[u].logs
                 /\ n[u].deps = (IF u = t THEN ds ELSE b[u].deps) /\ n[u].kids = (IF u = p THEN ks ELSE b[u].kids)
                 /\ u \notin {t, p} => n[u] = b[u]
        <3>1. CASE u # p /\ u # t
            <4>1. n[u] = b[u]
                BY <2>3, <2>7, <3>1
            <4> QED
                BY ONLY <3>1, <4>1
        <3>2. CASE u # p /\ u = t
            BY <2>4, <2>7, <3>2
        <3>3. CASE u = p /\ u # t
            BY <2>3, <2>8, <3>3
        <3>4. CASE u = p /\ u = t
            BY <2>4, <2>8, <3>4
        <3> QED
            BY <3>1, <3>2, <3>3, <3>4
    <2> QED
        BY <2>7, <2>9
<1>5. Mutual(n)
    <2> SUFFICES ASSUME NEW u \in BoardTasks, NEW v \in BoardTasks
                 PROVE  Contains(n[u].deps, v) <=> Contains(n[v].kids, u)
        BY DEF Mutual
    <2>1. Contains(b[u].deps, v) <=> Contains(b[v].kids, u)
        BY DEF Whole, Mutual
    <2>2. Contains(n[u].deps, v) <=> Contains(b[u].deps, v) \/ (u = t /\ v = p)
        <3>1. CASE u = t
            <4>1. n[u].deps = ds
                BY <1>4, <3>1
            <4> QED
                BY ONLY <1>7, <3>1, <4>1
        <3>2. CASE u # t
            <4>1. n[u].deps = b[u].deps
                BY <1>4, <3>2
            <4> QED
                BY ONLY <3>2, <4>1
        <3> QED
            BY <3>1, <3>2
    <2>3. Contains(n[v].kids, u) <=> Contains(b[v].kids, u) \/ (v = p /\ u = t)
        <3>1. CASE v = p
            <4>1. n[v].kids = ks
                BY <1>4, <3>1
            <4> QED
                BY ONLY <1>7, <3>1, <4>1
        <3>2. CASE v # p
            <4>1. n[v].kids = b[v].kids
                BY <1>4, <3>2
            <4> QED
                BY ONLY <3>2, <4>1
        <3> QED
            BY <3>1, <3>2
    <2> QED
        BY <2>1, <2>2, <2>3
<1>6. \A u \in BoardTasks : n[u].status = "absent" => n[u] = Absent
    BY <1>1, <1>4 DEF Whole
<1> QED
    BY <1>4, <1>5, <1>6 DEF Whole

\* Tools that change no link.
LEMMA RewritingIsWhole ==
    ASSUME NEW b, Whole(b), NEW n \in Boards,
           \A u \in BoardTasks : /\ n[u].deps = b[u].deps /\ n[u].kids = b[u].kids
                                 /\ n[u].status = "absent" => n[u] = b[u]
    PROVE  Whole(n)
BY DEF Whole, Mutual

LEMMA AddingPrepares ==
    ASSUME BoardInv, NEW c \in Callers, NEW t \in BoardTasks, NEW dep \in BoardTasks, AddBoardTask(c, t, dep)
    PROVE  \E b : Prepares(c, b)
<1>1. wbFile \in Boards /\ Whole(wbFile) /\ wbFile[t] = Absent
    BY DEF AddBoardTask, BoardInv, Whole, OnBoard
<1> PICK added : added = [wbFile EXCEPT ![t] = NewTask]
    OBVIOUS
<1>2. NewTask \in TaskNodes /\ NewTask.deps = << >> /\ NewTask.kids = << >> /\ NewTask.logs = << >> /\ NewTask.status = "Todo"
    <2>1. << >> \in Seq(BoardTasks) /\ << >> \in Seq(Nat)
        OBVIOUS
    <2>2. PICK nothing : nothing = << >>
        OBVIOUS
    <2>3. NewTask = [status |-> "Todo", deps |-> nothing, kids |-> nothing, logs |-> nothing]
        BY <2>2 DEF NewTask, Absent
    <2>4. nothing \in Seq(BoardTasks) /\ nothing \in Seq(Nat)
        BY <2>1, <2>2
    <2>5. NewTask \in TaskNodes /\ NewTask.deps = nothing /\ NewTask.kids = nothing /\ NewTask.logs = nothing /\ NewTask.status = "Todo"
        BY ONLY <2>3, <2>4 DEF TaskNodes
    <2> QED
        BY <2>2, <2>5
<1>3. added \in Boards /\ added[t] = NewTask /\ \A u \in BoardTasks : u # t => added[u] = wbFile[u]
    BY <1>1, <1>2 DEF Boards
<1>4. Absent.deps = << >> /\ Absent.kids = << >> /\ Absent.logs = << >>
    BY DEF Absent
<1>5. \A u \in BoardTasks : /\ added[u].deps = wbFile[u].deps /\ added[u].kids = wbFile[u].kids /\ added[u].logs = wbFile[u].logs
                            /\ added[u].status = "absent" => added[u] = wbFile[u]
    <2> TAKE u \in BoardTasks
    <2>1. CASE u = t
        BY <1>1, <1>2, <1>3, <1>4, <2>1
    <2>2. CASE u # t
        <3>1. added[u] = wbFile[u]
            BY <1>3, <2>2
        <3> QED
            BY <3>1
    <2> QED
        BY <2>1, <2>2
<1>6. Whole(added) /\ t \in OnBoard(added)
    BY <1>1, <1>2, <1>3, <1>5, RewritingIsWhole DEF OnBoard
<1> PICK n : n = IF dep \in OnBoard(added)
                 THEN [added EXCEPT ![t].deps = Append(@, dep), ![dep].kids = Append(@, t)]
                 ELSE added
    OBVIOUS
<1>7. Whole(n) /\ \A u \in BoardTasks : n[u].logs = wbFile[u].logs
    <2>1. CASE dep \in OnBoard(added)
        <3>1. n = WithLink(added, t, dep)
            BY <2>1 DEF WithLink
        <3>2. Whole(n) /\ \A u \in BoardTasks : n[u].logs = added[u].logs
            BY ONLY <1>6, <2>1, <3>1, LinkingIsMutual
        <3> QED
            BY <1>5, <3>2
    <2>2. CASE dep \notin OnBoard(added)
        BY <1>5, <1>6, <2>2
    <2> QED
        BY <2>1, <2>2
<1>8. Prepare(c, n) /\ UNCHANGED <<savedVars, wbLines, wbArchive, wbDropped>>
    BY DEF AddBoardTask
<1>9. \A u \in BoardTasks : ToSet(wbFile[u].logs) \subseteq wbArchive' \cup wbDropped' \cup ToSet(n[u].logs)
    BY <1>7
<1> QED
    BY <1>7, <1>8, <1>9 DEF Prepares

LEMMA LinkingPrepares ==
    ASSUME BoardInv, NEW c \in Callers, NEW p \in BoardTasks, NEW t \in BoardTasks, LinkTasks(c, p, t)
    PROVE  \E b : Prepares(c, b)
<1>1. /\ Whole(wbFile) /\ wbFile \in Boards /\ p \in OnBoard(wbFile) /\ t \in OnBoard(wbFile)
      /\ Prepare(c, Linked(wbFile, p, t)) /\ UNCHANGED <<savedVars, wbLines, wbArchive, wbDropped>>
    BY DEF LinkTasks, BoardInv, Whole
<1> PICK n : n = Linked(wbFile, p, t)
    OBVIOUS
<1>2. Whole(n) /\ \A u \in BoardTasks : n[u].logs = wbFile[u].logs
    <2>1. Contains(wbFile[t].deps, p) <=> Contains(wbFile[p].kids, t)
        BY <1>1 DEF Whole, Mutual
    <2>2. CASE Contains(wbFile[t].deps, p)
        <3>1. n = wbFile
            BY <2>1, <2>2 DEF Linked
        <3> QED
            BY <1>1, <3>1
    <2>3. CASE ~Contains(wbFile[t].deps, p)
        <3> PICK child : child = [wbFile EXCEPT ![t].deps = Append(@, p)]
            OBVIOUS
        <3>1. wbFile[p] \in TaskNodes /\ wbFile[t] \in TaskNodes
            BY <1>1 DEF Boards
        <3>2. child[p].kids = wbFile[p].kids
            <4>1. CASE p = t
                BY <1>1, <3>1, <4>1 DEF Boards, TaskNodes
            <4>2. CASE p # t
                BY <1>1, <4>2 DEF Boards
            <4> QED
                BY <4>1, <4>2
        <3>3. n = [child EXCEPT ![p].kids = Append(@, t)]
            BY <2>1, <2>3, <3>2 DEF Linked
        <3>4. n = WithLink(wbFile, t, p)
            BY ONLY <3>3, child = [wbFile EXCEPT ![t].deps = Append(@, p)] DEF WithLink
        <3>5. Whole(wbFile) /\ t \in OnBoard(wbFile) /\ p \in OnBoard(wbFile)
            BY <1>1
        <3> QED
            BY ONLY <3>4, <3>5, LinkingIsMutual
    <2> QED
        BY <2>2, <2>3
<1>3. \A u \in BoardTasks : ToSet(wbFile[u].logs) \subseteq wbArchive' \cup wbDropped' \cup ToSet(n[u].logs)
    BY <1>2
<1> QED
    BY <1>1, <1>2, <1>3 DEF Prepares

\* One task with another status and another log.
LEMMA RetellingOne ==
    ASSUME BoardInv, NEW t \in OnBoard(wbFile), NEW status \in {"Todo", "Done", "Cancelled"}, NEW logs \in Seq(Nat), NEW n,
           n = Retold(wbFile, t, status, logs)
    PROVE  Whole(n) /\ n[t].logs = logs /\ \A u \in BoardTasks : u # t => n[u].logs = wbFile[u].logs
<1>1. wbFile \in Boards /\ Whole(wbFile) /\ t \in BoardTasks /\ wbFile[t] \in TaskNodes /\ wbFile[t].status # "absent"
    BY DEF BoardInv, Whole, OnBoard, Boards
<1> PICK r : r = [wbFile[t] EXCEPT !.status = status, !.logs = logs]
    OBVIOUS
<1>2. r \in TaskNodes /\ r.status = status /\ r.logs = logs /\ r.deps = wbFile[t].deps /\ r.kids = wbFile[t].kids
    BY <1>1 DEF TaskNodes
<1>3. n = [wbFile EXCEPT ![t] = r]
    BY <1>1 DEF Boards, Retold
<1>4. n \in Boards /\ n[t] = r /\ \A u \in BoardTasks : u # t => n[u] = wbFile[u]
    BY <1>1, <1>2, <1>3 DEF Boards
<1>5. \A u \in BoardTasks : /\ n[u].deps = wbFile[u].deps /\ n[u].kids = wbFile[u].kids
                            /\ n[u].status = "absent" => n[u] = wbFile[u]
    <2> TAKE u \in BoardTasks
    <2>1. CASE u = t
        BY <1>2, <1>4, <2>1
    <2>2. CASE u # t
        <3>1. n[u] = wbFile[u]
            BY <1>4, <2>2
        <3> QED
            BY <3>1
    <2> QED
        BY <2>1, <2>2
<1>6. Whole(n)
    BY <1>1, <1>4, <1>5, RewritingIsWhole
<1>7. \A u \in BoardTasks : u # t => n[u].logs = wbFile[u].logs
    BY <1>4
<1> QED
    BY <1>2, <1>4, <1>6, <1>7

LEMMA UpdatingPrepares ==
    ASSUME BoardInv, NEW c \in Callers, NEW t \in BoardTasks, NEW status \in {"Todo", "Done"}, NEW message \in BOOLEAN,
           UpdateStatus(c, t, status, message)
    PROVE  \E b : Prepares(c, b)
<1>1. /\ t \in OnBoard(wbFile) /\ wbLines \in Nat /\ wbFile[t].logs \in Seq(Nat)
      /\ wbLines' = IF message THEN wbLines + 1 ELSE wbLines
    BY DEF UpdateStatus, BoardInv, Whole, Boards, TaskNodes
<1> PICK logs : logs = IF message THEN Append(wbFile[t].logs, wbLines') ELSE wbFile[t].logs
    OBVIOUS
<1> PICK kept : kept = IF status = "Done" /\ Len(logs) > 3 THEN <<0>> \o SubSeq(logs, Len(logs) - 1, Len(logs)) ELSE logs
    OBVIOUS
<1> PICK n : n = [wbFile EXCEPT ![t].status = status, ![t].logs = kept]
    OBVIOUS
<1>2. /\ Prepare(c, n) /\ wbDropped' = wbDropped \union (ToSet(logs) \ ToSet(kept)) /\ UNCHANGED <<savedVars, wbArchive>>
    BY DEF UpdateStatus
<1>3. logs \in Seq(Nat) /\ ToSet(wbFile[t].logs) \subseteq ToSet(logs) /\ (message => wbLines' \in ToSet(logs))
    <2>1. CASE message
        <3>1. wbLines' \in Nat /\ wbFile[t].logs \in Seq(Nat) /\ logs = Append(wbFile[t].logs, wbLines')
            BY <1>1, <2>1
        <3>2. logs \in Seq(Nat) /\ ToSet(logs) = ToSet(wbFile[t].logs) \cup {wbLines'}
            BY ONLY <3>1, Appending
        <3> QED
            BY <3>2
    <2>2. CASE ~message
        BY <1>1, <2>2
    <2> QED
        BY <2>1, <2>2
<1>4. kept \in Seq(Nat)
    <2>1. Len(logs) > 3 => SubSeq(logs, Len(logs) - 1, Len(logs)) \in Seq(Nat)
        BY <1>3, TheLastTwo
    <2>2. <<0>> \in Seq(Nat)
        OBVIOUS
    <2> QED
        BY <1>3, <2>1, <2>2, ConcatProperties
<1>5. Whole(n) /\ n[t].logs = kept /\ \A u \in BoardTasks : u # t => n[u].logs = wbFile[u].logs
    <2>1. /\ t \in OnBoard(wbFile) /\ status \in {"Todo", "Done", "Cancelled"} /\ kept \in Seq(Nat)
          /\ n = Retold(wbFile, t, status, kept)
        BY <1>1, <1>4 DEF Retold
    <2> QED
        BY ONLY BoardInv, <2>1, RetellingOne
<1>6. \A u \in BoardTasks : ToSet(wbFile[u].logs) \subseteq wbArchive' \cup wbDropped' \cup ToSet(n[u].logs)
    <2>1. wbDropped' = wbDropped \cup (ToSet(logs) \ ToSet(kept))
        BY <1>2
    <2>2. ToSet(wbFile[t].logs) \subseteq wbDropped' \cup ToSet(kept)
        BY ONLY <1>3, <2>1
    <2> TAKE u \in BoardTasks
    <2>3. CASE u = t
        BY ONLY <1>5, <2>2, <2>3
    <2>4. CASE u # t
        <3>1. n[u].logs = wbFile[u].logs
            BY <1>5, <2>4
        <3> QED
            BY ONLY <3>1
    <2> QED
        BY <2>3, <2>4
<1>7. wbLines' # wbLines => wbLines' \in wbDropped' \cup LinesOn(n)
    BY <1>1, <1>2, <1>3, <1>5 DEF LinesOn
<1>8. wbLines' \in {wbLines, wbLines + 1} /\ wbArchive \subseteq wbArchive' /\ wbDropped \subseteq wbDropped'
    BY <1>1, <1>2
<1>9. Prepare(c, n) /\ Whole(n) /\ UNCHANGED savedVars
    BY <1>2, <1>5
<1>10. Prepares(c, n)
    BY ONLY <1>6, <1>7, <1>8, <1>9 DEF Prepares
<1> QED
    BY ONLY <1>10

LEMMA LoggingPrepares ==
    ASSUME BoardInv, NEW c \in Callers, NEW t \in BoardTasks, AppendLog(c, t)
    PROVE  \E b : Prepares(c, b)
<1>1. /\ t \in OnBoard(wbFile) /\ wbLines \in Nat /\ wbFile[t].logs \in Seq(Nat) /\ wbLines' = wbLines + 1
      /\ wbFile \in Boards /\ wbFile[t] \in TaskNodes /\ wbFile[t].status # "absent"
      /\ wbLines' \in Nat /\ UNCHANGED <<savedVars, wbArchive, wbDropped>>
    BY DEF AppendLog, BoardInv, Whole, Boards, TaskNodes, OnBoard
<1>0. PICK logs : logs = Append(wbFile[t].logs, wbLines')
    OBVIOUS
<1> PICK n : n = [wbFile EXCEPT ![t].logs = logs]
    OBVIOUS
<1>2. Prepare(c, n)
    BY <1>0, <1>1 DEF AppendLog
<1>3. logs \in Seq(Nat) /\ ToSet(logs) = ToSet(wbFile[t].logs) \cup {wbLines'}
    BY ONLY <1>0, <1>1, Appending
<1>4. n = Retold(wbFile, t, wbFile[t].status, logs)
    BY <1>0, <1>1 DEF Boards, TaskNodes, Retold
<1>5. wbFile[t].status \in {"Todo", "Done", "Cancelled"}
    BY <1>1 DEF TaskNodes
<1>6. Whole(n) /\ n[t].logs = logs /\ \A u \in BoardTasks : u # t => n[u].logs = wbFile[u].logs
    BY ONLY BoardInv, <1>1, <1>3, <1>4, <1>5, RetellingOne
<1>7. \A u \in BoardTasks : ToSet(wbFile[u].logs) \subseteq wbArchive' \cup wbDropped' \cup ToSet(n[u].logs)
    BY <1>3, <1>6
<1>8. wbLines' \in LinesOn(n)
    BY <1>3, <1>6 DEF LinesOn
<1> QED
    BY <1>1, <1>2, <1>6, <1>7, <1>8 DEF Prepares

\* Archiving takes the lines of the month out of a log, and no other.
LEMMA RemainingAreOthers ==
    ASSUME NEW s \in Seq(Nat), NEW g
    PROVE  /\ RemainingLines(s, g) \in Seq(Nat)
           /\ ToSet(s) \subseteq g \cup ToSet(RemainingLines(s, g))
           /\ s = << >> => RemainingLines(s, g) = << >>
<1> PICK m : m = Len(s)
    OBVIOUS
<1>1. m \in Nat /\ DOMAIN s = 1 .. m /\ \A i \in 1 .. m : s[i] \in Nat
    OBVIOUS
<1> DEFINE Rule(F) == F = [n \in 0 .. m |-> IF n = 0 THEN << >>
                                            ELSE IF s[n] \in g THEN F[n - 1] ELSE Append(F[n - 1], s[n])]
           K == CHOOSE F : Rule(F)
<1>2. RemainingLines(s, g) = K[m]
    BY DEF RemainingLines
<1>3. \E F : Rule(F) /\ F \in [0 .. m -> Seq(Nat)]
    <2> PICK step : step = [y \in Seq(Nat) \X (1 .. m) |-> IF s[y[2]] \in g THEN y[1] ELSE Append(y[1], s[y[2]])]
        OBVIOUS
    <2>1. ASSUME NEW i \in 1 .. m, NEW x \in Seq(Nat)
          PROVE  step[<<x, i>>] = (IF s[i] \in g THEN x ELSE Append(x, s[i])) /\ step[<<x, i>>] \in Seq(Nat)
        <3>1. step[<<x, i>>] = IF s[i] \in g THEN x ELSE Append(x, s[i])
            OBVIOUS
        <3>2. Append(x, s[i]) \in Seq(Nat)
            BY <1>1
        <3> QED
            BY <3>1, <3>2
    <2>2. << >> \in Seq(Nat)
        OBVIOUS
    <2>3. \A i \in 1 .. m, x \in Seq(Nat) : step[<<x, i>>] \in Seq(Nat)
        BY <2>1
    <2>4. PICK F \in [0 .. m -> Seq(Nat)] : F[0] = << >> /\ \A i \in 1 .. m : F[i] = step[<<F[i - 1], i>>]
        <3> PICK none, S : none = << >> /\ S = Seq(Nat)
            OBVIOUS
        <3>1. m \in Nat /\ none \in S /\ Advances(step, m, S)
            BY <1>1, <2>2, <2>3 DEF Advances
        <3>2. Runs(m, S, none, step) # {}
            BY ONLY <3>1, RecursionDefined
        <3> QED
            BY <3>2 DEF Runs
    <2>5. \A i \in 1 .. m : F[i] = IF s[i] \in g THEN F[i - 1] ELSE Append(F[i - 1], s[i])
        <3> TAKE i \in 1 .. m
        <3>1. i - 1 \in 0 .. m
            BY <1>1
        <3> QED
            BY <2>1, <2>4, <3>1
    <2>6. Rule(F)
        <3> PICK R : R = [n \in 0 .. m |-> IF n = 0 THEN << >> ELSE IF s[n] \in g THEN F[n - 1] ELSE Append(F[n - 1], s[n])]
            OBVIOUS
        <3>1. \A n \in 0 .. m : R[n] = F[n]
            <4> TAKE n \in 0 .. m
            <4>1. CASE n = 0
                BY <2>4, <4>1
            <4>2. CASE n \in 1 .. m
                <5>1. R[n] = IF s[n] \in g THEN F[n - 1] ELSE Append(F[n - 1], s[n])
                    BY <4>2
                <5> QED
                    BY <2>5, <4>2, <5>1
            <4> QED
                BY <1>1, <4>1, <4>2
        <3>2. R = F
            BY <3>1
        <3> QED
            BY <3>2
    <2> QED
        BY <2>6
<1>4. Rule(K)
    <2> HIDE DEF Rule
    <2> QED
        BY <1>3
<1> HIDE DEF K
<1> PICK F : F = K /\ Rule(F)
    BY <1>4
<1>13. F = [n \in 0 .. m |-> IF n = 0 THEN << >> ELSE IF s[n] \in g THEN F[n - 1] ELSE Append(F[n - 1], s[n])]
    OBVIOUS
<1>5. F[0] = << >> /\ DOMAIN F = 0 .. m
    BY ONLY <1>1, <1>13
<1>6. ASSUME NEW k \in 0 .. m, k + 1 \in 0 .. m
      PROVE  F[k + 1] = IF s[k + 1] \in g THEN F[k] ELSE Append(F[k], s[k + 1])
    <2> PICK l : l = k + 1
        OBVIOUS
    <2>1. l # 0 /\ l - 1 = k /\ l \in 0 .. m
        BY <1>1, <1>6
    <2>2. F[l] = IF s[l] \in g THEN F[l - 1] ELSE Append(F[l - 1], s[l])
        BY ONLY <1>13, <2>1
    <2>3. F[l] = IF s[l] \in g THEN F[k] ELSE Append(F[k], s[l])
        BY ONLY <2>1, <2>2
    <2> QED
        BY <2>3
<1> HIDE DEF Rule
<1> DEFINE A == {k \in Nat : k <= m => F[k] \in Seq(Nat) /\ \A i \in 1 .. k : s[i] \in g \cup ToSet(F[k])}
<1>7. 0 \in A
    <2>1. F[0] \in Seq(Nat) /\ \A i \in 1 .. 0 : FALSE
        BY <1>5
    <2> QED
        BY <2>1
<1>8. ASSUME NEW k \in Nat, k \in A
      PROVE  k + 1 \in A
    <2> SUFFICES ASSUME k + 1 <= m
                 PROVE  F[k + 1] \in Seq(Nat) /\ \A i \in 1 .. k + 1 : s[i] \in g \cup ToSet(F[k + 1])
        OBVIOUS
    <2>1. F[k] \in Seq(Nat) /\ (\A i \in 1 .. k : s[i] \in g \cup ToSet(F[k])) /\ k \in 0 .. m /\ k + 1 \in 1 .. m
        BY <1>1, <1>8
    <2>2. /\ F[k + 1] = (IF s[k + 1] \in g THEN F[k] ELSE Append(F[k], s[k + 1])) /\ s[k + 1] \in Nat
          /\ \A i \in 1 .. k + 1 : i \in 1 .. k \/ i = k + 1
        BY <1>1, <1>6, <2>1
    <2>3. CASE s[k + 1] \in g
        <3>1. F[k + 1] = F[k]
            BY <2>2, <2>3
        <3> QED
            BY <2>1, <2>2, <2>3, <3>1
    <2>4. CASE s[k + 1] \notin g
        <3>1. F[k + 1] = Append(F[k], s[k + 1])
            BY <2>2, <2>4
        <3>2. F[k + 1] \in Seq(Nat) /\ ToSet(F[k + 1]) = ToSet(F[k]) \cup {s[k + 1]}
            BY ONLY <2>1, <2>2, <3>1, Appending
        <3> QED
            BY <2>1, <2>2, <3>2
    <2> QED
        BY <2>3, <2>4
<1>9. m \in A
    <2> HIDE DEF A
    <2> QED
        BY <1>1, <1>7, <1>8, SetInduction
<1>10. F[m] \in Seq(Nat) /\ \A i \in 1 .. m : s[i] \in g \cup ToSet(F[m])
    BY <1>1, <1>9
<1>11. ToSet(s) \subseteq g \cup ToSet(F[m])
    BY <1>1, <1>10 DEF ToSet
<1>12. s = << >> => m = 0
    BY <1>1
<1> QED
    BY <1>2, <1>5, <1>10, <1>11, <1>12

\* A task with another status and another log.
Noted(d, s, logs) == [d EXCEPT !.status = s, !.logs = logs]

Statuses == {"absent", "Todo", "Done", "Cancelled"}
Notes == Seq(Nat)

LEMMA NodesRetold ==
    ASSUME NEW d \in TaskNodes, NEW s \in Statuses, NEW logs \in Notes, NEW r, r = Noted(d, s, logs)
    PROVE  r \in TaskNodes /\ r.deps = d.deps /\ r.kids = d.kids /\ r.logs = logs /\ r.status = s
BY DEF TaskNodes, Noted, Statuses, Notes

LEMMA CompressingPrepares ==
    ASSUME BoardInv, NEW c \in Callers, CompressDone(c)
    PROVE  \E b : Prepares(c, b)
<1> PICK long : long = {t \in BoardTasks : Compressible(t)}
    OBVIOUS
<1> PICK n : n = [t \in BoardTasks |-> IF t \in long THEN [wbFile[t] EXCEPT !.logs = CompressedLogs(@)] ELSE wbFile[t]]
    OBVIOUS
<1>1. /\ Prepare(c, n) /\ UNCHANGED <<savedVars, wbLines, wbArchive>> /\ wbLines \in Nat
      /\ wbDropped' = wbDropped \union UNION {ToSet(wbFile[t].logs) \ ToSet(CompressedLogs(wbFile[t].logs)) : t \in long}
    BY DEF CompressDone, BoardInv
<1>2. wbFile \in Boards /\ Whole(wbFile) /\ \A t \in BoardTasks : wbFile[t] \in TaskNodes /\ wbFile[t].logs \in Seq(Nat)
    BY DEF BoardInv, Whole, Boards, TaskNodes
<1>3. ASSUME NEW t \in long
      PROVE  CompressedLogs(wbFile[t].logs) \in Seq(Nat) /\ wbFile[t].status = "Done"
    <2> PICK logs : logs = wbFile[t].logs
        OBVIOUS
    <2>1. logs \in Seq(Nat) /\ Len(logs) > 3 /\ wbFile[t].status = "Done"
        BY <1>2, <1>3 DEF Compressible
    <2>2. SubSeq(logs, Len(logs) - 1, Len(logs)) \in Seq(Nat)
        BY <2>1, TheLastTwo
    <2>3. << Head(logs) >> \in Seq(Nat)
        <3>1. Head(logs) \in Nat
            BY <2>1, HeadTailProperties
        <3> QED
            BY <3>1
    <2>4. << Head(logs) >> \o SubSeq(logs, Len(logs) - 1, Len(logs)) \in Seq(Nat)
        BY ONLY <2>2, <2>3, ConcatProperties
    <2> QED
        BY <2>1, <2>4 DEF CompressedLogs
<1>4. ASSUME NEW t \in BoardTasks
      PROVE  /\ n[t] \in TaskNodes /\ n[t].deps = wbFile[t].deps /\ n[t].kids = wbFile[t].kids
             /\ n[t].status = "absent" => n[t] = wbFile[t]
             /\ ToSet(wbFile[t].logs) \subseteq wbDropped' \cup ToSet(n[t].logs)
    <2>1. CASE t \in long
        <3>1. n[t] = [wbFile[t] EXCEPT !.logs = CompressedLogs(wbFile[t].logs)]
            BY <2>1
        <3>2. n[t] = Noted(wbFile[t], wbFile[t].status, CompressedLogs(wbFile[t].logs))
            BY <1>2, <3>1 DEF TaskNodes, Noted
        <3>3. /\ wbFile[t].status \in Statuses /\ wbFile[t].status = "Done"
              /\ wbFile[t] \in TaskNodes /\ CompressedLogs(wbFile[t].logs) \in Notes
            BY <1>2, <1>3, <2>1 DEF Statuses, Notes
        <3>4. /\ n[t] \in TaskNodes /\ n[t].deps = wbFile[t].deps /\ n[t].kids = wbFile[t].kids
              /\ n[t].logs = CompressedLogs(wbFile[t].logs) /\ n[t].status = wbFile[t].status
            BY ONLY <3>2, <3>3, NodesRetold
        <3>5. ToSet(wbFile[t].logs) \subseteq wbDropped' \cup ToSet(n[t].logs)
            BY <1>1, <2>1, <3>4
        <3> QED
            BY <3>3, <3>4, <3>5
    <2>2. CASE t \notin long
        <3>1. n[t] = wbFile[t]
            BY <2>2
        <3> QED
            BY <1>2, <3>1
    <2> QED
        BY <2>1, <2>2
<1>5. n \in Boards
    <2>1. n = [t \in BoardTasks |-> n[t]]
        OBVIOUS
    <2> QED
        BY ONLY <1>4, <2>1 DEF Boards
<1>6. Whole(n)
    BY <1>2, <1>4, <1>5, RewritingIsWhole
<1> QED
    BY <1>1, <1>4, <1>6 DEF Prepares

LEMMA CancellingPrepares ==
    ASSUME BoardInv, NEW c \in Callers, NEW t \in BoardTasks, CancelTask(c, t)
    PROVE  \E b : Prepares(c, b)
<1> PICK newly : newly = {u \in Below(wbFile, t) : wbFile[u].status # "Cancelled"}
    OBVIOUS
<1> PICK n : n = [u \in BoardTasks |-> IF u \in newly
                                       THEN [wbFile[u] EXCEPT !.status = "Cancelled", !.logs = Append(@, wbLines')]
                                       ELSE wbFile[u]]
    OBVIOUS
<1>1. /\ Prepare(c, n) /\ UNCHANGED <<savedVars, wbArchive, wbDropped>>
      /\ wbLines' = (IF newly = {} THEN wbLines ELSE wbLines + 1) /\ wbLines \in Nat
    BY DEF CancelTask, BoardInv
<1>2. /\ wbFile \in Boards /\ Whole(wbFile) /\ \A u \in BoardTasks : wbFile[u] \in TaskNodes /\ wbFile[u].logs \in Seq(Nat)
      /\ newly \subseteq BoardTasks /\ wbLines' \in Nat
    <2>1. newly \subseteq BoardTasks
        BY DEF Below
    <2> QED
        <3>1. wbFile \in Boards /\ Whole(wbFile)
            BY DEF BoardInv, Whole
        <3>2. wbLines' \in {wbLines, wbLines + 1} /\ wbLines \in Nat
            BY <1>1
        <3>3. wbLines' \in Nat
            BY ONLY <3>2
        <3> QED
            BY <2>1, <3>1, <3>3 DEF Boards, TaskNodes
<1>3. ASSUME NEW u \in BoardTasks
      PROVE  /\ n[u] \in TaskNodes /\ n[u].deps = wbFile[u].deps /\ n[u].kids = wbFile[u].kids
             /\ n[u].status = "absent" => n[u] = wbFile[u]
             /\ ToSet(wbFile[u].logs) \subseteq ToSet(n[u].logs)
             /\ u \in newly => wbLines' \in ToSet(n[u].logs)
    <2>1. CASE u \in newly
        <3> PICK logs : logs = Append(wbFile[u].logs, wbLines')
            OBVIOUS
        <3>1. n[u] = Noted(wbFile[u], "Cancelled", logs)
            BY <2>1 DEF Noted
        <3>5. wbLines' \in Nat /\ wbFile[u].logs \in Seq(Nat) /\ logs = Append(wbFile[u].logs, wbLines')
            BY <1>2
        <3>2. logs \in Seq(Nat) /\ ToSet(logs) = ToSet(wbFile[u].logs) \cup {wbLines'}
            BY ONLY <3>5, Appending
        <3>3. wbFile[u] \in TaskNodes /\ "Cancelled" \in Statuses /\ logs \in Notes
            BY <1>2, <3>2 DEF Statuses, Notes
        <3>4. /\ n[u] \in TaskNodes /\ n[u].deps = wbFile[u].deps /\ n[u].kids = wbFile[u].kids
              /\ n[u].logs = logs /\ n[u].status = "Cancelled"
            BY ONLY <3>1, <3>3, NodesRetold
        <3> QED
            BY <3>2, <3>4
    <2>2. CASE u \notin newly
        <3>1. n[u] = wbFile[u]
            BY <2>2
        <3> QED
            BY <1>2, <2>2, <3>1
    <2> QED
        BY <2>1, <2>2
<1>4. n \in Boards
    <2>1. n = [u \in BoardTasks |-> n[u]]
        OBVIOUS
    <2> QED
        BY ONLY <1>3, <2>1 DEF Boards
<1>5. Whole(n)
    BY <1>2, <1>3, <1>4, RewritingIsWhole
<1>6. wbLines' # wbLines => wbLines' \in LinesOn(n)
    <2> SUFFICES ASSUME newly # {} PROVE wbLines' \in LinesOn(n)
        BY <1>1
    <2>1. PICK u \in BoardTasks : u \in newly
        BY <1>2
    <2>2. wbLines' \in ToSet(n[u].logs)
        BY <1>3, <2>1
    <2> QED
        BY <2>2 DEF LinesOn
<1> QED
    BY <1>1, <1>3, <1>5, <1>6 DEF Prepares

LEMMA ArchivingPrepares ==
    ASSUME BoardInv, NEW c \in Callers, NEW until, ArchiveMonth(c, until)
    PROVE  \E b : Prepares(c, b)
<1> PICK gone : gone = LinesOn(wbFile) \intersect 0 .. until
    OBVIOUS
<1> PICK n : n = WithoutLines(wbFile, gone)
    OBVIOUS
<1>1. /\ Prepare(c, n) /\ UNCHANGED <<savedVars, wbLines, wbDropped>> /\ wbLines \in Nat
      /\ wbArchive' = wbArchive \union gone
    BY DEF ArchiveMonth, BoardInv
<1>2. wbFile \in Boards /\ Whole(wbFile) /\ \A u \in BoardTasks : wbFile[u] \in TaskNodes /\ wbFile[u].logs \in Seq(Nat)
    BY DEF BoardInv, Whole, Boards, TaskNodes
<1>3. ASSUME NEW u \in BoardTasks
      PROVE  /\ n[u] \in TaskNodes /\ n[u].deps = wbFile[u].deps /\ n[u].kids = wbFile[u].kids
             /\ n[u].status = "absent" => n[u] = wbFile[u]
             /\ ToSet(wbFile[u].logs) \subseteq wbArchive' \cup ToSet(n[u].logs)
    <2> PICK logs : logs = RemainingLines(wbFile[u].logs, gone)
        OBVIOUS
    <2>1. n[u] = [wbFile[u] EXCEPT !.logs = logs]
        BY DEF WithoutLines
    <2>2. n[u] = Noted(wbFile[u], wbFile[u].status, logs)
        BY <1>2, <2>1 DEF TaskNodes, Noted
    <2>3. logs \in Seq(Nat) /\ ToSet(wbFile[u].logs) \subseteq gone \cup ToSet(logs) /\ (wbFile[u].logs = << >> => logs = << >>)
        BY <1>2, RemainingAreOthers
    <2>4. wbFile[u] \in TaskNodes /\ wbFile[u].status \in Statuses /\ logs \in Notes
        BY <1>2, <2>3 DEF TaskNodes, Statuses, Notes
    <2>5. /\ n[u] \in TaskNodes /\ n[u].deps = wbFile[u].deps /\ n[u].kids = wbFile[u].kids
          /\ n[u].logs = logs /\ n[u].status = wbFile[u].status
        BY ONLY <2>2, <2>4, NodesRetold
    <2>6. ASSUME wbFile[u].status = "absent"
          PROVE  n[u] = wbFile[u]
        <3>1. wbFile[u] = Absent /\ wbFile[u].logs = << >>
            BY <1>2, <2>6 DEF Whole, Absent
        <3>2. logs = wbFile[u].logs
            BY <2>3, <3>1
        <3> QED
            BY <1>2, <2>1, <3>2 DEF TaskNodes
    <2> QED
        BY <1>1, <2>3, <2>5, <2>6
<1>4. n \in Boards
    <2>1. n = [u \in BoardTasks |-> n[u]]
        BY DEF WithoutLines
    <2> QED
        BY ONLY <1>3, <2>1 DEF Boards
<1>5. Whole(n)
    BY <1>2, <1>3, <1>4, RewritingIsWhole
<1> QED
    BY <1>1, <1>3, <1>5 DEF Prepares

\* A save opens the file, alone or with another.
LEMMA OpeningKeepsBoards ==
    ASSUME BoardInv, ~wbMixed, NEW c \in Callers, OpenBoard(c)
    PROVE  (wbMixed' \/ BoardInv') /\ (LinesInv => ~wbMixed' /\ LinesInv')
<1>1. /\ wbCall[c].at = "saving" /\ UNCHANGED <<wbFile, wbLines, wbArchive, wbDropped>>
      /\ wbCall = [d \in Callers |-> wbCall[d]] /\ c \in Busy /\ Writing \subseteq Busy /\ c \notin Writing
    BY DEF OpenBoard, BoardInv, Busy, Writing
<1>2. wbMixed' <=> Writing # {}
    BY DEF OpenBoard
<1>3. CASE Writing = {}
    <2>1. wbCall' = [d \in Callers |-> IF d = c THEN [at |-> "writing", board |-> wbCall[d].board] ELSE wbCall[d]]
        BY <1>3 DEF OpenBoard
    <2>2. /\ wbCall' = [d \in Callers |-> wbCall'[d]]
          /\ \A d \in Callers : /\ wbCall'[d].at = IF d = c THEN "writing" ELSE wbCall[d].at
                                /\ wbCall'[d].board = wbCall[d].board
        BY <2>1
    <2>3. Busy' = Busy
        BY <1>1, <2>2 DEF Busy
    <2>4. BoardInv'
        <3>1. Whole(wbFile)' /\ wbLines' \in Nat
            BY <1>1 DEF BoardInv, Whole, Mutual
        <3>2. \A d \in Busy' : Whole(wbCall[d].board)'
            <4> TAKE d \in Busy'
            <4>1. wbCall'[d].board = wbCall[d].board /\ Whole(wbCall[d].board)
                BY <2>2, <2>3 DEF BoardInv, Busy
            <4> QED
                BY <4>1 DEF Whole, Mutual
        <3> QED
            BY <2>2, <3>1, <3>2 DEF BoardInv
    <2>5. ASSUME LinesInv PROVE LinesInv'
        <3>1. \A d \in Busy' : LinesKept(wbCall[d].board)'
            <4> TAKE d \in Busy'
            <4>1. wbCall'[d].board = wbCall[d].board /\ LinesKept(wbCall[d].board)
                BY <2>2, <2>3, <2>5 DEF LinesInv, Busy
            <4> QED
                BY <1>1, <4>1 DEF LinesKept, LinesOn
        <3> QED
            BY <1>1, <2>3, <2>5, <3>1 DEF LinesInv
    <2> QED
        BY <1>2, <1>3, <2>4, <2>5
<1>4. CASE Writing # {}
    <2>1. PICK d \in Writing : d \in Busy /\ d # c
        BY <1>1, <1>4
    <2> QED
        BY <1>1, <1>2, <1>4, <2>1 DEF LinesInv
<1> QED
    BY <1>3, <1>4

\* A tool that has saved, or died, has no board any more.
Leaves(c, r) ==
    /\ r.at \in {"idle", "hung"} /\ wbCall' = [wbCall EXCEPT ![c] = r]
    /\ UNCHANGED <<wbLines, wbArchive>> /\ wbDropped \subseteq wbDropped'

LEMMA LeavingKeepsBoards ==
    ASSUME BoardInv, NEW c \in Busy, NEW r, Leaves(c, r), Whole(wbFile'), LinesInv => LinesKept(wbFile)'
    PROVE  BoardInv' /\ (LinesInv => LinesInv')
<1>1. /\ c \in Callers /\ wbCall = [d \in Callers |-> wbCall[d]]
      /\ wbCall' = [d \in Callers |-> wbCall'[d]] /\ wbCall'[c] = r
      /\ \A d \in Callers : d = c \/ wbCall'[d] = wbCall[d]
      /\ r.at \in {"idle", "hung"} /\ UNCHANGED <<wbLines, wbArchive>>
    BY DEF BoardInv, Busy, Leaves
<1>2. Busy' = Busy \ {c}
    BY <1>1 DEF Busy
<1>3. BoardInv'
    <2>1. Whole(wbFile)' /\ wbLines' \in Nat
        BY <1>1 DEF BoardInv, Whole, Mutual
    <2>2. \A d \in Busy' : Whole(wbCall[d].board)'
        <3> TAKE d \in Busy'
        <3>1. wbCall'[d] = wbCall[d] /\ Whole(wbCall[d].board)
            BY <1>1, <1>2 DEF BoardInv, Busy
        <3> QED
            BY <3>1 DEF Whole, Mutual
    <2>3. \A d \in Callers : wbCall'[d].at # "mixing"
        BY <1>1 DEF BoardInv
    <2> QED
        BY <1>1, <2>1, <2>2, <2>3 DEF BoardInv
<1>4. ASSUME LinesInv PROVE LinesInv'
    <2>1. Busy' = {}
        BY <1>2, <1>4 DEF LinesInv
    <2> QED
        BY <1>4, <2>1 DEF LinesInv
<1> QED
    BY <1>3, <1>4

LEMMA SavingKeepsBoards ==
    ASSUME BoardInv, NEW c \in Callers, SaveBoard(c)
    PROVE  BoardInv' /\ (LinesInv => LinesInv') /\ wbMixed' = wbMixed
<1>1. /\ c \in Busy /\ wbFile' = wbCall[c].board /\ UNCHANGED <<wbLines, wbArchive, wbDropped, wbMixed>>
    BY DEF SaveBoard, Busy
<1>2. PICK r : Leaves(c, r)
    <2>1. wbCall' = [wbCall EXCEPT ![c] = Rendered(wbCall[c].board)]
        BY DEF SaveBoard
    <2>2. Rendered(wbCall[c].board).at \in {"idle", "hung"}
        BY DEF Rendered
    <2> QED
        BY ONLY <1>1, <2>1, <2>2 DEF Leaves
<1>3. Whole(wbFile')
    BY <1>1 DEF BoardInv
<1>4. LinesInv => LinesKept(wbFile)'
    BY <1>1 DEF LinesInv, LinesKept, LinesOn
<1> QED
    BY ONLY BoardInv, <1>1, <1>2, <1>3, <1>4, LeavingKeepsBoards

LEMMA DyingKeepsBoards ==
    ASSUME BoardInv, NEW c \in Callers, ToolDies(c)
    PROVE  BoardInv' /\ (LinesInv => LinesInv') /\ wbMixed' = wbMixed
<1>1. /\ c \in Busy /\ UNCHANGED <<wbFile, wbLines, wbArchive, wbMixed>>
      /\ wbDropped' = wbDropped \union UNION {ToSet(wbCall[c].board[t].logs) \ ToSet(wbFile[t].logs) : t \in BoardTasks}
    BY DEF ToolDies, savedVars
<1>0. PICK r : Leaves(c, r)
    <2>1. wbCall' = [wbCall EXCEPT ![c] = IdleCall]
        BY DEF ToolDies
    <2>2. IdleCall.at \in {"idle", "hung"}
        BY DEF IdleCall
    <2> QED
        BY ONLY <1>1, <2>1, <2>2 DEF Leaves
<1>2. Whole(wbFile')
    BY <1>1 DEF BoardInv
<1>3. ASSUME LinesInv PROVE LinesKept(wbFile)'
    <2>1. LinesKept(wbCall[c].board)
        BY <1>1, <1>3 DEF LinesInv
    <2>2. LinesOn(wbCall[c].board) \subseteq wbDropped' \cup LinesOn(wbFile) /\ wbDropped \subseteq wbDropped'
        BY <1>1 DEF LinesOn
    <2> SUFFICES ASSUME NEW l \in 1 .. wbLines'
                 PROVE  l \in wbArchive' \cup wbDropped' \cup LinesOn(wbFile)
        BY <1>1 DEF LinesKept, LinesOn
    <2>3. l \in wbArchive \cup wbDropped \cup LinesOn(wbCall[c].board)
        BY <1>1, <2>1 DEF LinesKept
    <2> QED
        BY <1>1, <2>2, <2>3
<1> QED
    BY ONLY BoardInv, <1>0, <1>1, <1>2, <1>3, LeavingKeepsBoards

LEMMA BoardStarts == TaskBoardInit => BoardsOK /\ LinesOK
<1> SUFFICES ASSUME TaskBoardInit PROVE BoardsOK /\ LinesOK
    OBVIOUS
<1>1. wbFile = [t \in BoardTasks |-> Absent] /\ wbCall = [c \in Callers |-> IdleCall] /\ wbLines = 0
    BY DEF TaskBoardInit
<1>2. \A t \in BoardTasks : wbFile[t] = Absent
    BY <1>1
<1>3. Absent \in TaskNodes /\ Absent.deps = << >> /\ Absent.kids = << >>
    <2>1. << >> \in Seq(BoardTasks) /\ << >> \in Seq(Nat)
        OBVIOUS
    <2> PICK nothing : nothing = << >>
        OBVIOUS
    <2>2. Absent = [status |-> "absent", deps |-> nothing, kids |-> nothing, logs |-> nothing]
        BY DEF Absent
    <2>3. nothing \in Seq(BoardTasks) /\ nothing \in Seq(Nat)
        BY <2>1
    <2>4. Absent \in TaskNodes /\ Absent.deps = nothing /\ Absent.kids = nothing
        BY ONLY <2>2, <2>3 DEF TaskNodes
    <2> QED
        BY <2>4
<1>4. wbFile \in Boards
    BY <1>1, <1>3 DEF Boards
<1>5. Mutual(wbFile)
    BY <1>2, <1>3, NothingIn DEF Mutual
<1>6. Whole(wbFile)
    BY <1>2, <1>4, <1>5 DEF Whole
<1>7. ~wbMixed /\ \A c \in Callers : wbCall[c].at = "idle"
    BY <1>1 DEF IdleCall, TaskBoardInit
<1>8. Busy = {}
    BY <1>7 DEF Busy
<1> QED
    BY <1>1, <1>6, <1>7, <1>8 DEF BoardInv, LinesInv, LinesKept, BoardsOK, LinesOK

\* A mix stays one, and so does an overlap.
LEMMA BoardStepKeeps ==
    ASSUME BoardsOK, BoardNext \/ UNCHANGED boardVars
    PROVE  BoardsOK' /\ (LinesOK => LinesOK')
<1>1. CASE UNCHANGED boardVars
    BY <1>1 DEF boardVars, savedVars, BoardsOK, LinesOK, BoardInv, LinesInv, LinesKept, LinesOn, Busy, Whole, Mutual
<1>2. (wbMixed => wbMixed') /\ (wbOverlap => wbOverlap')
    <2>1. CASE UNCHANGED boardVars
        BY <2>1 DEF boardVars, savedVars
    <2>2. ASSUME NEW c \in Callers, NEW b, Prepare(c, b), UNCHANGED savedVars
          PROVE  (wbMixed => wbMixed') /\ (wbOverlap => wbOverlap')
        BY <2>2 DEF Prepare, savedVars
    <2>3. ASSUME NEW c \in Callers, OpenBoard(c) \/ SaveBoard(c) \/ SaveMixed(c) \/ ToolDies(c)
          PROVE  (wbMixed => wbMixed') /\ (wbOverlap => wbOverlap')
        <3>1. wbOverlap' = wbOverlap
            BY <2>3 DEF OpenBoard, SaveBoard, SaveMixed, ToolDies
        <3>2. CASE OpenBoard(c)
            <4>1. wbMixed' = (wbMixed \/ Writing # {})
                BY <3>2 DEF OpenBoard
            <4> QED
                BY ONLY <3>1, <4>1
        <3>3. CASE SaveBoard(c) \/ SaveMixed(c) \/ ToolDies(c)
            BY <3>1, <3>3 DEF SaveBoard, SaveMixed, ToolDies, savedVars
        <3> QED
            BY <2>3, <3>1, <3>2, <3>3
    <2> DEFINE P(c) == \E b : Prepare(c, b) /\ UNCHANGED savedVars
    <2>4. ASSUME NEW c \in Callers, CompressDone(c)
          PROVE  P(c)
        BY <2>4 DEF CompressDone
    <2>5. ASSUME NEW c \in Callers, NEW t \in BoardTasks, NEW u \in BoardTasks, AddBoardTask(c, t, u) \/ LinkTasks(c, t, u)
          PROVE  P(c)
        BY <2>5 DEF AddBoardTask, LinkTasks
    <2>6. ASSUME NEW c \in Callers, NEW t \in BoardTasks, AppendLog(c, t) \/ CancelTask(c, t)
          PROVE  P(c)
        BY <2>6 DEF AppendLog, CancelTask
    <2>7. ASSUME NEW c \in Callers, NEW t \in BoardTasks, NEW s \in {"Todo", "Done"}, NEW m \in BOOLEAN, UpdateStatus(c, t, s, m)
          PROVE  P(c)
        BY <2>7 DEF UpdateStatus
    <2>8. ASSUME NEW c \in Callers, NEW until \in 1 .. MaxLines, ArchiveMonth(c, until)
          PROVE  P(c)
        BY <2>8 DEF ArchiveMonth
    <2>9. ASSUME NEW c \in Callers, P(c)
          PROVE  (wbMixed => wbMixed') /\ (wbOverlap => wbOverlap')
        BY <2>2, <2>9
    <2> HIDE DEF P
    <2> QED
        BY <2>1, <2>3, <2>4, <2>5, <2>6, <2>7, <2>8, <2>9 DEF BoardNext
<1>3. CASE wbMixed
    BY <1>2, <1>3 DEF BoardsOK, LinesOK
<1>4. ASSUME ~wbMixed, BoardNext
      PROVE  BoardsOK' /\ (LinesOK => LinesOK')
    <2>1. BoardInv
        BY <1>4 DEF BoardsOK
    <2>2. ASSUME wbMixed' \/ BoardInv', LinesInv => wbOverlap' \/ (~wbMixed' /\ LinesInv')
          PROVE  BoardsOK' /\ (LinesOK => LinesOK')
        BY <1>2, <2>2 DEF BoardsOK, LinesOK
    <2>3. ASSUME NEW c \in Callers, \E b : Prepares(c, b)
          PROVE  BoardsOK' /\ (LinesOK => LinesOK')
        BY <1>4, <2>1, <2>2, <2>3, PreparingKeepsBoards
    <2>4. ASSUME NEW c \in Callers,
             \/ OpenBoard(c) \/ SaveBoard(c) \/ SaveMixed(c) \/ ToolDies(c) \/ CompressDone(c)
             \/ \E t, u \in BoardTasks : AddBoardTask(c, t, u) \/ LinkTasks(c, t, u)
             \/ \E t \in BoardTasks : AppendLog(c, t) \/ CancelTask(c, t)
             \/ \E t \in BoardTasks, s \in {"Todo", "Done"}, m \in BOOLEAN : UpdateStatus(c, t, s, m)
             \/ \E until \in 1 .. MaxLines : ArchiveMonth(c, until)
          PROVE  BoardsOK' /\ (LinesOK => LinesOK')
        <3>1. CASE OpenBoard(c)
            BY <1>4, <2>1, <2>2, <3>1, OpeningKeepsBoards
        <3>2. CASE SaveBoard(c) \/ ToolDies(c)
            BY <1>4, <2>1, <2>2, <3>2, SavingKeepsBoards, DyingKeepsBoards
        <3>3. CASE SaveMixed(c)
            BY <2>1, <3>3 DEF SaveMixed, BoardInv
        <3>4. CASE CompressDone(c)
            BY <2>1, <2>3, <3>4, CompressingPrepares
        <3>5. ASSUME NEW t \in BoardTasks, NEW u \in BoardTasks, AddBoardTask(c, t, u) \/ LinkTasks(c, t, u)
              PROVE  BoardsOK' /\ (LinesOK => LinesOK')
            BY <2>1, <2>3, <3>5, AddingPrepares, LinkingPrepares
        <3>6. ASSUME NEW t \in BoardTasks, AppendLog(c, t) \/ CancelTask(c, t)
              PROVE  BoardsOK' /\ (LinesOK => LinesOK')
            BY <2>1, <2>3, <3>6, LoggingPrepares, CancellingPrepares
        <3>7. ASSUME NEW t \in BoardTasks, NEW s \in {"Todo", "Done"}, NEW m \in BOOLEAN, UpdateStatus(c, t, s, m)
              PROVE  BoardsOK' /\ (LinesOK => LinesOK')
            <4>1. \E b : Prepares(c, b)
                BY ONLY <2>1, <3>7, c \in Callers, UpdatingPrepares
            <4> QED
                BY <2>3, <4>1
        <3>8. ASSUME NEW until \in 1 .. MaxLines, ArchiveMonth(c, until)
              PROVE  BoardsOK' /\ (LinesOK => LinesOK')
            BY <2>1, <2>3, <3>8, ArchivingPrepares
        <3> QED
            BY <2>4, <3>1, <3>2, <3>3, <3>4, <3>5, <3>6, <3>7, <3>8
    <2> QED
        BY <1>4, <2>4 DEF BoardNext
<1> QED
    BY <1>1, <1>3, <1>4

LEMMA BoardInvGives == BoardsOK => LinksAreMutual
BY DEF BoardsOK, BoardInv, Whole, Mutual, LinksAreMutual

LEMMA LinesInvGives == LinesOK => LinesAreKept
BY DEF LinesOK, LinesInv, LinesKept, LinesAreKept

-----------------------------------------------------------------------------
(* The task workspace: the queue. *)

QueueInv == tqArchive \in Seq(Nat) /\ tqActive = [p \in Phases |-> tqActive[p]]

LEMMA AscendingHasAll ==
    ASSUME NEW S \in SUBSET Nat, IsFiniteSet(S)
    PROVE  Ascending(S) \in Seq(Nat) /\ S \subseteq ToSet(Ascending(S))
<1> DEFINE Rule(F) == F = [T \in SUBSET S |-> IF T = {} THEN << >> ELSE << Min(T) >> \o F[T \ {Min(T)}]]
           K == CHOOSE F : Rule(F)
<1> PICK head, next : head = [T \in SUBSET S |-> Min(T)] /\ next = [T \in SUBSET S |-> T \ {Min(T)}]
    OBVIOUS
<1>1. \A T \in SUBSET S : /\ head[T] = Min(T) /\ next[T] = T \ {Min(T)} /\ next[T] \in SUBSET S
                          /\ T # {} => Min(T) \in T /\ Min(T) \in Nat
    BY LeastOf
<1>2. Descends(S, Nat, head, next)
    BY <1>1 DEF Descends
<1>3. PICK G \in [SUBSET S -> Seq(Nat)] : Follows(G, S, head, next)
    BY <1>2, ChainDefined
<1>4. Rule(G)
    <2> PICK R : R = [T \in SUBSET S |-> IF T = {} THEN << >> ELSE << Min(T) >> \o G[T \ {Min(T)}]]
        OBVIOUS
    <2>1. \A T \in SUBSET S : R[T] = G[T]
        <3> TAKE T \in SUBSET S
        <3>1. CASE T = {}
            BY <1>3, <3>1 DEF Follows
        <3>2. CASE T # {}
            <4>1. R[T] = << Min(T) >> \o G[T \ {Min(T)}] /\ G[T] = << head[T] >> \o G[next[T]]
                BY <1>3, <3>2 DEF Follows
            <4> QED
                BY <1>1, <4>1
        <3> QED
            BY <3>1, <3>2
    <2>2. R = G
        BY <1>3, <2>1
    <2> QED
        BY <2>2
<1>5. Ascending(S) = K[S]
    BY DEF Ascending
<1>6. Rule(K)
    <2> HIDE DEF Rule
    <2> QED
        BY <1>4
<1> HIDE DEF K
<1> PICK F : F = K /\ Rule(F)
    BY <1>6
<1>7. F = [T \in SUBSET S |-> IF T = {} THEN << >> ELSE << Min(T) >> \o F[T \ {Min(T)}]]
    OBVIOUS
<1>8. Follows(F, S, head, next)
    <2> SUFFICES ASSUME NEW T \in SUBSET S
                 PROVE  F[T] = IF T = {} THEN << >> ELSE << head[T] >> \o F[next[T]]
        BY DEF Follows
    <2>1. F[T] = IF T = {} THEN << >> ELSE << Min(T) >> \o F[T \ {Min(T)}]
        BY ONLY <1>7, T \in SUBSET S
    <2> QED
        BY <1>1, <2>1
<1>9. Covers(S, head, next)
    BY <1>1 DEF Covers
<1> HIDE DEF Rule
<1>10. F[S] \in Seq(Nat) /\ S \subseteq ToSet(F[S])
    BY <1>2, <1>8, <1>9, ChainFacts
<1> QED
    BY <1>5, <1>10

LEMMA JoiningKeepsAll ==
    ASSUME NEW S, NEW s \in Seq(S), NEW r \in Seq(S)
    PROVE  s \o r \in Seq(S) /\ ToSet(s \o r) = ToSet(s) \cup ToSet(r)
<1> PICK j, n, m : j = s \o r /\ n = Len(s) /\ m = Len(r)
    OBVIOUS
<1>1. /\ j \in Seq(S) /\ Len(j) = n + m /\ n \in Nat /\ m \in Nat
      /\ \A i \in 1 .. n + m : j[i] = IF i <= n THEN s[i] ELSE r[i - n]
    BY ConcatProperties
<1>2. DOMAIN j = 1 .. n + m /\ DOMAIN s = 1 .. n /\ DOMAIN r = 1 .. m
    BY <1>1
<1>3. \A i \in 1 .. n : j[i] = s[i] /\ i \in 1 .. n + m
    BY <1>1
<1>4. \A i \in 1 .. m : j[i + n] = r[i] /\ i + n \in 1 .. n + m
    <2> TAKE i \in 1 .. m
    <2>1. i + n \in 1 .. n + m /\ ~(i + n <= n) /\ i + n - n = i
        BY <1>1
    <2> QED
        BY <1>1, <2>1
<1>5. \A i \in 1 .. n + m : i \in 1 .. n \/ \E k \in 1 .. m : i = k + n
    <2> TAKE i \in 1 .. n + m
    <2>1. CASE i <= n
        BY <1>1, <2>1
    <2>2. CASE ~(i <= n)
        <3>1. i - n \in 1 .. m /\ i = i - n + n
            BY <1>1, <2>2
        <3> QED
            BY <3>1
    <2> QED
        BY <2>1, <2>2
<1>9. ToSet(s) = {s[i] : i \in 1 .. n} /\ ToSet(r) = {r[i] : i \in 1 .. m} /\ ToSet(j) = {j[i] : i \in 1 .. n + m}
    BY <1>2 DEF ToSet
<1>6. \A i \in 1 .. n + m : j[i] \in ToSet(s) \cup ToSet(r)
    BY ONLY <1>3, <1>4, <1>5, <1>9
<1>7. ToSet(s) \subseteq ToSet(j) /\ ToSet(r) \subseteq ToSet(j)
    <2>1. \A i \in 1 .. n : s[i] \in {j[k] : k \in 1 .. n + m}
        BY ONLY <1>3
    <2>2. \A i \in 1 .. m : r[i] \in {j[k] : k \in 1 .. n + m}
        BY ONLY <1>4
    <2> QED
        BY ONLY <1>9, <2>1, <2>2
<1>8. ToSet(j) \subseteq ToSet(s) \cup ToSet(r)
    BY ONLY <1>6, <1>9
<1> QED
    BY <1>1, <1>7, <1>8

QueueHeld == \A p \in Phases : tqActive[p] # "none" /\ tqActive'[p] = "none" => Contains(tqArchive', p)

LEMMA QueueStarts == TaskBoardInit => QueueInv
<1>1. << >> \in Seq(Nat)
    OBVIOUS
<1> QED
    BY <1>1 DEF TaskBoardInit, QueueInv

LEMMA QueueStepKeeps ==
    ASSUME QueueInv, QueueNext \/ UNCHANGED queueVars
    PROVE  QueueInv' /\ QueueHeld
<1>1. CASE UNCHANGED queueVars
    BY <1>1 DEF queueVars, QueueInv, QueueHeld
<1>2. ASSUME NEW p \in Phases, AddPhase(p) \/ TickPhase(p)
      PROVE  QueueInv' /\ QueueHeld
    <2>1. /\ tqArchive' = tqArchive /\ tqActive = [q \in Phases |-> tqActive[q]]
          /\ tqActive' = [tqActive EXCEPT ![p] = "open"] \/ tqActive' = [tqActive EXCEPT ![p] = "done"]
        BY <1>2 DEF AddPhase, TickPhase, QueueInv
    <2>2. \A q \in Phases : tqActive'[q] = tqActive[q] \/ tqActive'[q] \in {"open", "done"}
        BY ONLY <2>1
    <2>3. tqActive' = [q \in Phases |-> tqActive'[q]]
        BY ONLY <2>1
    <2> QED
        BY <2>1, <2>2, <2>3 DEF QueueInv, QueueHeld
<1>3. CASE CompactTaskQueue
    <2>1. CASE UNCHANGED <<tqArchive, tqActive>>
        BY <2>1 DEF QueueInv, QueueHeld
    <2>2. CASE tqArchive' = Archived(DoneSeen) /\ tqActive' = [p \in Phases |-> IF p \in DoneSeen THEN "none" ELSE tqActive[p]]
        <3> PICK done, fresh : done = DoneSeen /\ fresh = done \ ToSet(tqArchive)
            OBVIOUS
        <3>1. fresh \in SUBSET Nat /\ IsFiniteSet(fresh) /\ done \subseteq Phases
            <4>1. done \subseteq Phases /\ fresh \subseteq Phases
                BY DEF DoneSeen, ActiveSeen
            <4>2. Phases \subseteq Nat /\ IsFiniteSet(Phases)
                BY TaskBoardAssumption
            <4>3. IsFiniteSet(fresh)
                BY <4>1, <4>2, FS_Subset
            <4> QED
                BY <4>1, <4>2, <4>3
        <3>2. Ascending(fresh) \in Seq(Nat) /\ fresh \subseteq ToSet(Ascending(fresh))
            BY <3>1, AscendingHasAll
        <3>3. tqArchive' = tqArchive \o Ascending(fresh) /\ tqArchive \in Seq(Nat)
            BY <2>2 DEF Archived, QueueInv
        <3>4. tqArchive' \in Seq(Nat) /\ ToSet(tqArchive') = ToSet(tqArchive) \cup ToSet(Ascending(fresh))
            BY ONLY <3>2, <3>3, JoiningKeepsAll
        <3>5. done \subseteq ToSet(tqArchive')
            BY <3>2, <3>4
        <3>6. \A p \in done : Contains(tqArchive', p)
            BY <3>5 DEF ToSet, Contains
        <3>7. tqActive' = [p \in Phases |-> tqActive'[p]] /\ \A p \in Phases : tqActive'[p] # tqActive[p] => p \in done
            BY <2>2
        <3> QED
            BY <3>4, <3>6, <3>7 DEF QueueInv, QueueHeld
    <2> QED
        BY <1>3, <2>1, <2>2 DEF CompactTaskQueue
<1> QED
    BY <1>1, <1>2, <1>3 DEF QueueNext

-----------------------------------------------------------------------------
(* Governance. *)

\* A walk over a certificate: what has been checked and counted so far.
IdsStates == [key : Nat, new : Nat, fails : [MemberSet -> Nat], quarantined : SUBSET MemberSet, valid : Seq(MemberSet)]
Certs == [approvals : Seq(MemberSet), key : Nat]

\* No certificate is older than the swarm thinks or signed by keys to come,
\* and every member is in one once.
GovInv ==
    /\ gKey \in Nat /\ gNewKey \in Nat /\ gKey <= gNewKey /\ gConfigured \in 0 .. gNewKey
    /\ gFailures \in [MemberSet -> Nat] /\ gQuarantined \in SUBSET MemberSet
    /\ gRegistry \in [Rules -> Certs]
    /\ \A r \in Rules : gRegistry[r].key <= gNewKey /\ IsInjective(gRegistry[r].approvals)

\* What a walk that began in s0 keeps: a new quarantine brings a new key, and
\* who was in quarantine is not counted.
WalkedFrom(s0, s, n) ==
    /\ s \in IdsStates /\ s0.quarantined \subseteq s.quarantined
    /\ ToSet(s.valid) \cap s0.quarantined = {} /\ Len(s.valid) <= n
    /\ \/ s.key = s0.key /\ s.new = s0.new /\ s.quarantined = s0.quarantined
       \/ s.key = s.new /\ s0.new < s.new

CheckFrom(s0, cert) ==
    LET after[n \in 0 .. Len(cert.approvals)] ==
            IF n = 0 THEN s0 ELSE CheckSignature(cert, after[n - 1], cert.approvals[n])
    IN  after[Len(cert.approvals)]

LEMMA InjectiveCounts ==
    ASSUME NEW S, NEW q \in Seq(S), IsInjective(q)
    PROVE  Cardinality(Range(q)) = Len(q)
<1> PICK n, R : n = Len(q) /\ R = Range(q)
    OBVIOUS
<1>1. n \in Nat /\ DOMAIN q = 1 .. n
    OBVIOUS
<1>2. q \in [1 .. n -> R]
    BY <1>1 DEF Range
<1>3. q \in Injection(1 .. n, R) /\ q \in Surjection(1 .. n, R)
    BY <1>1, <1>2 DEF Injection, IsInjective, Surjection, Range
<1>4. ExistsBijection(1 .. n, R)
    BY <1>3 DEF ExistsBijection, Bijection
<1> QED
    BY <1>1, <1>4, FS_CountingElements

LEMMA AppendingAnother ==
    ASSUME NEW S, NEW s \in Seq(S), IsInjective(s), NEW x \in S, x \notin ToSet(s)
    PROVE  IsInjective(Append(s, x))
<1> PICK j, n : j = Append(s, x) /\ n = Len(s)
    OBVIOUS
<1>1. n \in Nat /\ Len(j) = n + 1 /\ j \in Seq(S) /\ j[n + 1] = x /\ \A i \in 1 .. n : j[i] = s[i]
    BY AppendProperties
<1>2. DOMAIN j = 1 .. n + 1 /\ DOMAIN s = 1 .. n
    BY <1>1
<1>3. \A i \in 1 .. n + 1 : i \in 1 .. n \/ i = n + 1
    BY <1>1
<1>4. \A i \in 1 .. n : s[i] # x
    BY <1>2 DEF ToSet
<1>5. \A a, b \in 1 .. n : s[a] = s[b] => a = b
    BY <1>2 DEF IsInjective
<1>6. \A a, b \in 1 .. n + 1 : j[a] = j[b] => a = b
    BY <1>1, <1>3, <1>4, <1>5
<1>7. IsInjective(j)
    BY <1>2, <1>6 DEF IsInjective
<1> QED
    BY <1>7

\* Members are named once, in the order of the swarm.
LEMMA OrderedMembers ==
    ASSUME NEW ms
    PROVE  InOrder(ms) \in Seq(MemberSet) /\ IsInjective(InOrder(ms)) /\ ToSet(InOrder(ms)) \subseteq ms
<1> PICK m, G : m = Len(GovMembers) /\ G = GovMembers
    OBVIOUS
<1>1. m \in Nat /\ DOMAIN G = 1 .. m /\ IsInjective(G) /\ \A i \in 1 .. m : G[i] \in MemberSet
    BY GovernanceAssumption DEF MemberSet, Range
<1> DEFINE Rule(F) == F = [n \in 0 .. m |-> IF n = 0 THEN << >>
                                            ELSE IF G[n] \in ms THEN Append(F[n - 1], G[n]) ELSE F[n - 1]]
           K == CHOOSE F : Rule(F)
<1>2. InOrder(ms) = K[m]
    BY DEF InOrder
<1>3. \E F : Rule(F)
    <2> PICK step, S, none : /\ step = [y \in Seq(MemberSet) \X (1 .. m) |-> IF G[y[2]] \in ms THEN Append(y[1], G[y[2]]) ELSE y[1]]
                             /\ S = Seq(MemberSet) /\ none = << >>
        OBVIOUS
    <2>1. ASSUME NEW i \in 1 .. m, NEW x \in S
          PROVE  step[<<x, i>>] = (IF G[i] \in ms THEN Append(x, G[i]) ELSE x) /\ step[<<x, i>>] \in S
        <3>1. step[<<x, i>>] = IF G[i] \in ms THEN Append(x, G[i]) ELSE x
            OBVIOUS
        <3>2. Append(x, G[i]) \in S
            BY <1>1
        <3> QED
            BY <3>1, <3>2
    <2>2. none \in S /\ m \in Nat /\ Advances(step, m, S)
        BY <1>1, <2>1 DEF Advances
    <2>3. Runs(m, S, none, step) # {}
        BY ONLY <2>2, RecursionDefined
    <2>4. PICK F \in [0 .. m -> S] : F[0] = none /\ \A i \in 1 .. m : F[i] = step[<<F[i - 1], i>>]
        BY <2>3 DEF Runs
    <2>5. \A i \in 1 .. m : F[i] = IF G[i] \in ms THEN Append(F[i - 1], G[i]) ELSE F[i - 1]
        <3> TAKE i \in 1 .. m
        <3>1. F[i - 1] \in S
            BY <1>1, <2>4
        <3> QED
            BY <2>1, <2>4, <3>1
    <2>6. Rule(F)
        <3> PICK R : R = [n \in 0 .. m |-> IF n = 0 THEN << >> ELSE IF G[n] \in ms THEN Append(F[n - 1], G[n]) ELSE F[n - 1]]
            OBVIOUS
        <3>1. \A n \in 0 .. m : R[n] = F[n]
            <4> TAKE n \in 0 .. m
            <4>1. CASE n = 0
                BY <2>4, <4>1
            <4>2. CASE n \in 1 .. m
                <5>1. R[n] = IF G[n] \in ms THEN Append(F[n - 1], G[n]) ELSE F[n - 1]
                    BY <4>2
                <5> QED
                    BY <2>5, <4>2, <5>1
            <4> QED
                BY <1>1, <4>1, <4>2
        <3>2. R = F
            BY <2>4, <3>1
        <3> QED
            BY <3>2
    <2> QED
        BY <2>6
<1>4. Rule(K)
    <2> HIDE DEF Rule
    <2> QED
        BY <1>3
<1> HIDE DEF K
<1> PICK F : F = K /\ Rule(F)
    BY <1>4
<1>5. F = [n \in 0 .. m |-> IF n = 0 THEN << >> ELSE IF G[n] \in ms THEN Append(F[n - 1], G[n]) ELSE F[n - 1]]
    OBVIOUS
<1>6. F[0] = << >>
    BY ONLY <1>1, <1>5
<1>7. ASSUME NEW k \in 0 .. m, k + 1 \in 0 .. m
      PROVE  F[k + 1] = IF G[k + 1] \in ms THEN Append(F[k], G[k + 1]) ELSE F[k]
    <2> PICK l : l = k + 1
        OBVIOUS
    <2>1. l # 0 /\ l - 1 = k /\ l \in 0 .. m
        BY <1>1, <1>7
    <2>2. F[l] = IF G[l] \in ms THEN Append(F[l - 1], G[l]) ELSE F[l - 1]
        BY ONLY <1>5, <2>1
    <2>3. F[l] = IF G[l] \in ms THEN Append(F[k], G[l]) ELSE F[k]
        BY ONLY <2>1, <2>2
    <2> QED
        BY <2>3
<1> HIDE DEF Rule
<1> DEFINE Fact(k) == /\ F[k] \in Seq(MemberSet) /\ IsInjective(F[k])
                      /\ ToSet(F[k]) \subseteq ms /\ ToSet(F[k]) \subseteq {G[i] : i \in 1 .. k}
           A == {k \in Nat : k <= m => Fact(k)}
<1>8. Fact(0)
    BY <1>6 DEF ToSet, IsInjective
<1>9. ASSUME NEW k \in Nat, k + 1 <= m, Fact(k)
      PROVE  Fact(k + 1)
    <2>1. k \in 0 .. m /\ k + 1 \in 1 .. m /\ G[k + 1] \in MemberSet
        BY <1>1, <1>9
    <2>2. F[k + 1] = IF G[k + 1] \in ms THEN Append(F[k], G[k + 1]) ELSE F[k]
        BY <1>7, <2>1
    <2>3. {G[i] : i \in 1 .. k} \cup {G[k + 1]} \subseteq {G[i] : i \in 1 .. k + 1}
        BY <2>1
    <2>4. CASE G[k + 1] \in ms
        <3>1. F[k + 1] = Append(F[k], G[k + 1])
            BY <2>2, <2>4
        <3>2. G[k + 1] \notin {G[i] : i \in 1 .. k}
            <4>1. \A i \in 1 .. k : i \in DOMAIN G /\ i # k + 1 /\ k + 1 \in DOMAIN G
                BY <1>1, <2>1
            <4> QED
                BY <1>1, <4>1 DEF IsInjective
        <3>3. IsInjective(F[k + 1])
            <4>1. F[k] \in Seq(MemberSet) /\ IsInjective(F[k]) /\ G[k + 1] \in MemberSet /\ G[k + 1] \notin ToSet(F[k])
                BY <1>9, <2>1, <3>2
            <4>2. IsInjective(Append(F[k], G[k + 1]))
                BY ONLY <4>1, AppendingAnother
            <4> QED
                BY <3>1, <4>2
        <3>4. F[k + 1] \in Seq(MemberSet) /\ ToSet(F[k + 1]) = ToSet(F[k]) \cup {G[k + 1]}
            BY <1>9, <2>1, <3>1, Appending
        <3> QED
            BY <1>9, <2>3, <2>4, <3>3, <3>4
    <2>5. CASE G[k + 1] \notin ms
        <3>1. F[k + 1] = F[k]
            BY <2>2, <2>5
        <3> QED
            BY <1>9, <2>3, <3>1
    <2> QED
        BY <2>4, <2>5
<1> HIDE DEF Fact
<1>10. 0 \in A /\ \A k \in Nat : k \in A => k + 1 \in A
    <2>1. 0 \in A
        BY <1>8
    <2>2. ASSUME NEW k \in Nat, k \in A, k + 1 <= m
          PROVE  Fact(k + 1)
        <3>1. k <= m
            BY <1>1, <2>2
        <3> QED
            BY <1>9, <2>2, <3>1
    <2> QED
        BY <2>1, <2>2
<1>11. m \in A
    <2> HIDE DEF A
    <2> QED
        BY <1>1, <1>10, SetInduction
<1>12. Fact(m)
    BY <1>1, <1>11
<1> QED
    BY <1>2, <1>12 DEF Fact

\* One signature is counted, passed over or held against its member.
LEMMA CheckingOne ==
    ASSUME NEW s \in IdsStates, NEW m \in MemberSet, NEW cert, NEW t, t = CheckSignature(cert, s, m)
    PROVE  /\ t \in IdsStates
           /\ \/ t = s
              \/ /\ m \notin s.quarantined /\ t.valid = Append(s.valid, m)
                 /\ t.key = s.key /\ t.new = s.new /\ t.quarantined = s.quarantined
              \/ /\ t.valid = s.valid /\ t.key = s.new + 1 /\ t.new = s.new + 1 /\ s.quarantined \subseteq t.quarantined
              \/ t.valid = s.valid /\ t.key = s.key /\ t.new = s.new /\ t.quarantined = s.quarantined
<1>1. /\ s.key \in Nat /\ s.new \in Nat /\ s.fails \in [MemberSet -> Nat]
      /\ s.quarantined \in SUBSET MemberSet /\ s.valid \in Seq(MemberSet)
      /\ s.fails[m] + 1 \in Nat /\ s.new + 1 \in Nat
    BY DEF IdsStates
<1>2. CASE t = s
    BY <1>2
<1>3. CASE m \notin s.quarantined /\ t = [s EXCEPT !.valid = Append(s.valid, m)]
    <2> PICK v : v = Append(s.valid, m)
        OBVIOUS
    <2>1. v \in Seq(MemberSet)
        BY <1>1, AppendProperties
    <2>2. t = [s EXCEPT !.valid = v] /\ s \in IdsStates
        BY <1>3
    <2>3. /\ t \in IdsStates /\ t.valid = v /\ t.key = s.key /\ t.new = s.new /\ t.quarantined = s.quarantined
        BY ONLY <1>1, <2>1, <2>2 DEF IdsStates
    <2> QED
        BY <1>3, <2>3
<1>4. CASE t = RecordFailure(s, m)
    <2> PICK fails : fails = [s.fails EXCEPT ![m] = s.fails[m] + 1]
        OBVIOUS
    <2>1. fails \in [MemberSet -> Nat] /\ s \in IdsStates
        BY <1>1
    <2>2. \/ t = [s EXCEPT !.fails = fails, !.quarantined = s.quarantined \cup {m}, !.new = s.new + 1, !.key = s.new + 1]
          \/ t = [s EXCEPT !.fails = fails]
        BY <1>4 DEF RecordFailure
    <2>3. CASE t = [s EXCEPT !.fails = fails, !.quarantined = s.quarantined \cup {m}, !.new = s.new + 1, !.key = s.new + 1]
        <3> PICK k, q : k = s.new + 1 /\ q = s.quarantined \cup {m}
            OBVIOUS
        <3>1. k \in Nat /\ q \in SUBSET MemberSet /\ k = s.new + 1 /\ s.quarantined \subseteq q
            BY <1>1
        <3>2. t = [s EXCEPT !.fails = fails, !.quarantined = q, !.new = k, !.key = k]
            BY <2>3
        <3>3. t \in IdsStates /\ t.valid = s.valid /\ t.key = k /\ t.new = k /\ t.quarantined = q
            BY ONLY <1>1, <2>1, <3>1, <3>2 DEF IdsStates
        <3> QED
            BY <3>1, <3>3
    <2>4. CASE t = [s EXCEPT !.fails = fails]
        BY ONLY <1>1, <2>1, <2>4 DEF IdsStates
    <2> QED
        BY <2>2, <2>3, <2>4
<1> QED
    BY <1>2, <1>3, <1>4 DEF CheckSignature

LEMMA WalkingOn ==
    ASSUME NEW s0 \in IdsStates, NEW s, NEW n \in Nat, WalkedFrom(s0, s, n), NEW m \in MemberSet, NEW cert,
           NEW t, t = CheckSignature(cert, s, m)
    PROVE  WalkedFrom(s0, t, n + 1)
<1>1. s \in IdsStates
    BY DEF WalkedFrom
<1>2. /\ t \in IdsStates
      /\ \/ t = s
         \/ /\ m \notin s.quarantined /\ t.valid = Append(s.valid, m)
            /\ t.key = s.key /\ t.new = s.new /\ t.quarantined = s.quarantined
         \/ /\ t.valid = s.valid /\ t.key = s.new + 1 /\ t.new = s.new + 1 /\ s.quarantined \subseteq t.quarantined
         \/ t.valid = s.valid /\ t.key = s.key /\ t.new = s.new /\ t.quarantined = s.quarantined
    BY <1>1, CheckingOne
<1>3. s.key \in Nat /\ s.new \in Nat /\ s0.new \in Nat /\ s.valid \in Seq(MemberSet) /\ Len(s.valid) \in Nat
    BY <1>1 DEF IdsStates
<1>4. Len(s.valid) <= n + 1 /\ s0.new <= s.new /\ s0.new < s.new + 1
    BY <1>3 DEF WalkedFrom
<1>5. CASE t = s
    BY <1>4, <1>5 DEF WalkedFrom
<1>6. CASE /\ m \notin s.quarantined /\ t.valid = Append(s.valid, m)
           /\ t.key = s.key /\ t.new = s.new /\ t.quarantined = s.quarantined
    <2>1. ToSet(t.valid) = ToSet(s.valid) \cup {m} /\ Len(t.valid) = Len(s.valid) + 1
        BY <1>3, <1>6, Appending, AppendProperties
    <2>2. Len(t.valid) <= n + 1
        BY <1>3, <2>1 DEF WalkedFrom
    <2> QED
        BY <1>2, <1>6, <2>1, <2>2 DEF WalkedFrom
<1>7. CASE t.valid = s.valid /\ t.key = s.new + 1 /\ t.new = s.new + 1 /\ s.quarantined \subseteq t.quarantined
    BY <1>2, <1>4, <1>7 DEF WalkedFrom
<1>8. CASE t.valid = s.valid /\ t.key = s.key /\ t.new = s.new /\ t.quarantined = s.quarantined
    BY <1>2, <1>4, <1>8 DEF WalkedFrom
<1> QED
    BY <1>2, <1>5, <1>6, <1>7, <1>8

\* What verifying a certificate does, whatever was quarantined on the way.
LEMMA CheckingWalks ==
    ASSUME NEW s0 \in IdsStates, s0.valid = << >>, NEW cert \in Certs
    PROVE  WalkedFrom(s0, CheckFrom(s0, cert), Len(cert.approvals))
<1> PICK G, m : G = cert.approvals /\ m = Len(G)
    OBVIOUS
<1>1. m \in Nat /\ \A i \in 1 .. m : G[i] \in MemberSet
    BY DEF Certs
<1> DEFINE Rule(F) == F = [n \in 0 .. m |-> IF n = 0 THEN s0 ELSE CheckSignature(cert, F[n - 1], G[n])]
           K == CHOOSE F : Rule(F)
<1>2. CheckFrom(s0, cert) = K[m]
    BY DEF CheckFrom
<1>3. WalkedFrom(s0, s0, 0)
    BY NothingIn DEF WalkedFrom
<1>4. \E F : Rule(F)
    <2> PICK step, S : /\ step = [y \in IdsStates \X (1 .. m) |-> CheckSignature(cert, y[1], G[y[2]])]
                       /\ S = IdsStates
        OBVIOUS
    <2>1. ASSUME NEW i \in 1 .. m, NEW x \in S
          PROVE  step[<<x, i>>] = CheckSignature(cert, x, G[i]) /\ step[<<x, i>>] \in S
        <3>1. step[<<x, i>>] = CheckSignature(cert, x, G[i])
            OBVIOUS
        <3>2. x \in IdsStates /\ G[i] \in MemberSet
            BY <1>1
        <3>3. CheckSignature(cert, x, G[i]) \in IdsStates
            BY ONLY <3>2, CheckingOne
        <3> QED
            BY <3>1, <3>3
    <2>2. s0 \in S /\ m \in Nat /\ Advances(step, m, S)
        <3>1. \A i \in 1 .. m, x \in S : step[<<x, i>>] \in S
            BY <2>1
        <3> QED
            BY <1>1, <3>1 DEF Advances
    <2>3. Runs(m, S, s0, step) # {}
        BY ONLY <2>2, RecursionDefined
    <2>4. PICK F \in [0 .. m -> S] : F[0] = s0 /\ \A i \in 1 .. m : F[i] = step[<<F[i - 1], i>>]
        BY <2>3 DEF Runs
    <2>5. \A i \in 1 .. m : F[i] = CheckSignature(cert, F[i - 1], G[i])
        <3> TAKE i \in 1 .. m
        <3>1. F[i - 1] \in S
            BY <1>1, <2>4
        <3> QED
            BY <2>1, <2>4, <3>1
    <2>6. Rule(F)
        <3> PICK R : R = [n \in 0 .. m |-> IF n = 0 THEN s0 ELSE CheckSignature(cert, F[n - 1], G[n])]
            OBVIOUS
        <3>1. \A n \in 0 .. m : R[n] = F[n]
            <4> TAKE n \in 0 .. m
            <4>1. CASE n = 0
                BY <2>4, <4>1
            <4>2. CASE n \in 1 .. m
                <5>1. R[n] = CheckSignature(cert, F[n - 1], G[n])
                    BY <4>2
                <5> QED
                    BY <2>5, <4>2, <5>1
            <4> QED
                BY <1>1, <4>1, <4>2
        <3>2. R = F
            BY <2>4, <3>1
        <3> QED
            BY <3>2
    <2> QED
        BY <2>6
<1>5. Rule(K)
    <2> HIDE DEF Rule
    <2> QED
        BY <1>4
<1> HIDE DEF K
<1> PICK F : F = K /\ Rule(F)
    BY <1>5
<1>6. F = [n \in 0 .. m |-> IF n = 0 THEN s0 ELSE CheckSignature(cert, F[n - 1], G[n])]
    OBVIOUS
<1>7. F[0] = s0
    BY ONLY <1>1, <1>6
<1>8. ASSUME NEW k \in 0 .. m, k + 1 \in 0 .. m
      PROVE  F[k + 1] = CheckSignature(cert, F[k], G[k + 1])
    <2> PICK l : l = k + 1
        OBVIOUS
    <2>1. l # 0 /\ l - 1 = k /\ l \in 0 .. m
        BY <1>1, <1>8
    <2>2. F[l] = CheckSignature(cert, F[l - 1], G[l])
        BY ONLY <1>6, <2>1
    <2>3. F[l] = CheckSignature(cert, F[k], G[l])
        BY ONLY <2>1, <2>2
    <2> QED
        BY <2>3
<1> HIDE DEF Rule
<1> DEFINE A == {k \in Nat : k <= m => WalkedFrom(s0, F[k], k)}
<1>9. 0 \in A
    BY <1>3, <1>7
<1>10. ASSUME NEW k \in Nat, k \in A
       PROVE  k + 1 \in A
    <2> SUFFICES ASSUME k + 1 <= m PROVE WalkedFrom(s0, F[k + 1], k + 1)
        OBVIOUS
    <2>1. k \in 0 .. m /\ k + 1 \in 1 .. m /\ G[k + 1] \in MemberSet /\ WalkedFrom(s0, F[k], k)
        BY <1>1, <1>10
    <2>2. F[k + 1] = CheckSignature(cert, F[k], G[k + 1])
        BY <1>8, <2>1
    <2> QED
        BY ONLY s0 \in IdsStates, k \in Nat, <2>1, <2>2, WalkingOn
<1>11. m \in A
    <2> HIDE DEF A
    <2> QED
        BY <1>1, <1>9, <1>10, SetInduction
<1>12. WalkedFrom(s0, F[m], m)
    BY <1>1, <1>11
<1> QED
    BY <1>2, <1>12

\* A certificate that verifies has a majority of members, none of them in
\* quarantine when it was verified, and the key of that time.
LEMMA VerifiedIsCertified ==
    ASSUME NEW s0 \in IdsStates, s0.valid = << >>, NEW cert \in Certs, IsInjective(cert.approvals), cert.key <= s0.new,
           Verified(cert, CheckFrom(s0, cert))
    PROVE  /\ 2 * Cardinality(Range(cert.approvals)) > Len(GovMembers)
           /\ Range(cert.approvals) \cap s0.quarantined = {}
           /\ cert.key = s0.key
<1> PICK s, G : s = CheckFrom(s0, cert) /\ G = cert.approvals
    OBVIOUS
<1>1. WalkedFrom(s0, s, Len(G)) /\ G \in Seq(MemberSet) /\ Len(G) \in Nat /\ IsInjective(G)
    BY CheckingWalks DEF Certs
<1>2. Len(s.valid) >= Majority /\ Range(s.valid) = Range(G) /\ cert.key = s.key
    BY DEF Verified
<1>3. cert.key = s0.key
    <2>1. s0.key \in Nat /\ s0.new \in Nat /\ cert.key \in Nat /\ s.new \in Nat
        BY <1>1 DEF IdsStates, Certs, WalkedFrom
    <2> QED
        BY <1>1, <1>2, <2>1 DEF WalkedFrom
<1>4. Range(G) \cap s0.quarantined = {}
    BY <1>1, <1>2 DEF WalkedFrom, ToSet, Range
<1>5. 2 * Cardinality(Range(G)) > Len(GovMembers)
    <2>1. Cardinality(Range(G)) = Len(G)
        BY <1>1, InjectiveCounts
    <2> PICK m : m = Len(GovMembers)
        OBVIOUS
    <2>2. m \in Nat /\ Majority = m \div 2 + 1
        BY GovernanceAssumption DEF Majority
    <2>3. Len(s.valid) <= Len(G) /\ Len(s.valid) \in Nat
        BY <1>1 DEF WalkedFrom, IdsStates
    <2>4. Len(G) >= m \div 2 + 1
        BY <1>1, <1>2, <2>2, <2>3
    <2>5. 2 * Len(G) > m
        BY ONLY <1>1, <2>2, <2>4
    <2> QED
        BY <2>1, <2>5
<1> QED
    BY <1>3, <1>4, <1>5

LEMMA TheWalkBegins ==
    ASSUME GovInv
    PROVE  Ids0 \in IdsStates /\ Ids0.valid = << >> /\ Ids0.key = gKey /\ Ids0.new = gNewKey /\ Ids0.quarantined = gQuarantined
<1> PICK none : none = << >>
    OBVIOUS
<1>1. none \in Seq(MemberSet) /\ gKey \in Nat /\ gNewKey \in Nat /\ gFailures \in [MemberSet -> Nat] /\ gQuarantined \in SUBSET MemberSet
    BY DEF GovInv
<1>2. Ids0 = [key |-> gKey, new |-> gNewKey, fails |-> gFailures, quarantined |-> gQuarantined, valid |-> none]
    BY DEF Ids0
<1>3. Ids0 \in IdsStates /\ Ids0.valid = none /\ Ids0.key = gKey /\ Ids0.new = gNewKey /\ Ids0.quarantined = gQuarantined
    BY ONLY <1>1, <1>2 DEF IdsStates
<1> QED
    BY <1>3

LEMMA GovInvGives == GovInv => ActiveRulesAreCertified
<1> SUFFICES ASSUME GovInv, NEW r \in ActiveRules
             PROVE  /\ 2 * Cardinality(Range(gRegistry[r].approvals)) > Len(GovMembers)
                    /\ Range(gRegistry[r].approvals) \cap gQuarantined = {}
                    /\ gRegistry[r].key = gKey
    BY DEF ActiveRulesAreCertified
<1> PICK s0, cert : s0 = Ids0 /\ cert = gRegistry[r]
    OBVIOUS
<1>1. r \in Rules /\ Verified(gRegistry[r], CheckSignatures(gRegistry[r]))
    BY DEF ActiveRules
<1>2. CheckSignatures(gRegistry[r]) = CheckFrom(s0, cert)
    BY DEF CheckSignatures, CheckFrom
<1>3. Verified(cert, CheckFrom(s0, cert))
    BY <1>1, <1>2
<1>4. s0 \in IdsStates /\ s0.valid = << >> /\ s0.key = gKey /\ s0.new = gNewKey /\ s0.quarantined = gQuarantined
    BY TheWalkBegins
<1>5. cert \in Certs /\ IsInjective(cert.approvals) /\ cert.key <= s0.new
    BY <1>1, <1>4 DEF GovInv
<1>6. /\ 2 * Cardinality(Range(cert.approvals)) > Len(GovMembers)
      /\ Range(cert.approvals) \cap s0.quarantined = {} /\ cert.key = s0.key
    BY ONLY <1>3, <1>4, <1>5, VerifiedIsCertified
<1> QED
    BY <1>4, <1>6

LEMMA GovStarts == GovInit => GovInv
<1> SUFFICES ASSUME GovInit PROVE GovInv
    OBVIOUS
<1> PICK none : none = << >>
    OBVIOUS
<1>1. none \in Seq(MemberSet) /\ IsInjective(none)
    BY DEF IsInjective
<1>2. NoCert = [approvals |-> none, key |-> 0]
    BY DEF NoCert
<1>3. NoCert \in Certs /\ NoCert.approvals = none /\ NoCert.key = 0
    BY ONLY <1>1, <1>2 DEF Certs
<1>4. gRegistry \in [Rules -> Certs] /\ \A r \in Rules : gRegistry[r] = NoCert
    BY <1>3 DEF GovInit
<1> QED
    BY <1>1, <1>3, <1>4 DEF GovInit, GovInv

RevokesAll == ~(gQuarantined' \subseteq gQuarantined) => ActiveRules' = {}

\* The swarm goes on from the state that a check left it in.
LEMMA RecordingKeeps ==
    ASSUME GovInv, NEW s, WalkedFrom(Ids0, s, Len(s.valid)), GovRecord(s), UNCHANGED <<gRegistry, gConfigured>>
    PROVE  GovInv' /\ RevokesAll
<1>1. /\ s.key \in Nat /\ s.new \in Nat /\ s.fails \in [MemberSet -> Nat] /\ s.quarantined \in SUBSET MemberSet
      /\ \/ s.key = gKey /\ s.new = gNewKey /\ s.quarantined = gQuarantined
         \/ s.key = s.new /\ gNewKey < s.new
    BY TheWalkBegins DEF WalkedFrom, IdsStates
<1>2. gKey' = s.key /\ gNewKey' = s.new /\ gFailures' = s.fails /\ gQuarantined' = s.quarantined
    BY DEF GovRecord
<1>3. /\ gKey \in Nat /\ gNewKey \in Nat /\ gKey <= gNewKey /\ gConfigured \in 0 .. gNewKey
      /\ gRegistry \in [Rules -> Certs]
      /\ \A r \in Rules : gRegistry[r].key <= gNewKey /\ IsInjective(gRegistry[r].approvals) /\ gRegistry[r].key \in Nat
    BY DEF GovInv, Certs
<1>4. gKey' <= gNewKey' /\ gNewKey <= gNewKey' /\ gNewKey' \in Nat /\ gKey' \in Nat
    BY <1>1, <1>2, <1>3
<1>5. \A r \in Rules : gRegistry'[r].key <= gNewKey'
    BY <1>3, <1>4
<1>6. gConfigured' \in 0 .. gNewKey'
    BY <1>3, <1>4
<1>7. GovInv'
    BY <1>1, <1>2, <1>3, <1>4, <1>5, <1>6 DEF GovInv
<1>8. ASSUME ~(gQuarantined' \subseteq gQuarantined), NEW r \in ActiveRules'
      PROVE  FALSE
    <2>1. gNewKey < gKey'
        BY <1>1, <1>2, <1>8
    <2>2. r \in Rules
        BY <1>8 DEF ActiveRules
    <2>3. gRegistry'[r].key = gKey'
        <3>1. GovInv' => ActiveRulesAreCertified'
            BY GovInvGives, PTL
        <3> QED
            BY <1>7, <1>8, <3>1 DEF ActiveRulesAreCertified
    <2> QED
        BY <1>3, <1>4, <2>1, <2>2, <2>3
<1> QED
    BY <1>7, <1>8 DEF RevokesAll

LEMMA GovStepKeeps ==
    ASSUME GovInv, GovNext \/ UNCHANGED govVars
    PROVE  GovInv' /\ RevokesAll
<1>1. CASE UNCHANGED govVars
    BY <1>1 DEF govVars, GovInv, RevokesAll
<1>2. ASSUME NEW r \in Rules, Propose(r)
      PROVE  GovInv' /\ RevokesAll
    BY <1>2 DEF Propose, GovInv, RevokesAll
<1>3. ASSUME NEW r \in Rules, CheckApproved(r)
      PROVE  GovInv' /\ RevokesAll
    <2> PICK s0, s, cert : s0 = Ids0 /\ cert = gRegistry[r] /\ s = CheckFrom(s0, cert)
        OBVIOUS
    <2>1. CheckSignatures(gRegistry[r]) = CheckFrom(s0, cert)
        BY DEF CheckSignatures, CheckFrom
    <2>2. GovRecord(s) /\ UNCHANGED <<gRegistry, gConfigured>>
        BY <1>3, <2>1 DEF CheckApproved
    <2>3. s0 \in IdsStates /\ s0.valid = << >> /\ cert \in Certs
        BY TheWalkBegins DEF GovInv
    <2>4. WalkedFrom(s0, s, Len(cert.approvals))
        BY <2>3, CheckingWalks
    <2>5. WalkedFrom(Ids0, s, Len(s.valid))
        BY <2>4 DEF WalkedFrom, IdsStates
    <2> QED
        BY <2>2, <2>5, RecordingKeeps
<1>4. ASSUME NEW m \in MemberSet, CheckForeign(m)
      PROVE  GovInv' /\ RevokesAll
    <2> PICK s0, s, cert : s0 = Ids0 /\ s = RecordFailure(s0, m) /\ cert = [key |-> s0.key + 1]
        OBVIOUS
    <2>1. GovRecord(s) /\ UNCHANGED <<gRegistry, gConfigured>> /\ m \notin s0.quarantined
        BY <1>4, TheWalkBegins DEF CheckForeign
    <2>2. s0 \in IdsStates /\ s0.valid = << >> /\ s0.key \in Nat
        BY TheWalkBegins DEF IdsStates
    <2>3. s = CheckSignature(cert, s0, m)
        BY <2>1, <2>2 DEF CheckSignature
    <2>4. WalkedFrom(s0, s0, 0)
        BY <2>2, NothingIn DEF WalkedFrom
    <2>5. WalkedFrom(s0, s, 0 + 1)
        BY ONLY <2>2, <2>3, <2>4, m \in MemberSet, WalkingOn
    <2>6. WalkedFrom(Ids0, s, Len(s.valid))
        BY <2>5 DEF WalkedFrom, IdsStates
    <2> QED
        BY <2>1, <2>6, RecordingKeeps
<1>5. CASE Restart
    <2>1. gFailures' \in [MemberSet -> Nat]
        BY <1>5 DEF Restart
    <2> QED
        BY <1>5, <2>1 DEF Restart, GovInv, RevokesAll
<1>6. ASSUME NEW i, NEW m, NEW v, CastVote(i, m, v)
      PROVE  GovInv' /\ RevokesAll
    <2> PICK p, cert : /\ p = [gProposals[i] EXCEPT !.votes[m] = v]
                       /\ cert = [approvals |-> InOrder(Voters(p, "approve") \ gQuarantined), key |-> gKey]
        OBVIOUS
    <2>1. UNCHANGED <<gKey, gNewKey, gFailures, gQuarantined, gConfigured>>
        BY <1>6 DEF CastVote, ids
    <2>2. gRegistry' = gRegistry \/ gRegistry' = [gRegistry EXCEPT ![p.rule] = cert]
        BY <1>6 DEF CastVote, Certificate
    <2>3. cert \in Certs /\ cert.key = gKey /\ IsInjective(cert.approvals)
        BY OrderedMembers DEF Certs, GovInv
    <2>4. gRegistry' \in [Rules -> Certs] /\ \A r \in Rules : gRegistry'[r] = gRegistry[r] \/ gRegistry'[r] = cert
        BY <2>2, <2>3 DEF GovInv
    <2> QED
        BY <2>1, <2>3, <2>4 DEF GovInv, RevokesAll
<1> QED
    BY <1>1, <1>2, <1>3, <1>4, <1>5, <1>6 DEF GovNext

-----------------------------------------------------------------------------
(* The software factory. *)

\* What holds for a set when it holds for the next one of the chain holds for all.
LEMMA ChainInduction ==
    ASSUME NEW S, IsFiniteSet(S), NEW X, NEW head, NEW next, Descends(S, X, head, next), NEW P, {} \in P,
           \A T \in SUBSET S : T # {} /\ next[T] \in P => T \in P
    PROVE  SUBSET S \subseteq P
<1> DEFINE A == {k \in Nat : \A T \in SUBSET S : Cardinality(T) <= k => T \in P}
<1>1. \A T \in SUBSET S : /\ IsFiniteSet(T) /\ Cardinality(T) \in Nat /\ (Cardinality(T) = 0 <=> T = {})
                          /\ T # {} => Cardinality(next[T]) < Cardinality(T)
    BY FS_Subset, FS_CardinalityType, FS_EmptySet DEF Descends
<1>2. 0 \in A
    <2>1. \A T \in SUBSET S : Cardinality(T) <= 0 => T = {}
        BY <1>1
    <2> QED
        BY <2>1
<1>3. ASSUME NEW k \in Nat, k \in A
      PROVE  k + 1 \in A
    <2>1. ASSUME NEW T \in SUBSET S, T # {}, Cardinality(T) <= k + 1
          PROVE  T \in P
        <3>1. next[T] \in SUBSET S /\ Cardinality(next[T]) \in Nat /\ Cardinality(next[T]) < Cardinality(T) /\ Cardinality(T) \in Nat
            BY <1>1, <2>1 DEF Descends
        <3>2. Cardinality(next[T]) <= k
            BY <2>1, <3>1
        <3>3. next[T] \in P
            BY <1>3, <3>1, <3>2
        <3> QED
            BY <2>1, <3>3
    <2>2. \A T \in SUBSET S : Cardinality(T) <= k + 1 => T \in P
        BY <2>1
    <2>3. k + 1 \in Nat
        OBVIOUS
    <2> QED
        BY <2>2, <2>3
<1>4. Nat \subseteq A
    <2> HIDE DEF A
    <2> QED
        BY <1>2, <1>3, SetInduction
<1>5. ASSUME NEW T \in SUBSET S
      PROVE  T \in P
    <2>1. Cardinality(T) \in A /\ Cardinality(T) <= Cardinality(T)
        BY <1>1, <1>4
    <2> QED
        BY <2>1
<1> QED
    BY <1>5

\* A finite set that is ordered has a first element.
Orders(R, S) ==
    \A a, b, c \in S : /\ a # b => <<a, b>> \in R \/ <<b, a>> \in R
                       /\ <<a, b>> \in R /\ <<b, c>> \in R => <<a, c>> \in R
FirstOf(R, T, a) == a \in T /\ \A b \in T \ {a} : <<a, b>> \in R

LEMMA FiniteHasFirst ==
    ASSUME NEW S, IsFiniteSet(S), S # {}, NEW R, Orders(R, S)
    PROVE  \E a \in S : FirstOf(R, S, a)
<1> DEFINE A == {k \in Nat : \A T \in SUBSET S : T # {} /\ Cardinality(T) <= k => \E a \in T : FirstOf(R, T, a)}
<1>1. \A T \in SUBSET S : IsFiniteSet(T) /\ Cardinality(T) \in Nat /\ (Cardinality(T) = 0 <=> T = {})
    BY FS_Subset, FS_CardinalityType, FS_EmptySet
<1>2. 0 \in A
    <2>1. \A T \in SUBSET S : Cardinality(T) <= 0 => T = {}
        BY <1>1
    <2> QED
        BY <2>1
<1>3. ASSUME NEW k \in Nat, k \in A
      PROVE  k + 1 \in A
    <2> SUFFICES ASSUME NEW T \in SUBSET S, T # {}, Cardinality(T) <= k + 1
                 PROVE  \E a \in T : FirstOf(R, T, a)
        OBVIOUS
    <2> PICK x \in T : TRUE
        OBVIOUS
    <2> PICK rest : rest = T \ {x}
        OBVIOUS
    <2>1. rest \in SUBSET S /\ Cardinality(rest) = Cardinality(T) - 1
        BY <1>1, FS_RemoveElement
    <2>2. Cardinality(rest) <= k
        BY <1>1, <2>1
    <2>3. CASE rest = {}
        BY <2>3 DEF FirstOf
    <2>4. CASE rest # {}
        <3>1. PICK a \in rest : FirstOf(R, rest, a)
            BY <1>3, <2>1, <2>2, <2>4
        <3>2. CASE <<a, x>> \in R
            <4>1. FirstOf(R, T, a)
                BY <3>1, <3>2 DEF FirstOf
            <4> QED
                BY <3>1, <4>1
        <3>3. CASE <<x, a>> \in R
            <4>1. \A b \in T \ {x} : <<x, b>> \in R
                <5> TAKE b \in T \ {x}
                <5>1. b = a \/ <<a, b>> \in R
                    BY <3>1 DEF FirstOf
                <5> QED
                    BY <3>1, <3>3, <5>1 DEF Orders
            <4> QED
                BY <4>1 DEF FirstOf
        <3> QED
            BY <3>1, <3>2, <3>3 DEF Orders
    <2> QED
        BY <2>3, <2>4
<1>4. Cardinality(S) \in A
    <2> HIDE DEF A
    <2> QED
        BY <1>1, <1>2, <1>3, SetInduction
<1> QED
    BY <1>1, <1>4

IsGraph(ns) == (\E n \in Nat : DOMAIN ns = 1 .. n) /\ \A k \in DOMAIN ns : IsTask(ns[k])

LEMMA GraphsAreFinite == ASSUME NEW ns, IsGraph(ns) PROVE IsFiniteSet(DOMAIN ns) /\ DOMAIN ns \in SUBSET Nat
<1> PICK n \in Nat : DOMAIN ns = 1 .. n
    BY DEF IsGraph
<1> QED
    BY FS_Interval

LEMMA TheEarliestIsThere ==
    ASSUME NEW ns, IsGraph(ns), NEW cs \in SUBSET DOMAIN ns, cs # {}
    PROVE  Earliest(ns, cs) \in cs
<1> PICK R : R = {y \in cs \X cs : Earlier(ns, y[1], y[2])}
    OBVIOUS
<1>1. IsFiniteSet(cs) /\ \A a \in cs : a \in Nat /\ ns[a].prio \in Int /\ ns[a].effort \in Int
    BY GraphsAreFinite, FS_Subset DEF IsGraph, IsTask
<1>2. \A a, b \in cs : <<a, b>> \in R <=> Earlier(ns, a, b)
    <2> TAKE a, b \in cs
    <2> PICK y : y = <<a, b>>
        OBVIOUS
    <2>1. y \in cs \X cs /\ y[1] = a /\ y[2] = b
        OBVIOUS
    <2>2. y \in R <=> Earlier(ns, y[1], y[2])
        BY <2>1
    <2> QED
        BY <2>1, <2>2
<1>3. Orders(R, cs)
    <2> SUFFICES ASSUME NEW a \in cs, NEW b \in cs, NEW c \in cs
                 PROVE  /\ a # b => Earlier(ns, a, b) \/ Earlier(ns, b, a)
                        /\ Earlier(ns, a, b) /\ Earlier(ns, b, c) => Earlier(ns, a, c)
        BY <1>2 DEF Orders
    <2> QED
        BY <1>1 DEF Earlier
<1>4. PICK a \in cs : FirstOf(R, cs, a)
    BY <1>1, <1>3, FiniteHasFirst
<1>5. \A b \in cs \ {a} : Earlier(ns, a, b)
    BY <1>2, <1>4 DEF FirstOf
<1> QED
    BY <1>5 DEF Earliest

LEMMA PrependingAnother ==
    ASSUME NEW S, NEW s \in Seq(S), IsInjective(s), NEW x \in S, x \notin ToSet(s)
    PROVE  IsInjective(<< x >> \o s)
<1> PICK j, n : j = << x >> \o s /\ n = Len(s)
    OBVIOUS
<1>1. n \in Nat /\ Len(j) = n + 1 /\ j \in Seq(S) /\ j[1] = x /\ \A i \in 1 .. n : j[i + 1] = s[i]
    BY Prepending
<1>2. DOMAIN j = 1 .. n + 1 /\ DOMAIN s = 1 .. n
    BY <1>1
<1>3. \A a \in 1 .. n + 1 : a = 1 \/ (a - 1 \in 1 .. n /\ j[a] = s[a - 1])
    <2> TAKE a \in 1 .. n + 1
    <2>1. CASE a # 1
        <3> PICK b : b = a - 1
            OBVIOUS
        <3>1. b \in 1 .. n /\ a = b + 1
            BY <1>1, <2>1
        <3>2. j[a] = s[b]
            BY <1>1, <3>1
        <3> QED
            BY <3>1, <3>2
    <2> QED
        BY <2>1
<1>4. \A i \in 1 .. n : s[i] # x
    BY <1>2 DEF ToSet
<1>5. \A a, b \in 1 .. n : s[a] = s[b] => a = b
    BY <1>2 DEF IsInjective
<1>6. \A a, b \in 1 .. n + 1 : j[a] = j[b] => a = b
    BY <1>1, <1>3, <1>4, <1>5
<1>7. IsInjective(j)
    BY <1>2, <1>6 DEF IsInjective
<1> QED
    BY <1>7

\* The tasks of a wave: each once, and no two that write the same file.
IsWave(ns, w, cs) ==
    /\ w \in Seq(cs) /\ IsInjective(w)
    /\ \A n, m \in ToSet(w) : n # m => ~SharesScope(ns[n], ns[m])

LEMMA WavesAreDisjoint ==
    ASSUME NEW ns, IsGraph(ns), NEW left \in SUBSET DOMAIN ns
    PROVE  /\ IsWave(ns, Wave(ns, left), Unblocked(ns, left))
           /\ Unblocked(ns, left) # {} => Wave(ns, left) # << >>
<1> PICK C : C = Unblocked(ns, left)
    OBVIOUS
<1>1. C \in SUBSET DOMAIN ns /\ IsFiniteSet(C)
    <2>1. C \in SUBSET DOMAIN ns
        BY DEF Unblocked
    <2> QED
        BY <2>1, GraphsAreFinite, FS_Subset
<1> DEFINE Rest(T) == {b \in T \ {Earliest(ns, T)} : ~SharesScope(ns[Earliest(ns, T)], ns[b])}
           Rule(F) == F = [T \in SUBSET C |-> IF T = {} THEN << >> ELSE << Earliest(ns, T) >> \o F[Rest(T)]]
           K == CHOOSE F : Rule(F)
<1> PICK head, next : head = [T \in SUBSET C |-> Earliest(ns, T)] /\ next = [T \in SUBSET C |-> Rest(T)]
    OBVIOUS
<1>2. Wave(ns, left) = K[C]
    BY DEF Wave
<1>3. \A T \in SUBSET C : /\ head[T] = Earliest(ns, T) /\ next[T] = Rest(T) /\ Rest(T) \in SUBSET T
                          /\ T # {} => head[T] \in T /\ head[T] \notin Rest(T)
    <2> TAKE T \in SUBSET C
    <2>1. head[T] = Earliest(ns, T) /\ next[T] = Rest(T) /\ Rest(T) \in SUBSET T /\ Earliest(ns, T) \notin Rest(T)
        OBVIOUS
    <2>2. T # {} => Earliest(ns, T) \in T
        BY <1>1, TheEarliestIsThere
    <2> HIDE DEF Rest
    <2> QED
        BY <2>1, <2>2
<1>13. \A T \in SUBSET C : \A b \in Rest(T) : ~SharesScope(ns[Earliest(ns, T)], ns[b])
    OBVIOUS
<1> HIDE DEF Rest
<1>4. Descends(C, C, head, next)
    BY <1>3 DEF Descends
<1>5. PICK G \in [SUBSET C -> Seq(C)] : Follows(G, C, head, next)
    BY <1>1, <1>4, ChainDefined
<1>6. Rule(G)
    <2> PICK R : R = [T \in SUBSET C |-> IF T = {} THEN << >> ELSE << Earliest(ns, T) >> \o G[Rest(T)]]
        OBVIOUS
    <2>1. \A T \in SUBSET C : R[T] = G[T]
        <3> TAKE T \in SUBSET C
        <3>1. CASE T = {}
            BY <1>5, <3>1 DEF Follows
        <3>2. CASE T # {}
            <4>1. R[T] = << Earliest(ns, T) >> \o G[Rest(T)] /\ G[T] = << head[T] >> \o G[next[T]]
                BY <1>5, <3>2 DEF Follows
            <4> QED
                BY <1>3, <4>1
        <3> QED
            BY <3>1, <3>2
    <2>2. R = G
        BY <1>5, <2>1
    <2> QED
        BY <2>2
<1>7. Rule(K)
    <2> HIDE DEF Rule
    <2> QED
        BY <1>6
<1> HIDE DEF K
<1> PICK F : F = K /\ Rule(F)
    BY <1>7
<1>8. F = [T \in SUBSET C |-> IF T = {} THEN << >> ELSE << Earliest(ns, T) >> \o F[Rest(T)]]
    OBVIOUS
<1>9. Follows(F, C, head, next)
    <2> SUFFICES ASSUME NEW T \in SUBSET C
                 PROVE  F[T] = IF T = {} THEN << >> ELSE << head[T] >> \o F[next[T]]
        BY DEF Follows
    <2>1. F[T] = IF T = {} THEN << >> ELSE << Earliest(ns, T) >> \o F[Rest(T)]
        BY ONLY <1>8, T \in SUBSET C
    <2> QED
        BY <1>3, <2>1
<1> HIDE DEF Rule
<1> PICK P : P = {T \in SUBSET C : IsWave(ns, F[T], T)}
    OBVIOUS
<1>10. {} \in P
    <2> PICK none, e : none = << >> /\ e = {}
        OBVIOUS
    <2>1. none \in Seq(e) /\ IsInjective(none) /\ ToSet(none) = {}
        BY NothingIn DEF IsInjective
    <2>2. F[e] = none /\ e \in SUBSET C
        BY <1>9 DEF Follows
    <2>3. IsWave(ns, F[e], e)
        BY <2>1, <2>2 DEF IsWave
    <2> QED
        BY <2>2, <2>3
<1>11. ASSUME NEW T \in SUBSET C, T # {}, next[T] \in P
       PROVE  T \in P
    <2> PICK a, N, rest : a = head[T] /\ N = next[T] /\ rest = F[N]
        OBVIOUS
    <2>1. a \in T /\ a \notin N /\ N \in SUBSET T /\ F[T] = << a >> \o rest
        BY <1>3, <1>9, <1>11 DEF Follows
    <2>2. IsWave(ns, rest, N)
        BY <1>11
    <2>3. rest \in Seq(N) /\ rest \in Seq(T) /\ IsInjective(rest) /\ ToSet(rest) \subseteq N
        BY <2>1, <2>2 DEF IsWave, ToSet
    <2>4. F[T] \in Seq(T) /\ ToSet(F[T]) = {a} \cup ToSet(rest)
        BY <2>1, <2>3, Prepending
    <2>5. IsInjective(F[T])
        <3>1. a \notin ToSet(rest)
            BY <2>1, <2>3
        <3> QED
            BY <2>1, <2>3, <3>1, PrependingAnother
    <2>6. \A n, m \in ToSet(F[T]) : n # m => ~SharesScope(ns[n], ns[m])
        <3>1. \A b \in N : ~SharesScope(ns[a], ns[b]) /\ ~SharesScope(ns[b], ns[a])
            <4>1. \A b \in N : ~SharesScope(ns[a], ns[b])
                BY <1>3, <1>13
            <4> QED
                BY <4>1 DEF SharesScope
        <3> QED
            BY <2>2, <2>3, <2>4, <3>1 DEF IsWave
    <2> QED
        BY <2>4, <2>5, <2>6 DEF IsWave
<1>12. SUBSET C \subseteq P
    <2>1. \A T \in SUBSET C : T # {} /\ next[T] \in P => T \in P
        BY <1>11
    <2> QED
        BY ONLY <1>1, <1>4, <1>10, <2>1, ChainInduction
<1>14. IsWave(ns, F[C], C)
    BY <1>12
<1>15. C # {} => F[C] # << >>
    <2> SUFFICES ASSUME C # {} PROVE F[C] # << >>
        OBVIOUS
    <2> PICK a, rest : a = head[C] /\ rest = F[next[C]]
        OBVIOUS
    <2>1. a \in C /\ F[C] = << a >> \o rest /\ next[C] \in SUBSET C
        <3>1. C \in SUBSET C
            OBVIOUS
        <3>2. head[C] \in C /\ next[C] \in SUBSET C
            BY <1>4, <3>1 DEF Descends
        <3>3. F[C] = << head[C] >> \o F[next[C]]
            BY <1>9, <3>1 DEF Follows
        <3> QED
            BY <3>2, <3>3
    <2>2. rest \in Seq(C)
        <3>1. IsWave(ns, rest, next[C])
            BY <1>12, <2>1
        <3> QED
            BY <2>1, <3>1 DEF IsWave
    <2>3. Len(F[C]) = Len(rest) + 1 /\ Len(rest) \in Nat
        BY <2>1, <2>2, Prepending
    <2> QED
        BY <2>3
<1> QED
    BY <1>2, <1>14, <1>15

\* Waves over a set of tasks: every task is in one of them, after what it
\* waits for.
Holds(ws, n, i) == i \in 1 .. Len(ws) /\ n \in ToSet(ws[i])

IsPlan(ns, ws, T) ==
    /\ ws \in Seq(Seq(DOMAIN ns))
    /\ \A i \in 1 .. Len(ws) : IsWave(ns, ws[i], T)
    /\ \A n \in T : \E i \in Nat : Holds(ws, n, i)
    /\ \A i, j \in Nat : \A n \in T : Holds(ws, n, i) /\ Holds(ws, n, j) => i = j
    /\ \A i, j \in Nat : \A n, d \in T : Holds(ws, n, i) /\ Holds(ws, d, j) /\ d \in ns[n].deps => j < i

LEMMA WiderWaves ==
    ASSUME NEW ns, NEW w, NEW N, IsWave(ns, w, N), NEW T, N \subseteq T
    PROVE  IsWave(ns, w, T) /\ ToSet(w) \subseteq N
<1>1. w \in Seq(N) /\ w \in Seq(T)
    BY DEF IsWave
<1>2. ToSet(w) \subseteq N
    BY <1>1 DEF ToSet
<1> QED
    BY <1>1, <1>2 DEF IsWave

\* The first wave takes tasks that wait for none of the set, the others go on
\* with what it leaves.
LEMMA AnotherWave ==
    ASSUME NEW ns, IsGraph(ns), NEW T \in SUBSET DOMAIN ns, NEW w, IsWave(ns, w, Unblocked(ns, T)),
           NEW rest, IsPlan(ns, rest, T \ ToSet(w))
    PROVE  IsPlan(ns, << w >> \o rest, T)
<1> PICK ws, l, N : ws = << w >> \o rest /\ l = Len(rest) /\ N = T \ ToSet(w)
    OBVIOUS
<1>1. /\ IsWave(ns, w, T) /\ ToSet(w) \subseteq Unblocked(ns, T) /\ ToSet(w) \subseteq T
      /\ \A n \in ToSet(w) : ns[n].deps \cap T = {}
    <2>1. Unblocked(ns, T) \subseteq T /\ \A n \in Unblocked(ns, T) : ns[n].deps \cap T = {}
        BY DEF Unblocked
    <2> QED
        BY <2>1, WiderWaves
<1>2. w \in Seq(DOMAIN ns)
    BY <1>1 DEF IsWave
<1>3. /\ rest \in Seq(Seq(DOMAIN ns)) /\ IsPlan(ns, rest, N)
    BY DEF IsPlan
<1>4. /\ ws \in Seq(Seq(DOMAIN ns)) /\ Len(ws) = l + 1 /\ ws[1] = w /\ l \in Nat
      /\ \A i \in 1 .. l : ws[i + 1] = rest[i]
    BY <1>2, <1>3, Prepending
<1>5. \A i \in Nat : \A n : Holds(ws, n, i) <=> (i = 1 /\ n \in ToSet(w)) \/ (i - 1 \in 1 .. l /\ Holds(rest, n, i - 1))
    <2> TAKE i \in Nat
    <2> TAKE n
    <2>1. CASE i = 1
        BY <1>4, <2>1 DEF Holds
    <2>2. CASE i - 1 \in 1 .. l
        <3> PICK k : k = i - 1
            OBVIOUS
        <3>1. k \in 1 .. l /\ i = k + 1 /\ i \in 1 .. l + 1 /\ i # 1
            BY <1>4, <2>2
        <3>2. ws[i] = rest[k]
            BY <1>4, <3>1
        <3> QED
            BY <1>4, <3>1, <3>2 DEF Holds
    <2>3. CASE i # 1 /\ i - 1 \notin 1 .. l
        <3>1. i \notin 1 .. l + 1
            BY <1>4, <2>3
        <3> QED
            BY <1>4, <2>3, <3>1 DEF Holds
    <2> QED
        BY <2>1, <2>2, <2>3
<1>6. \A i \in 1 .. Len(ws) : IsWave(ns, ws[i], T)
    <2> TAKE i \in 1 .. Len(ws)
    <2>1. CASE i = 1
        BY <1>1, <1>4, <2>1
    <2>2. CASE i # 1
        <3> PICK k : k = i - 1
            OBVIOUS
        <3>1. k \in 1 .. l /\ i = k + 1
            BY <1>4, <2>2
        <3>2. ws[i] = rest[k]
            BY <1>4, <3>1
        <3>3. IsWave(ns, rest[k], N) /\ N \subseteq T
            BY <1>3, <3>1 DEF IsPlan
        <3> QED
            BY <3>2, <3>3, WiderWaves
    <2> QED
        BY <2>1, <2>2
<1>7. \A n, i : Holds(rest, n, i) => i \in Nat /\ n \in N
    <2> SUFFICES ASSUME NEW n, NEW i, Holds(rest, n, i) PROVE i \in Nat /\ n \in N
        OBVIOUS
    <2>1. i \in 1 .. l /\ n \in ToSet(rest[i])
        BY DEF Holds
    <2>2. IsWave(ns, rest[i], N)
        BY <1>3, <2>1 DEF IsPlan
    <2>3. ToSet(rest[i]) \subseteq N
        BY <2>2, WiderWaves
    <2> QED
        BY <1>4, <2>1, <2>3
<1>8. \A n \in T : \E i \in Nat : Holds(ws, n, i)
    <2> TAKE n \in T
    <2>1. CASE n \in ToSet(w)
        <3>1. Holds(ws, n, 1)
            BY <1>5, <2>1
        <3> QED
            BY <3>1
    <2>2. CASE n \in N
        <3>1. PICK k \in Nat : Holds(rest, n, k)
            BY <1>3, <2>2 DEF IsPlan
        <3>2. k + 1 \in Nat /\ k + 1 - 1 = k /\ k \in 1 .. l
            BY <3>1 DEF Holds
        <3>3. Holds(ws, n, k + 1)
            BY <1>5, <3>1, <3>2
        <3> QED
            BY <3>2, <3>3
    <2> QED
        BY <2>1, <2>2
<1>9. ASSUME NEW i \in Nat, NEW j \in Nat, NEW n \in T, Holds(ws, n, i), Holds(ws, n, j)
      PROVE  i = j
    <2>1. CASE n \in ToSet(w)
        <3>1. n \notin N
            BY <2>1
        <3> QED
            BY <1>5, <1>7, <1>9, <3>1
    <2>2. CASE n \notin ToSet(w)
        <3>1. i - 1 \in 1 .. l /\ Holds(rest, n, i - 1) /\ j - 1 \in 1 .. l /\ Holds(rest, n, j - 1) /\ n \in N
            BY <1>5, <1>9, <2>2
        <3>2. i - 1 \in Nat /\ j - 1 \in Nat
            BY <3>1
        <3>3. i - 1 = j - 1
            BY <1>3, <3>1, <3>2 DEF IsPlan
        <3> QED
            BY <3>3
    <2> QED
        BY <2>1, <2>2
<1>10. ASSUME NEW i \in Nat, NEW j \in Nat, NEW n \in T, NEW d \in T, Holds(ws, n, i), Holds(ws, d, j), d \in ns[n].deps
       PROVE  j < i
    <2>1. n \notin ToSet(w)
        BY <1>1, <1>10
    <2>2. i - 1 \in 1 .. l /\ Holds(rest, n, i - 1) /\ n \in N
        BY <1>5, <1>10, <2>1
    <2>3. CASE j = 1
        BY <1>4, <2>2, <2>3
    <2>4. CASE j # 1
        <3>1. j - 1 \in 1 .. l /\ Holds(rest, d, j - 1)
            BY <1>5, <1>10, <2>4
        <3>2. d \in N /\ j - 1 \in Nat /\ i - 1 \in Nat
            BY <1>7, <2>2, <3>1
        <3>3. j - 1 < i - 1
            BY <1>3, <1>10, <2>2, <3>1, <3>2 DEF IsPlan
        <3> QED
            BY <3>3
    <2> QED
        BY <2>3, <2>4
<1> QED
    BY <1>4, <1>6, <1>8, <1>9, <1>10 DEF IsPlan

LEMMA WavesArePlans ==
    ASSUME NEW ns, IsGraph(ns), Acyclic(ns)
    PROVE  IsPlan(ns, Waves(ns), DOMAIN ns)
<1> PICK D : D = DOMAIN ns
    OBVIOUS
<1>1. IsFiniteSet(D)
    BY GraphsAreFinite
<1> DEFINE Rest(T) == T \ ToSet(Wave(ns, T))
           Rule(F) == F = [T \in SUBSET D |-> IF T = {} THEN << >> ELSE << Wave(ns, T) >> \o F[Rest(T)]]
           K == CHOOSE F : Rule(F)
<1> PICK head, next : head = [T \in SUBSET D |-> Wave(ns, T)] /\ next = [T \in SUBSET D |-> Rest(T)]
    OBVIOUS
<1>2. Waves(ns) = K[D]
    BY DEF Waves
<1>3. \A T \in SUBSET D : /\ head[T] = Wave(ns, T) /\ next[T] = Rest(T) /\ Rest(T) \in SUBSET T
                          /\ IsWave(ns, Wave(ns, T), Unblocked(ns, T)) /\ Wave(ns, T) \in Seq(D)
                          /\ T # {} => Rest(T) # T
    <2> TAKE T \in SUBSET D
    <2>1. IsWave(ns, Wave(ns, T), Unblocked(ns, T)) /\ (Unblocked(ns, T) # {} => Wave(ns, T) # << >>)
        BY WavesAreDisjoint
    <2>2. Unblocked(ns, T) \subseteq T
        BY DEF Unblocked
    <2>3. IsWave(ns, Wave(ns, T), T) /\ ToSet(Wave(ns, T)) \subseteq T
        BY <2>1, <2>2, WiderWaves
    <2>4. Wave(ns, T) \in Seq(T) /\ Wave(ns, T) \in Seq(D)
        BY <2>3 DEF IsWave
    <2>5. ASSUME T # {}
          PROVE  Rest(T) # T
        <3>1. Unblocked(ns, T) # {}
            BY <2>5 DEF Acyclic, Unblocked
        <3> PICK w : w = Wave(ns, T)
            OBVIOUS
        <3>2. w \in Seq(T) /\ w # << >>
            BY <2>1, <2>4, <3>1
        <3>3. w[1] \in ToSet(w) /\ w[1] \in T
            BY <3>2 DEF ToSet
        <3> QED
            BY <3>3
    <2>6. head[T] = Wave(ns, T) /\ next[T] = Rest(T) /\ Rest(T) \in SUBSET T
        OBVIOUS
    <2> QED
        BY <2>1, <2>4, <2>5, <2>6
<1>13. \A T : Rest(T) = T \ ToSet(Wave(ns, T))
    OBVIOUS
<1> HIDE DEF Rest
<1>4. Descends(D, Seq(D), head, next)
    BY <1>3 DEF Descends
<1>5. PICK G \in [SUBSET D -> Seq(Seq(D))] : Follows(G, D, head, next)
    BY <1>1, <1>4, ChainDefined
<1>6. Rule(G)
    <2> PICK R : R = [T \in SUBSET D |-> IF T = {} THEN << >> ELSE << Wave(ns, T) >> \o G[Rest(T)]]
        OBVIOUS
    <2>1. \A T \in SUBSET D : R[T] = G[T]
        <3> TAKE T \in SUBSET D
        <3>1. CASE T = {}
            BY <1>5, <3>1 DEF Follows
        <3>2. CASE T # {}
            <4>1. R[T] = << Wave(ns, T) >> \o G[Rest(T)] /\ G[T] = << head[T] >> \o G[next[T]]
                BY <1>5, <3>2 DEF Follows
            <4> QED
                BY <1>3, <4>1
        <3> QED
            BY <3>1, <3>2
    <2>2. R = G
        BY <1>5, <2>1
    <2> QED
        BY <2>2
<1>7. Rule(K)
    <2> HIDE DEF Rule
    <2> QED
        BY <1>6
<1> HIDE DEF K
<1> PICK F : F = K /\ Rule(F)
    BY <1>7
<1>8. F = [T \in SUBSET D |-> IF T = {} THEN << >> ELSE << Wave(ns, T) >> \o F[Rest(T)]]
    OBVIOUS
<1>9. Follows(F, D, head, next)
    <2> SUFFICES ASSUME NEW T \in SUBSET D
                 PROVE  F[T] = IF T = {} THEN << >> ELSE << head[T] >> \o F[next[T]]
        BY DEF Follows
    <2>1. F[T] = IF T = {} THEN << >> ELSE << Wave(ns, T) >> \o F[Rest(T)]
        BY ONLY <1>8, T \in SUBSET D
    <2> QED
        BY <1>3, <2>1
<1> HIDE DEF Rule
<1> PICK P : P = {T \in SUBSET D : IsPlan(ns, F[T], T)}
    OBVIOUS
<1>10. {} \in P
    <2> PICK none, e : none = << >> /\ e = {}
        OBVIOUS
    <2>1. none \in Seq(Seq(D)) /\ Len(none) = 0
        OBVIOUS
    <2>2. F[e] = none /\ e \in SUBSET D
        BY <1>9 DEF Follows
    <2>3. IsPlan(ns, F[e], e)
        BY <2>1, <2>2 DEF IsPlan
    <2> QED
        BY <2>2, <2>3
<1>11. ASSUME NEW T \in SUBSET D, T # {}, next[T] \in P
       PROVE  T \in P
    <2> PICK w, N, rest : w = Wave(ns, T) /\ N = T \ ToSet(w) /\ rest = F[N]
        OBVIOUS
    <2>1. F[T] = << w >> \o rest /\ next[T] = N
        BY <1>3, <1>9, <1>11, <1>13 DEF Follows
    <2>2. IsPlan(ns, rest, T \ ToSet(w))
        <3>1. IsPlan(ns, F[N], N)
            BY <1>11, <2>1
        <3> QED
            BY <3>1
    <2>3. IsWave(ns, w, Unblocked(ns, T)) /\ T \in SUBSET DOMAIN ns
        BY <1>3
    <2>4. IsPlan(ns, << w >> \o rest, T)
        BY ONLY IsGraph(ns), <2>2, <2>3, AnotherWave
    <2> QED
        BY <2>1, <2>4
<1>12. SUBSET D \subseteq P
    <2>1. \A T \in SUBSET D : T # {} /\ next[T] \in P => T \in P
        BY <1>11
    <2> QED
        BY ONLY <1>1, <1>4, <1>10, <2>1, ChainInduction
<1>14. IsPlan(ns, F[D], D)
    BY <1>12
<1> QED
    BY <1>2, <1>14


\* A peer for a task, beside those that have work in its wave already.
Capable(ps, cap) == {p[1] : p \in {q \in ToSet(ps) : cap \in q[2]}}
Fits(ps, p, cap, busy) == Capable(ps, cap) # {} => p \in Capable(ps, cap) /\ (p \in busy => Capable(ps, cap) \subseteq busy)
PeerNames(ps) == {ps[i][1] : i \in DOMAIN ps} \cup {"node-fallback-local"}
Fitting(ps, caps, s) == \A k \in 1 .. Len(s) : Fits(ps, s[k], caps[k], {s[j] : j \in 1 .. k - 1})

\* The capabilities that the tasks of a wave ask for.
Needs(ns, w) == [k \in 1 .. Len(w) |-> RequiredCapability(ns[w[k]].kind)]

LEMMA BestPeersFit ==
    ASSUME NEW Q, fcPeers \in Seq(Q), NEW cap, NEW busy
    PROVE  FindBestPeer(cap, busy) \in PeerNames(fcPeers) /\ Fits(fcPeers, FindBestPeer(cap, busy), cap, ToSet(busy))
<1> PICK ps : ps = fcPeers
    OBVIOUS
<1> PICK matching : matching = {i \in DOMAIN ps : cap \in ps[i][2]}
    OBVIOUS
<1> PICK available : available = {i \in matching : ~Contains(busy, ps[i][1])}
    OBVIOUS
<1> PICK best : best = FindBestPeer(cap, busy)
    OBVIOUS
<1>1. DOMAIN ps \subseteq Nat /\ \A i \in DOMAIN ps : ps[i][1] \in PeerNames(ps)
    BY DEF PeerNames
<1>2. best = CASE available # {} -> ps[Min(available)][1]
               [] available = {} /\ matching # {} -> ps[Min(matching)][1]
               [] matching = {} /\ ps # << >> -> ps[1][1]
               [] OTHER -> "node-fallback-local"
    BY DEF FindBestPeer
<1>3. Capable(ps, cap) = {ps[i][1] : i \in matching}
    BY DEF Capable, ToSet
<1>4. \A p : Contains(busy, p) <=> p \in ToSet(busy)
    BY DEF Contains, ToSet
<1>5. CASE available # {}
    <2>1. Min(available) \in available
        BY <1>1, <1>5, LeastOf
    <2>2. best = ps[Min(available)][1]
        BY <1>2, <1>5
    <2>3. best \in Capable(ps, cap) /\ best \in PeerNames(ps) /\ ~Contains(busy, best)
        BY <1>1, <1>3, <2>1, <2>2
    <2> QED
        BY <1>4, <2>3 DEF Fits
<1>6. CASE available = {} /\ matching # {}
    <2>1. Min(matching) \in matching
        BY <1>1, <1>6, LeastOf
    <2>2. best = ps[Min(matching)][1]
        BY <1>2, <1>6
    <2>3. best \in Capable(ps, cap) /\ best \in PeerNames(ps)
        BY <1>1, <1>3, <2>1, <2>2
    <2>4. Capable(ps, cap) \subseteq ToSet(busy)
        BY <1>3, <1>4, <1>6
    <2> QED
        BY <2>3, <2>4 DEF Fits
<1>7. CASE matching = {}
    <2>1. available = {}
        BY <1>7
    <2>2. best \in PeerNames(ps)
        <3>1. CASE ps # << >>
            <4>1. best = ps[1][1]
                BY <1>2, <1>7, <2>1, <3>1
            <4>2. 1 \in DOMAIN ps
                BY <3>1
            <4> QED
                BY <1>1, <4>1, <4>2
        <3>2. CASE ps = << >>
            <4>1. best = "node-fallback-local"
                BY <1>2, <1>7, <2>1, <3>2
            <4> QED
                BY <4>1 DEF PeerNames
        <3> QED
            BY <3>1, <3>2
    <2>3. Capable(ps, cap) = {}
        BY <1>3, <1>7
    <2> QED
        BY <2>2, <2>3 DEF Fits
<1> QED
    BY <1>5, <1>6, <1>7

LEMMA FittingAnother ==
    ASSUME NEW ps, NEW caps, NEW I, NEW s \in Seq(I), NEW p \in I, NEW n, n = Len(s) + 1,
           Fitting(ps, caps, s), Fits(ps, p, caps[n], ToSet(s))
    PROVE  Fitting(ps, caps, Append(s, p))
<1> PICK t, m : t = Append(s, p) /\ m = Len(s)
    OBVIOUS
<1>1. m \in Nat /\ t \in Seq(I) /\ Len(t) = m + 1 /\ n = m + 1 /\ t[n] = p /\ \A i \in 1 .. m : t[i] = s[i]
    BY ONLY s \in Seq(I), p \in I, n = Len(s) + 1, t = Append(s, p), m = Len(s)
<1>2. ASSUME NEW k \in 1 .. m + 1
      PROVE  Fits(ps, t[k], caps[k], {t[j] : j \in 1 .. k - 1})
    <2>1. CASE k = n
        <3>1. {t[j] : j \in 1 .. k - 1} = {s[j] : j \in 1 .. m}
            BY <1>1, <2>1
        <3>2. ToSet(s) = {s[j] : j \in 1 .. m}
            BY DEF ToSet
        <3> QED
            BY <1>1, <2>1, <3>1, <3>2
    <2>2. CASE k \in 1 .. m
        <3>1. {t[j] : j \in 1 .. k - 1} = {s[j] : j \in 1 .. k - 1}
            BY <1>1, <2>2
        <3>2. Fits(ps, s[k], caps[k], {s[j] : j \in 1 .. k - 1})
            BY <2>2 DEF Fitting
        <3>3. t[k] = s[k]
            BY <1>1, <2>2
        <3> QED
            BY ONLY <3>1, <3>2, <3>3
    <2>3. k = n \/ k \in 1 .. m
        BY <1>1
    <2> QED
        BY ONLY <2>1, <2>2, <2>3
<1> QED
    BY <1>1, <1>2 DEF Fitting

\* The peers of a wave are found one by one, each beside the earlier ones.
LEMMA AssignedFit ==
    ASSUME NEW Q, fcPeers \in Seq(Q), NEW ns, NEW S, NEW w \in Seq(S)
    PROVE  LET a == AssignPeers(ns, w)
           IN  /\ a \in Seq(PeerNames(fcPeers)) /\ Len(a) = Len(w)
               /\ Fitting(fcPeers, Needs(ns, w), a)
<1> PICK m : m = Len(w)
    OBVIOUS
<1> PICK caps : caps = [k \in 1 .. m |-> RequiredCapability(ns[w[k]].kind)]
    OBVIOUS
<1> PICK I, B, none : I = PeerNames(fcPeers) /\ B = Seq(I) /\ none = << >>
    OBVIOUS
<1>1. m \in Nat /\ none \in B /\ Len(none) = 0
    OBVIOUS
<1> DEFINE Next1(x, k) == Append(x, FindBestPeer(RequiredCapability(ns[w[k]].kind), x))
           Rule(F) == F = [k \in 0 .. m |-> IF k = 0 THEN << >> ELSE Next1(F[k - 1], k)]
           K == CHOOSE F : Rule(F)
<1>2. AssignPeers(ns, w) = K[m]
    BY DEF AssignPeers
<1>3. ASSUME NEW k \in 1 .. m, NEW x \in B
      PROVE  /\ Next1(x, k) \in B /\ Len(Next1(x, k)) = Len(x) + 1
             /\ Len(x) + 1 = k /\ Fitting(fcPeers, caps, x) => Fitting(fcPeers, caps, Next1(x, k))
    <2> PICK p : p = FindBestPeer(caps[k], x)
        OBVIOUS
    <2>1. p \in I /\ Fits(fcPeers, p, caps[k], ToSet(x)) /\ x \in Seq(I)
        BY BestPeersFit
    <2>2. Next1(x, k) = Append(x, p)
        OBVIOUS
    <2>3. Append(x, p) \in B /\ Len(Append(x, p)) = Len(x) + 1
        BY <2>1
    <2>4. k = Len(x) + 1 /\ Fitting(fcPeers, caps, x) => Fitting(fcPeers, caps, Append(x, p))
        BY ONLY <2>1, FittingAnother
    <2> QED
        BY <2>2, <2>3, <2>4
<1> HIDE DEF Next1
<1>4. \E F : Rule(F)
    <2> PICK step : step = [y \in B \X (1 .. m) |-> Next1(y[1], y[2])]
        OBVIOUS
    <2>1. \A i \in 1 .. m, x \in B : step[<<x, i>>] = Next1(x, i)
        OBVIOUS
    <2>2. m \in Nat /\ none \in B /\ Advances(step, m, B)
        BY <1>1, <1>3, <2>1 DEF Advances
    <2>3. Runs(m, B, none, step) # {}
        BY ONLY <2>2, RecursionDefined
    <2>4. PICK F \in [0 .. m -> B] : F[0] = none /\ \A i \in 1 .. m : F[i] = step[<<F[i - 1], i>>]
        BY <2>3 DEF Runs
    <2> PICK R : R = [k \in 0 .. m |-> IF k = 0 THEN << >> ELSE Next1(F[k - 1], k)]
        OBVIOUS
    <2>5. \A k \in 0 .. m : R[k] = F[k]
        <3> TAKE k \in 0 .. m
        <3>1. CASE k = 0
            BY <2>4, <3>1
        <3>2. CASE k \in 1 .. m
            <4>1. R[k] = Next1(F[k - 1], k)
                BY <3>2
            <4>2. k - 1 \in 0 .. m
                BY <1>1, <3>2
            <4> QED
                BY <2>1, <2>4, <3>2, <4>1, <4>2
        <3> QED
            BY <1>1, <3>1, <3>2
    <2>6. R = F
        BY <2>4, <2>5
    <2> QED
        BY <2>6
<1>5. Rule(K)
    <2> HIDE DEF Rule
    <2> QED
        BY <1>4
<1> HIDE DEF K
<1> PICK F : F = K /\ Rule(F)
    BY <1>5
<1>6. F = [k \in 0 .. m |-> IF k = 0 THEN << >> ELSE Next1(F[k - 1], k)]
    OBVIOUS
<1>7. F[0] = none
    BY <1>1, <1>6
<1>8. ASSUME NEW k \in 0 .. m, NEW l \in 1 .. m, l = k + 1
      PROVE  F[l] = Next1(F[k], l)
    <2>1. l # 0 /\ l - 1 = k /\ l \in 0 .. m
        BY <1>1, <1>8
    <2>2. F[l] = Next1(F[l - 1], l)
        BY ONLY <1>6, <2>1
    <2> QED
        BY <2>1, <2>2
<1> HIDE DEF Rule
<1> DEFINE Good(k) == F[k] \in B /\ Len(F[k]) = k /\ Fitting(fcPeers, caps, F[k])
           A == {k \in Nat : k <= m => Good(k)}
<1>9. 0 \in A
    <2>1. Fitting(fcPeers, caps, none)
        BY <1>1 DEF Fitting
    <2> QED
        BY <1>1, <1>7, <2>1
<1>10. ASSUME NEW k \in Nat, k \in A, k + 1 <= m
       PROVE  Good(k + 1)
    <2> PICK l : l = k + 1
        OBVIOUS
    <2>1. k \in 0 .. m /\ l \in 1 .. m /\ Good(k)
        BY <1>1, <1>10
    <2>2. F[l] = Next1(F[k], l)
        BY <1>8, <2>1
    <2> QED
        BY <1>3, <2>1, <2>2
<1>11. \A k \in Nat : k \in A => k + 1 \in A
    BY <1>10
<1>12. Nat \subseteq A
    <2> HIDE DEF A
    <2> QED
        BY <1>9, <1>11, SetInduction
<1>13. Good(m)
    BY <1>1, <1>12
<1>14. caps = Needs(ns, w)
    BY DEF Needs
<1> QED
    BY <1>2, <1>13, <1>14

\* The factory: a graph of tasks, planned at most once, and what the committee
\* made of its tasks.
AnyPeer == FcPeer \cup (FcPeerIds \X SUBSET {"SANDBOX_MUTATION", "REASONING_ENGINE"})
AnyDefect == [severity : {"CRITICAL", "HIGH", "MEDIUM"}, resolved : BOOLEAN]
Debates == [defects : Seq(AnyDefect), contract : BOOLEAN]

FcGraphInv == fcPeers \in Seq(AnyPeer) /\ IsGraph(fcDag)

IsDispatch(ns, ps, plan) ==
    /\ \A n \in DOMAIN ns : ns[n].deps \subseteq DOMAIN ns
    /\ IsPlan(ns, plan.waves, DOMAIN ns)
    /\ \A i \in DOMAIN plan.waves : /\ Len(plan.peers[i]) = Len(plan.waves[i])
                                    /\ Fitting(ps, Needs(ns, plan.waves[i]), plan.peers[i])

FcPlanInv == fcStage = "planned" => IsDispatch(fcDag, fcPeers, fcPlan)

FcDebateInv ==
    /\ fcDebates \in Seq(Debates) /\ fcDistilled \in Seq(Nat \X {"PATTERN", "LESSON"})
    /\ \A i \in DOMAIN fcDebates : fcDebates[i].contract => ~UnresolvedCritical(fcDebates[i].defects)
    /\ \A i \in DOMAIN fcDistilled : fcDistilled[i][1] \in DOMAIN fcDebates /\ fcDebates[fcDistilled[i][1]].contract

FcInv == FcGraphInv /\ FcPlanInv /\ FcDebateInv

\* An invariant factory has executable plans and proven patterns.
LEMMA FcInvGives == FcInv => PlansAreExecutable /\ AssignmentsFit /\ PatternsAreProven
<1> SUFFICES ASSUME FcInv PROVE PlansAreExecutable /\ AssignmentsFit /\ PatternsAreProven
    OBVIOUS
<1>1. ASSUME fcStage = "planned"
      PROVE  PlansAreExecutable /\ AssignmentsFit
    <2> PICK ns, ws, D : ns = fcDag /\ ws = fcPlan.waves /\ D = DOMAIN fcDag
        OBVIOUS
    <2>1. /\ IsPlan(ns, ws, D) /\ \A n \in D : ns[n].deps \subseteq D
          /\ \A i \in DOMAIN ws : /\ Len(fcPlan.peers[i]) = Len(ws[i])
                                  /\ Fitting(fcPeers, Needs(ns, ws[i]), fcPlan.peers[i])
        BY <1>1 DEF FcInv, FcPlanInv, IsDispatch
    <2> DEFINE Of(n) == {i \in DOMAIN ws : Contains(ws[i], n)}
    <2>2. ws \in Seq(Seq(D)) /\ DOMAIN ws = 1 .. Len(ws) /\ Len(ws) \in Nat
        BY <2>1 DEF IsPlan
    <2>3. \A i \in DOMAIN ws : IsWave(ns, ws[i], D) /\ ws[i] \in Seq(D)
        BY <2>1, <2>2 DEF IsPlan
    <2>4. \A n : Of(n) = {i \in Nat : Holds(ws, n, i)}
        <3>1. \A i \in DOMAIN ws : \A n : Contains(ws[i], n) <=> n \in ToSet(ws[i])
            BY <2>3 DEF Contains, ToSet
        <3> TAKE n
        <3>2. \A i \in DOMAIN ws : Holds(ws, n, i) <=> Contains(ws[i], n)
            BY <2>2, <3>1 DEF Holds
        <3>3. \A i \in Nat : Holds(ws, n, i) => i \in DOMAIN ws
            BY <2>2 DEF Holds
        <3>4. DOMAIN ws \subseteq Nat
            BY <2>2
        <3> QED
            BY ONLY <3>2, <3>3, <3>4
    <2>5. ASSUME NEW n \in D
          PROVE  Cardinality(Of(n)) = 1
        <3>1. PICK i \in Nat : Holds(ws, n, i)
            BY <2>1 DEF IsPlan
        <3>2. \A j \in Nat : Holds(ws, n, j) => j = i
            BY <2>1, <3>1 DEF IsPlan
        <3>3. Of(n) = {i}
            BY <2>4, <3>1, <3>2
        <3> QED
            BY <3>3, FS_Singleton
    <2>6. ASSUME NEW n \in D, NEW d \in ns[n].deps, NEW i \in Of(n), NEW j \in Of(d)
          PROVE  j < i
        <3>1. d \in D
            BY <2>1
        <3>2. i \in Nat /\ j \in Nat /\ Holds(ws, n, i) /\ Holds(ws, d, j)
            BY <2>4, <2>6
        <3> QED
            BY <2>1, <2>6, <3>1, <3>2 DEF IsPlan
    <2>7. ASSUME NEW i \in DOMAIN ws
          PROVE  /\ IsInjective(ws[i]) /\ ToSet(ws[i]) \subseteq D
                 /\ \A n, m \in ToSet(ws[i]) : n # m => ~SharesScope(ns[n], ns[m])
        BY <2>3 DEF IsWave, ToSet
    <2>8. PlansAreExecutable
        BY <2>5, <2>6, <2>7 DEF PlansAreExecutable
    <2>10. AssignmentsFit
        <3> HIDE DEF Of
        <3> SUFFICES ASSUME NEW i \in DOMAIN fcPlan.waves, NEW k \in DOMAIN fcPlan.waves[i]
                     PROVE  LET cap == RequiredCapability(fcDag[fcPlan.waves[i][k]].kind)
                                capable == {p[1] : p \in {q \in ToSet(fcPeers) : cap \in q[2]}}
                                before == {fcPlan.peers[i][j] : j \in 1 .. k - 1}
                            IN  capable # {} =>
                                    /\ fcPlan.peers[i][k] \in capable
                                    /\ fcPlan.peers[i][k] \in before => capable \subseteq before
            BY Zenon DEF AssignmentsFit
        <3> PICK w, a : w = fcPlan.waves[i] /\ a = fcPlan.peers[i]
            OBVIOUS
        <3>1. w \in Seq(D) /\ Len(a) = Len(w) /\ Fitting(fcPeers, Needs(ns, w), a) /\ k \in 1 .. Len(w)
            BY <2>1, <2>3
        <3>2. Fits(fcPeers, a[k], Needs(ns, w)[k], {a[j] : j \in 1 .. k - 1})
            BY <3>1 DEF Fitting
        <3>3. Needs(ns, w)[k] = RequiredCapability(fcDag[fcPlan.waves[i][k]].kind)
            BY <3>1 DEF Needs
        <3> QED
            BY <3>2, <3>3 DEF Fits, Capable
    <2> QED
        BY <2>8, <2>10
<1>2. fcStage # "planned" => PlansAreExecutable /\ AssignmentsFit
    BY DEF PlansAreExecutable, AssignmentsFit
<1>3. PatternsAreProven
    BY DEF FcInv, FcDebateInv, PatternsAreProven
<1> QED
    BY <1>1, <1>2, <1>3

LEMMA FcStarts == FactoryInit => FcInv
<1> SUFFICES ASSUME FactoryInit PROVE FcInv
    OBVIOUS
<1>1. fcPeers \in Seq(AnyPeer)
    BY FactoryAssumption DEF FactoryInit, AnyPeer
<1>2. IsGraph(fcDag)
    <2>1. DOMAIN fcDag = 1 .. 0 /\ 0 \in Nat
        BY DEF FactoryInit
    <2> QED
        BY <2>1 DEF IsGraph
<1>3. FcDebateInv
    BY DEF FactoryInit, FcDebateInv
<1> QED
    BY <1>1, <1>2, <1>3 DEF FactoryInit, FcInv, FcGraphInv, FcPlanInv

LEMMA NoTasks == \A ns : ns = << >> => IsGraph(ns)
<1> SUFFICES ASSUME NEW ns, ns = << >> PROVE IsGraph(ns)
    OBVIOUS
<1>1. DOMAIN ns = 1 .. 0 /\ 0 \in Nat
    OBVIOUS
<1> QED
    BY <1>1 DEF IsGraph

\* A task that waits for others stays a task.
Waiting(t, ds) == [t EXCEPT !.deps = ds]

LEMMA WaitingTasks == ASSUME NEW t, IsTask(t), NEW ds PROVE IsTask(Waiting(t, ds))
<1> PICK u, s, d, p, e, k : u = Waiting(t, ds) /\ s = t.scope /\ d = t.deps /\ p = t.prio /\ e = t.effort /\ k = t.kind
    OBVIOUS
<1>1. t = [scope |-> s, deps |-> d, prio |-> p, effort |-> e, kind |-> k] /\ p \in Int /\ e \in Int
    BY DEF IsTask
<1>2. u = [t EXCEPT !.deps = ds]
    BY DEF Waiting
<1>3. u = [scope |-> s, deps |-> ds, prio |-> p, effort |-> e, kind |-> k]
    BY ONLY <1>1, <1>2
<1>4. u.scope = s /\ u.deps = ds /\ u.prio = p /\ u.effort = e /\ u.kind = k
    BY ONLY <1>3
<1> QED
    BY ONLY <1>1, <1>3, <1>4, u = Waiting(t, ds) DEF IsTask

LEMMA OrderedGraphs == ASSUME NEW ns, IsGraph(ns) PROVE IsGraph(Serialized(ns))
<1> PICK n \in Nat : DOMAIN ns = 1 .. n
    BY DEF IsGraph
<1> PICK more : more = [k \in DOMAIN ns |-> ns[k].deps \cup
            {o \in DOMAIN ns \ {k} : SharesScope(ns[o], ns[k]) /\ GoesFirst(ns, o, k) /\ k \notin ns[o].deps}]
    OBVIOUS
<1>1. Serialized(ns) = [k \in DOMAIN ns |-> Waiting(ns[k], more[k])]
    BY DEF Serialized, Waiting
<1>2. \A k \in DOMAIN ns : IsTask(Waiting(ns[k], more[k]))
    BY WaitingTasks DEF IsGraph
<1>3. DOMAIN Serialized(ns) = 1 .. n /\ \A k \in 1 .. n : Serialized(ns)[k] = Waiting(ns[k], more[k])
    BY <1>1
<1> QED
    BY <1>2, <1>3 DEF IsGraph

LEMMA EdgedGraphs ==
    ASSUME NEW ns, IsGraph(ns), NEW a \in DOMAIN ns, NEW b
    PROVE  IsGraph([ns EXCEPT ![a].deps = @ \cup {b}])
<1> PICK n \in Nat : DOMAIN ns = 1 .. n
    BY DEF IsGraph
<1> PICK ds, m : ds = ns[a].deps \cup {b} /\ m = [ns EXCEPT ![a].deps = @ \cup {b}]
    OBVIOUS
<1>1. m = [ns EXCEPT ![a] = Waiting(ns[a], ds)]
    BY DEF Waiting
<1>2. IsTask(Waiting(ns[a], ds))
    BY WaitingTasks DEF IsGraph
<1>3. DOMAIN m = 1 .. n /\ \A k \in 1 .. n : m[k] = IF k = a THEN Waiting(ns[a], ds) ELSE ns[k]
    BY <1>1
<1> QED
    BY <1>2, <1>3 DEF IsGraph

LEMMA DecomposedGraphs ==
    ASSUME NEW files \in FcListings, NEW kinds
    PROVE  IsGraph(DecomposeInto(files, kinds))
<1> PICK ns, n : ns = DecomposeInto(files, kinds) /\ n = IF Len(files) < MaxFcTasks THEN Len(files) ELSE MaxFcTasks
    OBVIOUS
<1>1. n \in Nat /\ 1 \in Nat
    BY FactoryAssumption
<1>2. CASE files = << >>
    <2> PICK t : t = [scope |-> {"."}, deps |-> {}, prio |-> 1, effort |-> 1, kind |-> "TYPE_HARDENING"]
        OBVIOUS
    <2>1. IsTask(t)
        BY DEF IsTask
    <2>2. ns = << t >>
        BY <1>2 DEF DecomposeInto
    <2>3. DOMAIN ns = 1 .. 1 /\ \A k \in DOMAIN ns : ns[k] = t
        BY ONLY <2>2
    <2> QED
        BY <1>1, <2>1, <2>3 DEF IsGraph
<1>3. CASE files # << >>
    <2> DEFINE Task(k) == [scope |-> {files[k]}, deps |-> {j \in 1 .. k - 1 : files[j] = files[k]},
                           prio |-> 100 - k, effort |-> 1, kind |-> kinds[k]]
    <2>1. ns = [k \in 1 .. n |-> Task(k)]
        BY <1>3 DEF DecomposeInto
    <2>2. ASSUME NEW k \in 1 .. n
          PROVE  IsTask(Task(k))
        <3>1. 100 - k \in Int /\ 1 \in Int
            BY <1>1
        <3> PICK s, d, p, e, c : s = {files[k]} /\ d = {j \in 1 .. k - 1 : files[j] = files[k]} /\ p = 100 - k /\ e = 1 /\ c = kinds[k]
            OBVIOUS
        <3> PICK t : t = [scope |-> s, deps |-> d, prio |-> p, effort |-> e, kind |-> c]
            OBVIOUS
        <3>2. IsTask(t)
            BY <3>1 DEF IsTask
        <3>3. t = Task(k)
            OBVIOUS
        <3> QED
            BY <3>2, <3>3
    <2> HIDE DEF Task
    <2>3. DOMAIN ns = 1 .. n /\ \A k \in DOMAIN ns : IsTask(ns[k])
        BY <2>1, <2>2
    <2> QED
        BY <1>1, <2>3 DEF IsGraph
<1> QED
    BY <1>2, <1>3

LEMMA DispatchesFit ==
    ASSUME NEW Q, fcPeers \in Seq(Q), IsGraph(fcDag), Acyclic(fcDag), \A n \in DOMAIN fcDag : fcDag[n].deps \subseteq DOMAIN fcDag,
           NEW plan, NEW ws, ws = Waves(fcDag), plan = [waves |-> ws, peers |-> [i \in DOMAIN ws |-> AssignPeers(fcDag, ws[i])]]
    PROVE  IsDispatch(fcDag, fcPeers, plan)
<1>1. IsPlan(fcDag, ws, DOMAIN fcDag)
    BY WavesArePlans
<1>2. plan.waves = ws /\ \A i \in DOMAIN ws : plan.peers[i] = AssignPeers(fcDag, ws[i])
    OBVIOUS
<1>3. ws \in Seq(Seq(DOMAIN fcDag))
    BY <1>1 DEF IsPlan
<1>4. ASSUME NEW i \in DOMAIN ws
      PROVE  Len(plan.peers[i]) = Len(ws[i]) /\ Fitting(fcPeers, Needs(fcDag, ws[i]), plan.peers[i])
    <2>1. ws[i] \in Seq(DOMAIN fcDag)
        BY <1>3
    <2> QED
        BY <1>2, <2>1, AssignedFit
<1> QED
    BY <1>1, <1>2, <1>4 DEF IsDispatch

LEMMA DefectsAreKnown ==
    ASSUME NEW kind, NEW forced \in BOOLEAN
    PROVE  Defects(kind, forced) \in Seq(AnyDefect)
<1> PICK crit, critical, high, medium :
        /\ crit = Defect("CRITICAL", FALSE) /\ critical = Defect("CRITICAL", TRUE)
        /\ high = Defect("HIGH", TRUE) /\ medium = Defect("MEDIUM", TRUE)
    OBVIOUS
<1>1. {crit, critical, high, medium} \subseteq AnyDefect
    BY DEF Defect, AnyDefect
<1> PICK second : second = Defect(IF forced THEN "CRITICAL" ELSE "HIGH", TRUE)
    OBVIOUS
<1>2. second \in AnyDefect
    BY DEF Defect, AnyDefect
<1> PICK probes : probes = CASE kind = "ASYNC_MIGRATION" -> << high, second >>
                             [] kind = "MODULARIZE" -> << high >>
                             [] OTHER -> << medium >>
    OBVIOUS
<1>3. probes \in Seq(AnyDefect)
    <2>1. << high, second >> \in Seq(AnyDefect) /\ << high >> \in Seq(AnyDefect) /\ << medium >> \in Seq(AnyDefect)
        BY ONLY <1>1, <1>2
    <2>2. probes \in {<< high, second >>, << high >>, << medium >>}
        OBVIOUS
    <2> QED
        BY ONLY <2>1, <2>2
<1>4. Defects(kind, forced) = IF forced THEN Append(probes, crit) ELSE probes
    BY DEF Defects
<1>5. Append(probes, crit) \in Seq(AnyDefect)
    BY ONLY <1>1, <1>3
<1> QED
    BY ONLY <1>3, <1>4, <1>5

\* A debate keeps what the committee made of the earlier tasks.
LEMMA DebatingKeeps ==
    ASSUME FcDebateInv, NEW forced \in BOOLEAN, Debated(forced)
    PROVE  FcDebateInv'
<1> PICK task, ds, c : task = Len(fcDebates) + 1 /\ ds = Defects(fcDag[task].kind, forced) /\ c = QuorumReached(ds)
    OBVIOUS
<1> PICK m, bs, xs, debate : m = Len(fcDebates) /\ bs = fcDebates /\ xs = fcDistilled /\ debate = [defects |-> ds, contract |-> c]
    OBVIOUS
<1> PICK entry : entry = Nat \X {"PATTERN", "LESSON"}
    OBVIOUS
<1>1. /\ fcDebates' = Append(bs, debate)
      /\ fcDistilled' = IF c THEN xs \o Distilled(task, ds) ELSE xs
    BY DEF Debated
<1>2. ds \in Seq(AnyDefect) /\ c \in BOOLEAN /\ (c => ~UnresolvedCritical(ds))
    BY DefectsAreKnown DEF QuorumReached
<1>3. debate \in Debates /\ debate.defects = ds /\ debate.contract = c
    BY <1>2 DEF Debates
<1>4. /\ bs \in Seq(Debates) /\ m \in Nat /\ xs \in Seq(entry) /\ task = m + 1
      /\ \A i \in DOMAIN bs : bs[i].contract => ~UnresolvedCritical(bs[i].defects)
      /\ \A i \in DOMAIN xs : xs[i][1] \in DOMAIN bs /\ bs[xs[i][1]].contract
    BY DEF FcDebateInv
<1> PICK bs2, xs2 : bs2 = fcDebates' /\ xs2 = fcDistilled'
    OBVIOUS
<1>5. /\ bs2 \in Seq(Debates) /\ DOMAIN bs2 = 1 .. m + 1 /\ bs2[task] = debate /\ task \in DOMAIN bs2
      /\ DOMAIN bs = 1 .. m /\ \A i \in 1 .. m : bs2[i] = bs[i]
    <2>1. bs2 = Append(bs, debate) /\ m = Len(bs)
        BY <1>1
    <2> QED
        BY ONLY <1>3, <1>4, <2>1
<1>6. \A i \in DOMAIN bs2 : bs2[i].contract => ~UnresolvedCritical(bs2[i].defects)
    <2> TAKE i \in DOMAIN bs2
    <2>1. CASE i = task
        BY <1>2, <1>3, <1>5, <2>1
    <2>2. CASE i \in 1 .. m
        BY <1>4, <1>5, <2>2
    <2> QED
        BY <1>4, <1>5, <2>1, <2>2
<1>7. \A i \in DOMAIN xs : xs[i][1] \in DOMAIN bs2 /\ bs2[xs[i][1]].contract
    <2> TAKE i \in DOMAIN xs
    <2>1. xs[i][1] \in 1 .. m /\ bs[xs[i][1]].contract
        BY <1>4, <1>5
    <2> QED
        BY <1>4, <1>5, <2>1
<1>8. xs2 \in Seq(entry) /\ \A i \in DOMAIN xs2 : xs2[i][1] \in DOMAIN bs2 /\ bs2[xs2[i][1]].contract
    <2>1. CASE ~c
        BY <1>1, <1>4, <1>7, <2>1
    <2>2. CASE c
        <3> PICK new, es : new = Distilled(task, ds) /\ es = {e \in entry : e[1] = task}
            OBVIOUS
        <3> PICK pattern, lesson : pattern = <<task, "PATTERN">> /\ lesson = <<task, "LESSON">>
            OBVIOUS
        <3>1. pattern \in es /\ lesson \in es
            BY <1>4
        <3>2. new \in Seq(es)
            <4>1. << pattern >> \in Seq(es) /\ << lesson >> \in Seq(es) /\ << >> \in Seq(es)
                BY ONLY <3>1
            <4> PICK a, b : a = << pattern >> /\ b = IF \E i \in DOMAIN ds : ds[i].resolved THEN << lesson >> ELSE << >>
                OBVIOUS
            <4>2. a \in Seq(es) /\ b \in Seq(es)
                BY <4>1
            <4>3. new = a \o b
                BY DEF Distilled
            <4> QED
                BY ONLY <4>2, <4>3
        <3>3. xs2 = xs \o new
            BY <1>1, <2>2
        <3>4. es \subseteq entry
            OBVIOUS
        <3>5. /\ xs2 \in Seq(entry) /\ DOMAIN xs2 = 1 .. Len(xs) + Len(new)
              /\ \A i \in DOMAIN xs2 : (i \in DOMAIN xs /\ xs2[i] = xs[i]) \/ xs2[i] \in es
            <4>1. new \in Seq(entry)
                BY ONLY <3>2, <3>4
            <4>2. xs2 \in Seq(entry) /\ DOMAIN xs2 = 1 .. Len(xs) + Len(new) /\ Len(xs) \in Nat /\ Len(new) \in Nat
                BY ONLY <1>4, <3>3, <4>1
            <4>3. ASSUME NEW i \in DOMAIN xs2
                  PROVE  (i \in DOMAIN xs /\ xs2[i] = xs[i]) \/ xs2[i] \in es
                <5>1. CASE i \in 1 .. Len(xs)
                    BY ONLY <1>4, <3>3, <4>1, <4>2, <4>3, <5>1
                <5>2. CASE i \notin 1 .. Len(xs)
                    <6> PICK l : l = i - Len(xs)
                        OBVIOUS
                    <6>1. l \in 1 .. Len(new)
                        BY <4>2, <4>3, <5>2
                    <6>2. xs2[i] = new[l]
                        BY ONLY <1>4, <3>3, <4>1, <4>2, <4>3, <5>2, l = i - Len(xs)
                    <6>3. new[l] \in es
                        BY ONLY <3>2, <6>1
                    <6> QED
                        BY <6>2, <6>3
                <5> QED
                    BY <5>1, <5>2
            <4> QED
                BY <4>2, <4>3
        <3>6. \A e \in es : e[1] = task
            OBVIOUS
        <3> QED
            BY <1>3, <1>5, <1>7, <2>2, <3>5, <3>6
    <2> QED
        BY <2>1, <2>2
<1> QED
    BY <1>5, <1>6, <1>8 DEF FcDebateInv

\* A step of the factory keeps its invariant.
LEMMA FcStepKeeps ==
    ASSUME FcInv, FactoryNext \/ UNCHANGED fcVars
    PROVE  FcInv'
<1> USE DEF FcInv
<1>1. ASSUME NEW ns, IsGraph(ns), Accepted(ns)
      PROVE  FcInv'
    <2>1. fcDag' = ns \/ fcDag' = << >>
        BY <1>1 DEF Accepted
    <2>2. IsGraph(fcDag')
        BY <1>1, <2>1, NoTasks
    <2>3. fcStage' # "planned" /\ UNCHANGED <<fcPeers, fcDebates, fcDistilled>>
        BY <1>1 DEF Accepted
    <2> QED
        BY <2>2, <2>3 DEF FcGraphInv, FcPlanInv, FcDebateInv
<1>2. CASE BuildGraph
    <2>1. fcStage' # "planned" /\ UNCHANGED <<fcPeers, fcDebates, fcDistilled>> /\ fcDag' \in FcPlans
        BY <1>2 DEF BuildGraph
    <2>2. IsGraph(fcDag')
        BY <2>1, FactoryAssumption DEF IsGraph
    <2> QED
        BY <2>1, <2>2 DEF FcGraphInv, FcPlanInv, FcDebateInv
<1>3. CASE DecomposeCustomPlan
    <2>1. PICK ns \in FcPlans : Accepted(Serialized(ns))
        BY <1>3 DEF DecomposeCustomPlan
    <2>2. IsGraph(ns)
        BY FactoryAssumption DEF IsGraph
    <2>3. IsGraph(Serialized(ns))
        BY <2>2, OrderedGraphs
    <2> QED
        BY <1>1, <2>1, <2>3
<1>4. CASE Decompose
    <2>1. PICK files \in FcListings : \E kinds \in [DOMAIN files -> DecomposedTypes] : Accepted(DecomposeInto(files, kinds))
        BY <1>4 DEF Decompose
    <2>2. PICK kinds : Accepted(DecomposeInto(files, kinds))
        BY <2>1
    <2>3. IsGraph(DecomposeInto(files, kinds))
        BY DecomposedGraphs
    <2> QED
        BY <1>1, <2>2, <2>3
<1>5. CASE CreateDispatchPlan
    <2>1. UNCHANGED <<fcPeers, fcDag, fcDebates, fcDistilled>>
        BY <1>5 DEF CreateDispatchPlan
    <2>2. CASE Acyclic(fcDag) /\ \A n \in DOMAIN fcDag : fcDag[n].deps \subseteq DOMAIN fcDag
        <3> PICK ws, plan : ws = Waves(fcDag) /\ plan = [waves |-> ws, peers |-> [i \in DOMAIN ws |-> AssignPeers(fcDag, ws[i])]]
            OBVIOUS
        <3>1. fcPlan' = plan
            BY <1>5, <2>2 DEF CreateDispatchPlan
        <3>2. fcPeers \in Seq(AnyPeer) /\ IsGraph(fcDag)
            BY DEF FcGraphInv
        <3>3. IsDispatch(fcDag, fcPeers, plan)
            BY ONLY <2>2, <3>2, DispatchesFit, ws = Waves(fcDag), plan = [waves |-> ws, peers |-> [i \in DOMAIN ws |-> AssignPeers(fcDag, ws[i])]]
        <3>4. FcPlanInv'
            BY <2>1, <3>1, <3>3 DEF FcPlanInv
        <3> QED
            BY <2>1, <3>4 DEF FcGraphInv, FcDebateInv
    <2>3. CASE ~(Acyclic(fcDag) /\ \A n \in DOMAIN fcDag : fcDag[n].deps \subseteq DOMAIN fcDag)
        <3>1. fcStage' = "refused"
            BY <1>5, <2>3 DEF CreateDispatchPlan
        <3> QED
            BY <2>1, <3>1 DEF FcGraphInv, FcPlanInv, FcDebateInv
    <2> QED
        BY <2>2, <2>3
<1>6. ASSUME NEW a \in DOMAIN fcDag, NEW b \in DOMAIN fcDag, AddDependency(a, b)
      PROVE  FcInv'
    <2>1. fcStage' # "planned" /\ UNCHANGED <<fcPeers, fcDebates, fcDistilled>>
        BY <1>6 DEF AddDependency
    <2>2. fcDag' = [fcDag EXCEPT ![a].deps = @ \cup {b}]
        BY <1>6 DEF AddDependency
    <2>3. IsGraph([fcDag EXCEPT ![a].deps = @ \cup {b}])
        BY EdgedGraphs DEF FcGraphInv
    <2>4. IsGraph(fcDag')
        BY <2>2, <2>3
    <2> QED
        BY <2>1, <2>4 DEF FcGraphInv, FcPlanInv, FcDebateInv
<1>7. ASSUME NEW p \in FcPeerIds, NEW c \in {"SANDBOX_MUTATION", "REASONING_ENGINE"}, RegisterPeer(p, {c})
      PROVE  FcInv'
    <2> PICK q, ps : q = <<p, {c}>> /\ ps = fcPeers
        OBVIOUS
    <2>1. fcStage = "idle" /\ UNCHANGED <<fcDag, fcStage, fcPlan, fcDebates, fcDistilled>>
        BY <1>7 DEF RegisterPeer, PeersBeforePlan
    <2>2. q \in AnyPeer /\ ps \in Seq(AnyPeer)
        BY DEF AnyPeer, FcGraphInv
    <2>3. fcPeers' = [i \in DOMAIN ps |-> IF ps[i][1] = p THEN q ELSE ps[i]] \/ fcPeers' = Append(ps, q)
        BY <1>7 DEF RegisterPeer
    <2>4. fcPeers' \in Seq(AnyPeer)
        <3>1. [i \in DOMAIN ps |-> IF ps[i][1] = p THEN q ELSE ps[i]] \in Seq(AnyPeer)
            BY ONLY <2>2
        <3>2. Append(ps, q) \in Seq(AnyPeer)
            BY ONLY <2>2
        <3> QED
            BY <2>3, <3>1, <3>2
    <2> QED
        BY <2>1, <2>4 DEF FcGraphInv, FcPlanInv, FcDebateInv
<1>8. ASSUME NEW p \in FcPeerIds, UnregisterPeer(p)
      PROVE  FcInv'
    <2>1. fcStage = "idle" /\ UNCHANGED <<fcDag, fcStage, fcPlan, fcDebates, fcDistilled>>
        BY <1>8 DEF UnregisterPeer, PeersBeforePlan
    <2>2. PICK i \in DOMAIN fcPeers : fcPeers' = RemoveAt(fcPeers, i)
        BY <1>8 DEF UnregisterPeer
    <2> PICK ps : ps = fcPeers
        OBVIOUS
    <2>3. ps \in Seq(AnyPeer) /\ i \in 1 .. Len(ps)
        BY DEF FcGraphInv
    <2>4. RemoveAt(ps, i) \in Seq(AnyPeer)
        <3>1. SubSeq(ps, 1, i - 1) \in Seq(AnyPeer) /\ SubSeq(ps, i + 1, Len(ps)) \in Seq(AnyPeer)
            BY ONLY <2>3
        <3> QED
            BY <3>1 DEF RemoveAt
    <2> QED
        BY <2>1, <2>2, <2>4 DEF FcGraphInv, FcPlanInv, FcDebateInv
<1>9. ASSUME NEW forced \in BOOLEAN, Debated(forced)
      PROVE  FcInv'
    <2>1. UNCHANGED <<fcPeers, fcDag, fcStage, fcPlan>>
        BY <1>9 DEF Debated
    <2>2. FcDebateInv'
        BY <1>9, DebatingKeeps
    <2> QED
        BY <2>1, <2>2 DEF FcGraphInv, FcPlanInv
<1>10. CASE UNCHANGED fcVars
    BY <1>10 DEF fcVars, FcGraphInv, FcPlanInv, FcDebateInv
<1> QED
    BY <1>2, <1>3, <1>4, <1>5, <1>6, <1>7, <1>8, <1>9, <1>10 DEF FactoryNext

\* A working memory changes without a new exchange only by an import.
ImportsOnly ==
    \A s \in EngineSessions : egMemory'[s] # egMemory[s] /\ egCount'[s] = egCount[s] => <<s, egMemory'[s]>> \in egExported

LEMMA ImportsAreOfExports == ASSUME EngineInv, EngineNext \/ UNCHANGED egVars PROVE ImportsOnly
<1> PICK m, n : m = egMemory /\ n = egCount
    OBVIOUS
<1>1. m \in [EngineSessions -> Seq(Nat)] /\ n \in [EngineSessions -> Nat]
    BY DEF EngineInv, TalkInv
<1>2. CASE egMemory' = egMemory
    BY <1>2 DEF ImportsOnly
<1>3. CASE UNCHANGED egVars \/ SkillNext \/ ToolNext \/ RestartEngine
    <2>1. egMemory' = egMemory
        BY <1>3 DEF egVars, egTalk, SkillNext, GenerateSkill, SynthesizeSkill, SkillGatePasses, GateTimesOut, GateFails,
                    ToolNext, ReadOnboardingFile, CompleteOnboarding, ExecuteTool, RestartEngine
    <2> QED
        BY <1>2, <2>1
<1>4. ASSUME NEW s \in EngineSessions, AppendConversation(s)
      PROVE  ImportsOnly
    <2> PICK new : new = egCount'
        OBVIOUS
    <2>1. new = [n EXCEPT ![s] = @ + 1]
        BY <1>4 DEF AppendConversation
    <2>2. \A t \in EngineSessions \ {s} : egMemory'[t] = egMemory[t]
        <3> PICK mem : mem = LastOf(Append(m[s], n[s] + 1), Window)
            OBVIOUS
        <3>1. egMemory' = [m EXCEPT ![s] = mem]
            BY <1>4 DEF AppendConversation
        <3> QED
            BY <1>1, <3>1
    <2>3. new[s] # n[s]
        BY ONLY <1>1, <2>1, s \in EngineSessions
    <2> QED
        BY <2>2, <2>3 DEF ImportsOnly
<1>5. ASSUME NEW s \in EngineSessions, ExportHandoff(s)
      PROVE  ImportsOnly
    BY <1>2, <1>5 DEF ExportHandoff
<1>6. ASSUME NEW p \in egPackets, EditPacket(p)
      PROVE  ImportsOnly
    BY <1>2, <1>6 DEF EditPacket
<1>7. ASSUME NEW p \in egPackets, ImportHandoff(p)
      PROVE  ImportsOnly
    <2>1. <<p.session, p.memory>> \in egExported /\ egMemory' = [m EXCEPT ![p.session] = p.memory]
        BY <1>7 DEF ImportHandoff, EngineInv, TalkInv
    <2>2. \A t \in EngineSessions : egMemory'[t] = IF t = p.session THEN p.memory ELSE m[t]
        BY <1>1, <2>1
    <2> QED
        BY <2>1, <2>2 DEF ImportsOnly
<1> QED
    BY <1>3, <1>4, <1>5, <1>6, <1>7 DEF EngineNext, TalkNext
-----------------------------------------------------------------------------
(* The parts together: a step of one leaves the variables of the others. *)

LEMMA EachPartMoves ==
    ASSUME Next \/ UNCHANGED mcVars
    PROVE  /\ AgentLoopNext \/ UNCHANGED lpVars
           /\ EngineNext \/ UNCHANGED egVars
           /\ RespNext \/ UNCHANGED respVars
           /\ GovNext \/ UNCHANGED govVars
           /\ PipelineNext \/ UNCHANGED plVars
           /\ TaskGraphNext \/ UNCHANGED tgVars
           /\ FileNext \/ UNCHANGED fileVars
           /\ BoxNext \/ UNCHANGED boxVars
           /\ BoardNext \/ UNCHANGED boardVars
           /\ QueueNext \/ UNCHANGED queueVars
           /\ FactoryNext \/ UNCHANGED fcVars
<1>1. CASE UNCHANGED mcVars
    BY <1>1 DEF mcVars, sbVars, tbVars
<1>2. CASE LoopsStep \/ TalkStep \/ SkillStep \/ ResponseStep \/ GovernanceStep \/ PipelineStep
    BY <1>2 DEF LoopsStep, TalkStep, SkillStep, ResponseStep, GovernanceStep, PipelineStep, EngineNext, sbVars, tbVars
<1>3. CASE GraphStep \/ CallStep \/ FileStep \/ ContainerStep
    BY <1>3 DEF GraphStep, CallStep, FileStep, ContainerStep, sbVars, tbVars, FileNext, BoxNext
<1>4. CASE LinkStep \/ LogStep \/ QueueStep \/ FactoryStep
    BY <1>4 DEF LinkStep, LogStep, QueueStep, FactoryStep, sbVars, tbVars, BoardNext, QueueNext
<1> QED
    BY <1>1, <1>2, <1>3, <1>4 DEF Next

LEMMA LoopsStayOK == Spec => []LoopInv
<1>1. Init => LoopInv
    BY LoopInitHolds DEF Init
<1>2. LoopInv /\ [Next]_mcVars => LoopInv'
    BY EachPartMoves, LoopNextKeepsInv
<1> QED
    BY <1>1, <1>2, PTL DEF Spec

LEMMA EngineStaysOK == Spec => []EngineInv
<1>1. Init => EngineInv
    BY EngineStarts DEF Init
<1>2. EngineInv /\ [Next]_mcVars => EngineInv'
    BY EachPartMoves, EngineStepKeeps
<1> QED
    BY <1>1, <1>2, PTL DEF Spec

LEMMA GraphStaysOK == Spec => []GraphInv
<1>1. Init => GraphInv
    BY GraphStarts DEF Init
<1>2. GraphInv /\ [Next]_mcVars => GraphInv'
    BY EachPartMoves, GraphStepKeeps
<1> QED
    BY <1>1, <1>2, PTL DEF Spec

LEMMA BoxesStayOK == Spec => []BoxInv
<1>1. Init => BoxInv
    BY BoxStarts DEF Init
<1>2. BoxInv /\ [Next]_mcVars => BoxInv'
    BY EachPartMoves, BoxStepKeeps
<1> QED
    BY <1>1, <1>2, PTL DEF Spec

LEMMA ResponsesStayOK == Spec => []RespInv
<1>1. Init => RespInv
    BY RespStarts DEF Init
<1>2. RespInv /\ [Next]_mcVars => RespInv'
    BY EachPartMoves, RespStepKeeps
<1> QED
    BY <1>1, <1>2, PTL DEF Spec

\* Agents stay within their limits, whatever ends a call: a request executes
\* at most the tools it may (a stream its last batch more), the gauges and the
\* load of a route count exactly what is in flight, an engine that reached its
\* turns executes no tool, no program is counted twice, and the records of
\* loops and tasks are of their types.
THEOREM AgentsStayWithinLimits == Spec => []LimitsHold
<1>1. LoopInv /\ EngineInv /\ BoxInv /\ GraphInv => LimitsHold
    BY LoopInvGivesBalance, LoopInvGivesLimits, EngineInvGives, BoxInvGives, GraphInvGives DEF LimitsHold
<1> QED
    BY <1>1, LoopsStayOK, EngineStaysOK, BoxesStayOK, GraphStaysOK, PTL

\* What a caller gets is one answer: the text of one provider, and a stream of
\* the Responses API that opens once, fails over at most once and never to the
\* provider that failed, and ends once, with its telemetry recorded exactly
\* when it was completed.
THEOREM AgentsAnswerWhole == Spec => []AnswersAreWhole
<1>1. LoopInv /\ RespInv => AnswersAreWhole
    BY LoopInvGivesLimits, RespInvGives DEF AnswersAreWhole
<1> QED
    BY <1>1, LoopsStayOK, ResponsesStayOK, PTL

LEMMA PipelineStaysOK == Spec => []PipeInv
<1>1. Init => PipeInv
    BY PipeStarts DEF Init
<1>2. PipeInv /\ [Next]_mcVars => PipeInv'
    BY EachPartMoves, PipeStepKeeps
<1> QED
    BY <1>1, <1>2, PTL DEF Spec

LEMMA BoardStaysOK == Spec => []BoardsOK
<1>1. Init => BoardsOK
    BY BoardStarts DEF Init
<1>2. BoardsOK /\ [Next]_mcVars => BoardsOK'
    BY EachPartMoves, BoardStepKeeps
<1> QED
    BY <1>1, <1>2, PTL DEF Spec

LEMMA LinesStayOK == Spec => []LinesOK
<1>1. Init => LinesOK
    BY BoardStarts DEF Init
<1>2. BoardsOK /\ LinesOK /\ [Next]_mcVars => LinesOK'
    BY EachPartMoves, BoardStepKeeps
<1> QED
    BY <1>1, <1>2, BoardStaysOK, PTL DEF Spec

LEMMA FilesStayOK == Spec => []FilesInv
<1>1. Init => FilesInv
    BY FilesStart DEF Init
<1>2. FilesInv /\ [Next]_mcVars => FilesInv'
    BY EachPartMoves, FilesStepKeeps
<1> QED
    BY <1>1, <1>2, PTL DEF Spec

LEMMA QueueStaysOK == Spec => []QueueInv
<1>1. Init => QueueInv
    BY QueueStarts DEF Init
<1>2. QueueInv /\ [Next]_mcVars => QueueInv'
    BY EachPartMoves, QueueStepKeeps
<1> QED
    BY <1>1, <1>2, PTL DEF Spec

LEMMA GovernanceStaysOK == Spec => []GovInv
<1>1. Init => GovInv
    BY GovStarts DEF Init
<1>2. GovInv /\ [Next]_mcVars => GovInv'
    BY EachPartMoves, GovStepKeeps
<1> QED
    BY <1>1, <1>2, PTL DEF Spec

LEMMA FactoryStaysOK == Spec => []FcInv
<1>1. Init => FcInv
    BY FcStarts DEF Init
<1>2. FcInv /\ [Next]_mcVars => FcInv'
    BY EachPartMoves, FcStepKeeps
<1> QED
    BY <1>1, <1>2, PTL DEF Spec

\* Nothing passes a gate it was stopped at, however many members vote, gates
\* run and executions end in the middle: a rule is active only with a
\* certificate of the majority, a skill is loaded only when its code was
\* vetted, a branch is published only when the ladder passed on what it holds,
\* a run that says pass was published, and what the factory distils has a
\* contract of its committee and no critical defect left open.
THEOREM AgentsPassTheirGates == Spec => []GatesHold
<1>1. GovInv /\ EngineInv /\ PipeInv /\ FcInv => GatesHold
    BY GovInvGives, EngineInvGives, PipeInvGives, FcInvGives DEF GatesHold
<1> QED
    BY <1>1, GovernanceStaysOK, EngineStaysOK, PipelineStaysOK, FactoryStaysOK, PTL

\* Whatever number of calls work on the board: a ready task has its dependencies
\* done, tasks with disjoint scopes write disjoint files, links have both ends
\* in a board that can be loaded and that no two saves wrote into at once, what
\* rolls out of the working memory is in a summary, no container outlives its
\* execution, and a dispatch plan has every task once, after what it waits for,
\* in a wave of disjoint scopes and with a peer that can do it.
THEOREM AgentsShareConsistently ==
    Spec => []( /\ ReadyMeansDepsDone /\ DisjointTasksWriteDisjointly /\ LinksAreMutual
                /\ RolledTalkIsKept /\ ContainersAreRemoved /\ PlansAreExecutable /\ AssignmentsFit )
<1>1. GraphInv /\ BoardsOK /\ EngineInv /\ BoxInv /\ FcInv =>
        /\ ReadyMeansDepsDone /\ DisjointTasksWriteDisjointly /\ LinksAreMutual
        /\ RolledTalkIsKept /\ ContainersAreRemoved /\ PlansAreExecutable /\ AssignmentsFit
    BY GraphInvGives, BoardInvGives, EngineInvGives, BoxInvGives, FcInvGives
<1> QED
    BY <1>1, GraphStaysOK, BoardStaysOK, EngineStaysOK, BoxesStayOK, FactoryStaysOK, PTL

\* No line of a task's log is lost either, by an update, a compression, an archive
\* or a death in the middle of one, while the board can be loaded and was never
\* loaded by a tool while another had it.
THEOREM AgentsKeepTheirWorkspace == Spec => []WorkspaceIsConsistent
<1>1. GraphInv /\ BoardsOK /\ LinesOK /\ EngineInv /\ BoxInv /\ FcInv => WorkspaceIsConsistent
    BY GraphInvGives, BoardInvGives, LinesInvGives, EngineInvGives, BoxInvGives, FcInvGives DEF WorkspaceIsConsistent
<1> QED
    BY <1>1, GraphStaysOK, BoardStaysOK, LinesStayOK, EngineStaysOK, BoxesStayOK, FactoryStaysOK, PTL

\* A quarantine leaves no rule active until the members left have voted again,
\* a sweep lists every phase it takes out of the queue, a working memory is replaced
\* only by a packet that was exported for its session, and no execution takes
\* a commit off a branch.
THEOREM AgentsFinishTheirSteps == Spec => QuarantineRevokes /\ SweptPhasesAreListed /\ ImportsAreExports /\ BranchesOnlyGrow
<1>1. GovInv /\ [Next]_mcVars => RevokesAll
    BY EachPartMoves, GovStepKeeps
<1>2. QueueInv /\ [Next]_mcVars => QueueHeld
    BY EachPartMoves, QueueStepKeeps
<1>3. EngineInv /\ [Next]_mcVars => ImportsOnly
    BY EachPartMoves, ImportsAreOfExports
<1>4. PipeInv /\ [Next]_mcVars => BranchesGrow
    BY EachPartMoves, PipeStepKeeps
<1>5. Spec => [][RevokesAll]_govVars
    BY <1>1, GovernanceStaysOK, PTL DEF Spec
<1>6. Spec => [][QueueHeld]_tbVars
    BY <1>2, QueueStaysOK, PTL DEF Spec
<1>7. Spec => [][ImportsOnly]_egVars
    BY <1>3, EngineStaysOK, PTL DEF Spec
<1>8. Spec => [][BranchesGrow]_plVars
    BY <1>4, PipelineStaysOK, PTL DEF Spec
<1> QED
    BY <1>5, <1>6, <1>7, <1>8 DEF QuarantineRevokes, RevokesAll, SweptPhasesAreListed, QueueHeld, ImportsAreExports,
                                 ImportsOnly, BranchesOnlyGrow, BranchesGrow

\* A rollback restores every file that its copy, its removal and its restoration
\* did not fail for and that no other dispatch changed while it was open,
\* however many dispatches share the workspace; and the steps above are complete.
THEOREM AgentsCompleteTheirSteps == Spec => StepsAreComplete
<1> DEFINE Restored == \A d \in Dispatches : sbTx[d] = "restoring" /\ sbTx'[d] = "undone" =>
                          \A f \in Answerable(d) : sbDisk'[f] = sbEntry[d][f]
<1>1. FilesInv /\ [Next]_mcVars => Restored
    BY EachPartMoves, FilesStepKeeps
<1>2. Spec => [][Restored]_sbVars
    <2> HIDE DEF Restored
    <2> QED
        BY <1>1, FilesStayOK, PTL DEF Spec
<1>3. Spec => RollbackRestores
    BY <1>2 DEF RollbackRestores, Answerable
<1> QED
    BY <1>3, AgentsFinishTheirSteps DEF StepsAreComplete

=============================================================================
