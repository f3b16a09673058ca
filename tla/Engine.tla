------------------------------- MODULE Engine -------------------------------
(***************************************************************************)
(* The agent engine (core/engine.py): the onboarding sequence, the guards  *)
(* of execute_tool and its automatic handoff, the working memory of a      *)
(* session (core/routing/memory.py) with what rolls out of it, handoff     *)
(* packets, and the skills that are generated or synthesized at run time.  *)
(***************************************************************************)
EXTENDS Integers, Sequences, FiniteSets

CONSTANTS
    EngineSessions,
    Skills,             \* names of generated skills
    Codes,              \* their contents
    OnboardingFiles,    \* length of onboarding_sequence (4)
    MaxTalkTurns,           \* auto_handoff.max_turns
    HandoffThreshold,   \* agent.handoff_threshold (5)
    Window,             \* exchanges the working memory retains (20)
    MaxExchanges,       \* bound: exchanges of a session
    MaxRestarts         \* bound: restarts of the process

ASSUME EngineAssumption ==
    /\ OnboardingFiles \in Nat /\ MaxTalkTurns \in Nat \ {0} /\ HandoffThreshold \in Nat \ {0}
    /\ Window \in Nat \ {0} /\ MaxExchanges \in Nat /\ MaxRestarts \in Nat

VARIABLES
    egRead,        \* onboarding files read in order
    egTurns,       \* _turn_count
    egRan,         \* history: tools executed since the engine was built
    egMemory,      \* the exchanges in a session's working memory
    egCount,       \* history: exchanges of a session
    egSummed,      \* exchanges of a session in its long-term summaries
    egRolledBack,  \* history: an import, or a failed summary, may have lost exchanges
    egSessionTurns,\* session_turns
    egPackets,     \* handoff packets on disk
    egExported,    \* history: memories that were exported whole
    egFiles,       \* skills/*.py that were generated, by name
    egRegistry,    \* tools_registry, by name
    egGate,        \* << >>, or the skill whose pytest gate runs
    egVetted,      \* history: codes that passed their gate or were signed
    egFound,       \* history: skills a start found on disk
    egRestarts     \* restarts so far

egTools == <<egRead, egTurns, egRan>>
egTalk == <<egMemory, egCount, egSummed, egRolledBack, egSessionTurns, egPackets, egExported>>
egSkills == <<egFiles, egRegistry, egGate, egVetted, egFound>>
egVars == <<egTools, egTalk, egSkills, egRestarts>>

NoCode == "none"

EngineInit ==
    /\ egRead = 0 /\ egTurns = 0 /\ egRan = 0
    /\ egMemory = [s \in EngineSessions |-> << >>]
    /\ egCount = [s \in EngineSessions |-> 0]
    /\ egSummed = [s \in EngineSessions |-> {}]
    /\ egRolledBack = [s \in EngineSessions |-> FALSE]
    /\ egSessionTurns = [s \in EngineSessions |-> 0]
    /\ egPackets = {} /\ egExported = {}
    /\ egFiles = [n \in Skills |-> NoCode] /\ egRegistry = [n \in Skills |-> NoCode]
    /\ egGate = << >> /\ egVetted = {} /\ egFound = {} /\ egRestarts = 0
-----------------------------------------------------------------------------
\* read_onboarding_file: the next file of the sequence counts; one that was
\* read is given again, one out of order is refused.
ReadOnboardingFile(f) ==
    /\ f = egRead + 1 /\ egRead' = f
    /\ UNCHANGED <<egTurns, egRan, egTalk, egSkills, egRestarts>>

CompleteOnboarding ==
    /\ egRead < OnboardingFiles /\ egRead' = OnboardingFiles
    /\ UNCHANGED <<egTurns, egRan, egTalk, egSkills, egRestarts>>

\* export_handoff: the packet is named after the checksum of its content; a
\* write that fails leaves a torn file, which the same content replaces.
Packets(s) ==
    {[session |-> s, memory |-> egMemory[s], state |-> st] : st \in {"whole", "torn"}}

Write(p) ==
    /\ egPackets' = {q \in egPackets : <<q.session, q.memory>> # <<p.session, p.memory>>} \cup {p}
    /\ egExported' = egExported \cup {<<p.session, p.memory>>}

\* Mutant: a call that is over the limit still runs its tool.
ExecuteToolLate(s, runs) ==
    /\ egRead = OnboardingFiles /\ egTurns <= MaxTalkTurns      \* bound: one call beyond
    /\ egTurns' = egTurns + 1
    /\ egRan' = IF runs THEN egRan + 1 ELSE egRan
    /\ UNCHANGED <<egPackets, egExported>>
    /\ UNCHANGED <<egRead, egMemory, egCount, egSummed, egRolledBack, egSessionTurns, egSkills, egRestarts>>

\* execute_tool: onboarding, the turn, the automatic handoff; then the tool
\* runs unless the request, the registry, the precheck, the policy gate or its
\* arguments refuse it.
ExecuteTool(s, runs) ==
    /\ egRead = OnboardingFiles /\ egTurns <= MaxTalkTurns      \* bound: one call beyond
    /\ egTurns' = egTurns + 1
    /\ IF egTurns' > MaxTalkTurns
       THEN (\E p \in Packets(s) : Write(p)) /\ UNCHANGED egRan
       ELSE egRan' = (IF runs THEN egRan + 1 ELSE egRan) /\ UNCHANGED <<egPackets, egExported>>
    /\ UNCHANGED <<egRead, egMemory, egCount, egSummed, egRolledBack, egSessionTurns, egSkills, egRestarts>>
-----------------------------------------------------------------------------
Range1(seq) == {seq[i] : i \in DOMAIN seq}

LastOf(seq, n) == IF Len(seq) <= n THEN seq ELSE SubSeq(seq, Len(seq) - n + 1, Len(seq))

\* Mutant: the summary is taken of half the window.
SummarizedShort(seq) == Range1(LastOf(seq, Window \div 2))

\* _on_memory_limit_reached: the window that is left after the roll.
Summarized(seq) == Range1(LastOf(seq, Window))

\* The end of a loop: append_conversation, the summary when the window rolled,
\* which may fail, and increment_turns with its handoff.
AppendConversation(s) ==
    LET talk == Append(egMemory[s], egCount[s] + 1)
        rolled == Len(talk) > Window
        turns == egSessionTurns[s] + 1
    IN  /\ egCount[s] < MaxExchanges
        /\ egCount' = [egCount EXCEPT ![s] = @ + 1]
        /\ egMemory' = [egMemory EXCEPT ![s] = LastOf(talk, Window)]
        /\ \E saved \in BOOLEAN :
              /\ ~rolled => saved
              /\ egSummed' = [egSummed EXCEPT ![s] = IF rolled /\ saved THEN @ \cup Summarized(talk) ELSE @]
              /\ egRolledBack' = [egRolledBack EXCEPT ![s] = @ \/ ~saved]
        /\ egSessionTurns' = [egSessionTurns EXCEPT ![s] = turns]
        /\ \E st \in {"whole", "torn"} :
              IF turns >= HandoffThreshold
              THEN Write([session |-> s, memory |-> LastOf(talk, Window), state |-> st])
              ELSE UNCHANGED <<egPackets, egExported>>
        /\ UNCHANGED <<egTools, egSkills, egRestarts>>

\* manual_handoff_export
ExportHandoff(s) ==
    /\ egCount[s] > 0
    /\ \E p \in Packets(s) : Write(p)
    /\ UNCHANGED <<egTools, egMemory, egCount, egSummed, egRolledBack, egSessionTurns, egSkills, egRestarts>>

\* A packet is changed on its way: the memory it carries is another one.
EditPacket(p) ==
    /\ p.state = "whole" /\ Len(p.memory) > 1
    /\ egPackets' = (egPackets \ {p}) \cup {[p EXCEPT !.memory = Tail(@), !.state = "edited"]}
    /\ UNCHANGED <<egTools, egMemory, egCount, egSummed, egRolledBack, egSessionTurns, egExported, egSkills, egRestarts>>

\* Mutant: the checksum is not compared.
ImportHandoffUnchecked(p) ==
    /\ p.state # "torn" /\ p.memory # << >>
    /\ egMemory' = [egMemory EXCEPT ![p.session] = p.memory]
    /\ egRolledBack' = [egRolledBack EXCEPT ![p.session] = TRUE]
    /\ UNCHANGED <<egTools, egCount, egSummed, egSessionTurns, egPackets, egExported, egSkills, egRestarts>>

\* import_handoff: JSON, fields and checksum; then the session's working
\* memory is replaced, however much of it is newer.
ImportHandoff(p) ==
    /\ p.state = "whole" /\ p.memory # << >>
    /\ egMemory' = [egMemory EXCEPT ![p.session] = p.memory]
    /\ egRolledBack' = [egRolledBack EXCEPT ![p.session] = TRUE]
    /\ UNCHANGED <<egTools, egCount, egSummed, egSessionTurns, egPackets, egExported, egSkills, egRestarts>>
-----------------------------------------------------------------------------
\* generate_and_load_skill: a valid code is written, then pytest is started.
GenerateSkill(n, c) ==
    /\ egGate = << >> /\ egFiles[n] # c
    /\ egFiles' = [egFiles EXCEPT ![n] = c] /\ egGate' = <<n, c>>
    /\ UNCHANGED <<egTools, egTalk, egRegistry, egVetted, egFound, egRestarts>>

Load(n) == egRegistry' = [egRegistry EXCEPT ![n] = egFiles[n]]

\* The gate passes and the module is imported from its file.
SkillGatePasses ==
    /\ egGate # << >>
    /\ egGate' = << >>
    /\ Load(egGate[1])
    /\ egVetted' = egVetted \cup {egGate[2]}
    /\ UNCHANGED <<egTools, egTalk, egFiles, egFound, egRestarts>>

\* Mutant: a gate that did not finish in time is taken for one that passed.
GateTimesOutPasses ==
    /\ egGate # << >>
    /\ egGate' = << >>
    /\ Load(egGate[1])
    /\ UNCHANGED <<egTools, egTalk, egFiles, egVetted, egFound, egRestarts>>

\* TimeoutExpired passes through: the file stays.
GateTimesOut ==
    /\ egGate # << >>
    /\ egGate' = << >>
    /\ UNCHANGED <<egTools, egTalk, egFiles, egRegistry, egVetted, egFound, egRestarts>>

\* pytest fails, or the import afterwards: the file goes, and with it what was
\* there before.
GateFails ==
    /\ egGate # << >>
    /\ egGate' = << >>
    /\ egFiles' = [egFiles EXCEPT ![egGate[1]] = NoCode]
    /\ UNCHANGED <<egTools, egTalk, egRegistry, egVetted, egFound, egRestarts>>

\* synthesize_and_register_skill: the committee has signed the code; an import
\* that fails removes the file.
SynthesizeSkill(n, c) ==
    /\ egGate = << >> /\ egFiles[n] # c
    /\ \/ /\ egFiles' = [egFiles EXCEPT ![n] = c]
          /\ egRegistry' = [egRegistry EXCEPT ![n] = c]
          /\ egVetted' = egVetted \cup {c}
       \/ /\ egFiles' = [egFiles EXCEPT ![n] = NoCode] /\ egFiles' # egFiles
          /\ UNCHANGED <<egRegistry, egVetted>>
    /\ UNCHANGED <<egTools, egTalk, egGate, egFound, egRestarts>>

\* The process ends at any moment; _discover_tools imports what is on disk.
RestartEngine ==
    /\ egRestarts < MaxRestarts /\ egRestarts' = egRestarts + 1
    /\ egRead' = 0 /\ egTurns' = 0 /\ egRan' = 0
    /\ egSessionTurns' = [s \in EngineSessions |-> 0]
    /\ egRegistry' = egFiles /\ egGate' = << >>
    /\ egFound' = egFound \cup {<<n, egFiles[n]>> : n \in {m \in Skills : egFiles[m] # NoCode}}
    /\ UNCHANGED <<egMemory, egCount, egSummed, egRolledBack, egPackets, egExported, egFiles, egVetted>>

TalkNext ==
    \/ \E s \in EngineSessions : AppendConversation(s) \/ ExportHandoff(s)
    \/ \E p \in egPackets : EditPacket(p) \/ ImportHandoff(p)

SkillNext ==
    \/ \E n \in Skills, c \in Codes : GenerateSkill(n, c) \/ SynthesizeSkill(n, c)
    \/ SkillGatePasses \/ GateTimesOut \/ GateFails

ToolNext ==
    \/ \E f \in 1 .. OnboardingFiles : ReadOnboardingFile(f)
    \/ CompleteOnboarding
    \/ \E s \in EngineSessions, runs \in BOOLEAN : ExecuteTool(s, runs)

-----------------------------------------------------------------------------
\* An engine executes at most max_turns tools; from then on every call only
\* exports a packet.
HandoffStopsTools == egRan <= MaxTalkTurns

\* What rolls out of the working memory is in a long-term summary, when the
\* summaries succeed and no handoff was imported.  The very first exchange is
\* the exception: the window is summarized after it was cut.
RolledTalkIsKept ==
    \A s \in EngineSessions : ~egRolledBack[s] =>
        2 .. egCount[s] \subseteq Range1(egMemory[s]) \cup egSummed[s]

\* A working memory that does not grow by an exchange is restored from a
\* packet: one that export_handoff wrote for this session, neither torn nor
\* edited since.
ImportsAreExports ==
    [][\A s \in EngineSessions : egMemory'[s] # egMemory[s] /\ egCount'[s] = egCount[s]
            => <<s, egMemory'[s]>> \in egExported]_egVars

\* A skill is in the registry because it passed its gate or was signed, or
\* because a start found its file.
SkillsAreVetted ==
    \A n \in Skills : egRegistry[n] # NoCode => egRegistry[n] \in egVetted \/ <<n, egRegistry[n]>> \in egFound
=============================================================================
