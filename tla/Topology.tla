------------------------------ MODULE Topology ------------------------------
(***************************************************************************)
(* The topology bridge (topology_bridge.py) and the stream runner that     *)
(* feeds it (topology_stream.py).  The runner mirrors the events of one    *)
(* agent stream into topology_state.json: an emitter keeps one node per    *)
(* identifier, rewrites the whole state into a temporary file and replaces *)
(* the state file with it, and a later runner of the same session starts   *)
(* from the nodes it finds there.  The statuses are stored under the names *)
(* of the viewer and mapped back on loading.                               *)
(*                                                                         *)
(* A tool's node is named after the tool and the number of tools seen so   *)
(* far, and a result finds its node through the tool's name alone.         *)
(***************************************************************************)
EXTENDS Naturals, Sequences, FiniteSets

CONSTANTS
    StreamSessions,  \* session identifiers
    StreamTools,     \* tool names
    BatchSize,       \* most tool calls the router announces before the results
    MaxBatches,      \* bound: batches of one stream
    MaxStreams       \* bound: streams over the life of the file

ASSUME TopologyConstants ==
    /\ BatchSize \in Nat \ {0} /\ MaxBatches \in Nat /\ MaxStreams \in Nat

VARIABLES
    tpRun,      \* the running stream: [session, phase, calls, batches]
    tpNodes,    \* _nodes_by_id of its emitter: node -> status
    tpActive,   \* active_tool_nodes: tool -> node
    tpWrite,    \* _atomic_write: "none", "partial" or "full" temporary file
    tpFile,     \* topology_state.json: << >>, or << session, nodes >>
    tpSaved,    \* ghost: what was emitted and replaced last, or << >>
    tpLeft,     \* ghost: running nodes no result will come for, those of an
                \* earlier stream that was cut off included
    tpStreams   \* streams started so far

tpVars == << tpRun, tpNodes, tpActive, tpWrite, tpFile, tpSaved, tpLeft, tpStreams >>

Statuses == {"pending", "running", "completed", "error", "awaiting_approval"}
RootNode == << "session", 0 >>
TraceNode == << "conductor", 0 >>
ErrorNode == << "error", 0 >>
ToolNode(t, n) == << t, n >>

NoRun == [session |-> << >>, phase |-> "idle", calls |-> << >>, batches |-> 0]

(***************************************************************************)
(* _build_state and _load_existing_state: the two status tables.           *)
(***************************************************************************)
UiStatus(st) ==
    CASE st = "pending" -> "todo"
      [] st = "running" -> "in_process"
      [] st = "awaiting_approval" -> "review"
      [] st = "completed" -> "done"
      [] st = "error" -> "error"

\* Mutant: a running node is not mapped back.
LoadedStatusPartial(ui) ==
    CASE ui = "todo" -> "pending"
      [] ui = "review" -> "awaiting_approval"
      [] ui = "done" -> "completed"
      [] OTHER -> ui

LoadedStatus(ui) ==
    CASE ui = "todo" -> "pending"
      [] ui = "in_process" -> "running"
      [] ui = "review" -> "awaiting_approval"
      [] ui = "done" -> "completed"
      [] OTHER -> ui

Built(nodes) == [n \in DOMAIN nodes |-> UiStatus(nodes[n])]

\* __post_init__ refuses a status it does not know; the loader then skips the node
Restored(stored) ==
    LET known == {n \in DOMAIN stored : LoadedStatus(stored[n]) \in Statuses}
    IN [n \in known |-> LoadedStatus(stored[n])]

With(nodes, n, st) == [x \in DOMAIN nodes \union {n} |-> IF x = n THEN st ELSE nodes[x]]

TopologyInit ==
    /\ tpRun = NoRun /\ tpNodes = << >> /\ tpActive = << >>
    /\ tpWrite = "none" /\ tpFile = << >> /\ tpSaved = << >>
    /\ tpLeft = {} /\ tpStreams = 0

(***************************************************************************)
(* emit: the node changes in memory and the write of the whole state       *)
(* begins.  Nothing else happens in the process until it ends.             *)
(***************************************************************************)
Emit(n, st) ==
    /\ tpWrite = "none"
    /\ tpNodes' = With(tpNodes, n, st)
    /\ tpWrite' = "partial"

\* TopologyEmitter(...) and the first emit_session_root
StartStream(s) ==
    /\ tpRun.phase = "idle" /\ tpStreams < MaxStreams
    /\ LET found == IF tpFile # << >> /\ tpFile[1] = s THEN Restored(tpFile[2]) ELSE << >>
       IN /\ tpNodes' = With(found, RootNode, "running")
          /\ tpLeft' = {n \in DOMAIN found : found[n] = "running"}
    /\ tpWrite' = "partial"
    /\ tpRun' = [NoRun EXCEPT !.session = s, !.phase = "stream"]
    /\ tpActive' = << >>
    /\ tpStreams' = tpStreams + 1
    /\ UNCHANGED << tpFile, tpSaved >>

\* json.dump, flush and fsync of the temporary file
WriteTmp ==
    /\ tpWrite = "partial"
    /\ tpWrite' = "full"
    /\ UNCHANGED << tpRun, tpNodes, tpActive, tpFile, tpSaved, tpLeft, tpStreams >>

\* os.replace
ReplaceFile ==
    /\ tpWrite = "full"
    /\ tpWrite' = "none"
    /\ tpFile' = << tpRun.session, Built(tpNodes) >>
    /\ tpSaved' = << tpRun.session, tpNodes >>
    /\ UNCHANGED << tpRun, tpNodes, tpActive, tpLeft, tpStreams >>

Streaming == tpRun.phase = "stream"

\* Mutant: the first node of a tool stays the active one.
ActivatedOnce(t, n) == IF t \in DOMAIN tpActive THEN tpActive ELSE With(tpActive, t, n)

\* event "tool_call": the router announces the calls of a batch first
Activated(t, n) == With(tpActive, t, n)

ToolCallSeen(t) ==
    /\ Streaming /\ Len(tpRun.calls) < BatchSize /\ tpRun.batches < MaxBatches
    /\ LET n == ToolNode(t, Cardinality(DOMAIN tpActive) + 1)
           same == {i \in 1..Len(tpRun.calls) : tpRun.calls[i] = t}
       IN /\ Emit(n, "running")
          /\ tpActive' = Activated(t, n)
          \* the node of an earlier call of the same tool loses its result
          /\ tpLeft' = (tpLeft \ {n}) \union (IF same = {} THEN {} ELSE {tpActive[t]} \ {n})
    /\ tpRun' = [tpRun EXCEPT !.calls = Append(@, t)]
    /\ UNCHANGED << tpFile, tpSaved, tpStreams >>

\* the batch is complete: the results come in the order of the calls
BatchAnnounced ==
    /\ Streaming /\ tpRun.calls # << >> /\ tpWrite = "none"
    /\ tpRun' = [tpRun EXCEPT !.phase = "results", !.batches = @ + 1]
    /\ UNCHANGED << tpNodes, tpActive, tpWrite, tpFile, tpSaved, tpLeft, tpStreams >>

\* event "tool_result"; a handoff ends the batch and the stream
ToolResultSeen(failed, handoff) ==
    /\ tpRun.phase = "results"
    /\ LET t == Head(tpRun.calls)
           rest == Tail(tpRun.calls)
       IN /\ Emit(tpActive[t], IF failed THEN "error" ELSE "completed")
          /\ tpRun' = [tpRun EXCEPT !.calls = IF handoff THEN << >> ELSE rest,
                          !.phase = IF handoff THEN "end" ELSE IF rest = << >> THEN "stream" ELSE @]
          /\ tpLeft' = IF handoff
                       THEN tpLeft \union {tpActive[rest[i]] : i \in 1..Len(rest)}
                       ELSE tpLeft
    /\ ~(failed /\ handoff)
    /\ UNCHANGED << tpActive, tpFile, tpSaved, tpStreams >>

\* event "conductor_trace"
TraceSeen ==
    /\ Streaming /\ tpRun.calls = << >>
    /\ Emit(TraceNode, "completed")
    /\ UNCHANGED << tpRun, tpActive, tpFile, tpSaved, tpLeft, tpStreams >>

\* event "done"
DoneSeen ==
    /\ \/ Streaming /\ tpRun.calls = << >>
       \/ tpRun.phase = "end"
    /\ Emit(RootNode, "completed")
    /\ tpRun' = [tpRun EXCEPT !.phase = "done"]
    /\ UNCHANGED << tpActive, tpFile, tpSaved, tpLeft, tpStreams >>

\* event "error": the calls announced so far stay without a result
ErrorSeen ==
    /\ Streaming
    /\ Emit(ErrorNode, "error")
    /\ tpLeft' = tpLeft \union {tpActive[tpRun.calls[i]] : i \in 1..Len(tpRun.calls)}
    /\ tpRun' = [tpRun EXCEPT !.phase = "failed", !.calls = << >>]
    /\ UNCHANGED << tpActive, tpFile, tpSaved, tpStreams >>

ErrorRoot ==
    /\ tpRun.phase = "failed"
    /\ Emit(RootNode, "error")
    /\ tpRun' = [tpRun EXCEPT !.phase = "done"]
    /\ UNCHANGED << tpActive, tpFile, tpSaved, tpLeft, tpStreams >>

\* the process ends: after its last write, or killed, or by a replace that
\* was refused eight times; the temporary file is rewritten by the next one
EndStream ==
    /\ tpRun.phase # "idle"
    /\ tpRun' = NoRun /\ tpNodes' = << >> /\ tpActive' = << >>
    /\ tpWrite' = "none" /\ tpLeft' = {}
    /\ UNCHANGED << tpFile, tpSaved, tpStreams >>

TopologyNext ==
    \/ \E s \in StreamSessions : StartStream(s)
    \/ WriteTmp \/ ReplaceFile
    \/ \E t \in StreamTools : ToolCallSeen(t)
    \/ BatchAnnounced
    \/ \E failed, handoff \in BOOLEAN : ToolResultSeen(failed, handoff)
    \/ TraceSeen \/ DoneSeen \/ ErrorSeen \/ ErrorRoot \/ EndStream

-----------------------------------------------------------------------------
(***************************************************************************)
(* A crash at any point of a write loses nothing that was replaced before: *)
(* loading the file gives back every node with the status last emitted     *)
(* (the temporary file, the replace, and the two status tables together).  *)
(***************************************************************************)
ReloadGivesBackTheTopology ==
    /\ (tpFile = << >>) <=> (tpSaved = << >>)
    /\ tpFile # << >> => /\ tpFile[1] = tpSaved[1]
                         /\ Restored(tpFile[2]) = tpSaved[2]

(***************************************************************************)
(* When a stream has ended no node of it is left running, except tool nodes *)
(* whose result never comes: behind a handoff or an error, or displaced by *)
(* a second call of the same tool in one batch.  Results are matched to    *)
(* nodes by tool name only, over several batches.                          *)
(***************************************************************************)
ToolNodesSettle ==
    tpRun.phase = "done" =>
        \A n \in DOMAIN tpNodes : tpNodes[n] = "running" => n \in tpLeft
=============================================================================
