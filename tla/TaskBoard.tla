----------------------------- MODULE TaskBoard -----------------------------
(***************************************************************************)
(* The agents' task workspace: the tools of skills/tool_workspace.py and    *)
(* skills/tool_log.py on workspace.json, and the sweep of the task queue    *)
(* .agent/agent_tasks.md in core/log_compactor.py, which every successful   *)
(* workflow runs.                                                           *)
(*                                                                          *)
(* Every tool loads the whole board, changes it and saves it whole, on a    *)
(* thread of its own: Callers are those threads, and no lock is between     *)
(* them.  A log line is a number, 0 for the line that says that a log was   *)
(* compressed.  Saving empties workspace.json when it opens it, writes the  *)
(* JSON and then renders the Markdown; a render that follows first children *)
(* around a cycle never ends.                                               *)
(***************************************************************************)
EXTENDS Naturals, Sequences, FiniteSets, SequencesExt, FiniteSetsExt

CONSTANTS BoardTasks, Callers, MaxLines, Phases, SweepThreshold, MaxSweeps

ASSUME TaskBoardAssumption ==
  /\ IsFiniteSet(BoardTasks) /\ Phases \subseteq Nat /\ IsFiniteSet(Phases)
  /\ MaxLines \in Nat /\ SweepThreshold \in Nat /\ MaxSweeps \in Nat

VARIABLES
  wbFile,     \* the board in workspace.json, or the last one it had
  wbTorn,     \* workspace.json is not JSON: it was emptied and not written
  wbCall,     \* caller -> "idle", or the board it saves and how far it is
  wbLines,    \* log lines written so far
  wbArchive,  \* lines in workspace/logs/<month>.md
  wbDropped,  \* ghost: lines the compression left out on purpose
  wbOverlap,  \* ghost: a board was loaded while another call had one
  wbMixed,    \* ghost: two saves had the file open at the same time
  tqHeads,    \* COMPLETED PHASES headings in agent_tasks.md
  tqArchive,  \* the phases listed as completed, in order
  tqActive,   \* phase -> "none", or the state of its checklist
  tqSweeps    \* sweeps of the queue so far

savedVars == <<wbFile, wbTorn, wbMixed>>
boardVars == <<savedVars, wbCall, wbLines, wbArchive, wbDropped, wbOverlap>>
queueVars == <<tqHeads, tqArchive, tqActive, tqSweeps>>
tbVars == <<boardVars, queueVars>>

Absent == [status |-> "absent", deps |-> << >>, kids |-> << >>, logs |-> << >>]
NewTask == [Absent EXCEPT !.status = "Todo"]
IdleCall == [at |-> "idle", board |-> << >>]

TaskBoardInit ==
  /\ wbFile = [t \in BoardTasks |-> Absent]
  /\ wbCall = [c \in Callers |-> IdleCall]
  /\ wbLines = 0 /\ wbArchive = {} /\ wbDropped = {}
  /\ wbTorn = FALSE /\ wbOverlap = FALSE /\ wbMixed = FALSE
  /\ tqHeads = 1 /\ tqArchive = << >>
  /\ tqActive = [p \in Phases |-> "none"] /\ tqSweeps = 0

\* Calls between their load and the end of their save, and those in the file.
Busy == {c \in Callers : wbCall[c].at \in {"saving", "writing", "mixing"}}
Writing == {c \in Callers : wbCall[c].at \in {"writing", "mixing"}}

OnBoard(board) == {t \in BoardTasks : board[t].status # "absent"}

-----------------------------------------------------------------------------
(* The tools.  Each loads the board, which raises when the file is torn, and *)
(* prepares the one it will save.                                           *)

Prepare(c, board) ==
  /\ wbCall[c].at = "idle" /\ ~wbTorn
  /\ wbCall' = [wbCall EXCEPT ![c] = [at |-> "saving", board |-> board]]
  /\ wbOverlap' = (wbOverlap \/ Busy # {})

\* workspace_add_task, with at most one dependency, which may be the new task
AddBoardTask(c, t, dep) ==
  /\ t \notin OnBoard(wbFile)
  /\ LET added == [wbFile EXCEPT ![t] = NewTask]
     IN Prepare(c, IF dep \in OnBoard(added)
                   THEN [added EXCEPT ![t].deps = Append(@, dep), ![dep].kids = Append(@, t)]
                   ELSE added)
  /\ UNCHANGED <<savedVars, wbLines, wbArchive, wbDropped>>

\* Mutant: only the child knows of the link.
LinkChildOnly(board, p, t) ==
  IF Contains(board[t].deps, p) THEN board ELSE [board EXCEPT ![t].deps = Append(@, p)]

\* workspace_link_tasks: each end is linked unless it already is
Linked(board, p, t) ==
  LET child == IF Contains(board[t].deps, p) THEN board ELSE [board EXCEPT ![t].deps = Append(@, p)]
  IN IF Contains(child[p].kids, t) THEN child ELSE [child EXCEPT ![p].kids = Append(@, t)]

LinkTasks(c, p, t) ==
  /\ {p, t} \subseteq OnBoard(wbFile)
  /\ Prepare(c, Linked(wbFile, p, t))
  /\ UNCHANGED <<savedVars, wbLines, wbArchive, wbDropped>>

\* workspace_update_status.  Done with more than three lines compresses the
\* log; without a message that raises (today is unbound) and nothing is saved.
UpdateStatus(c, t, status, message) ==
  /\ t \in OnBoard(wbFile) /\ (message => wbLines < MaxLines)
  /\ wbLines' = IF message THEN wbLines + 1 ELSE wbLines
  /\ LET logs == IF message THEN Append(wbFile[t].logs, wbLines') ELSE wbFile[t].logs
         long == status = "Done" /\ Len(logs) > 3
         kept == IF long THEN <<0>> \o SubSeq(logs, Len(logs) - 1, Len(logs)) ELSE logs
     IN /\ long => message
        /\ Prepare(c, [wbFile EXCEPT ![t].status = status, ![t].logs = kept])
        /\ wbDropped' = wbDropped \union (ToSet(logs) \ ToSet(kept))
  /\ UNCHANGED <<savedVars, wbArchive>>

\* log_append
AppendLog(c, t) ==
  /\ t \in OnBoard(wbFile) /\ wbLines < MaxLines
  /\ wbLines' = wbLines + 1
  /\ Prepare(c, [wbFile EXCEPT ![t].logs = Append(@, wbLines')])
  /\ UNCHANGED <<savedVars, wbArchive, wbDropped>>

\* log_compress_done: the first line and the last two of every long Done log
Compressible(t) == wbFile[t].status = "Done" /\ Len(wbFile[t].logs) > 3
CompressedLogs(logs) == <<Head(logs)>> \o SubSeq(logs, Len(logs) - 1, Len(logs))

CompressDone(c) ==
  LET long == {t \in BoardTasks : Compressible(t)}
  IN /\ long # {}
     /\ Prepare(c, [t \in BoardTasks |->
          IF t \in long THEN [wbFile[t] EXCEPT !.logs = CompressedLogs(@)] ELSE wbFile[t]])
     /\ wbDropped' = wbDropped \union
          UNION {ToSet(wbFile[t].logs) \ ToSet(CompressedLogs(wbFile[t].logs)) : t \in long}
     /\ UNCHANGED <<savedVars, wbLines, wbArchive>>

\* workspace_cancel_task: the task and everything below it, each once; those
\* that were not cancelled before get the line that says so
Below(board, t) ==
  {u \in BoardTasks : \A S \in SUBSET BoardTasks :
     t \in S /\ (\A v \in S : ToSet(board[v].kids) \subseteq S) => u \in S}

CancelTask(c, t) ==
  LET newly == {u \in Below(wbFile, t) : wbFile[u].status # "Cancelled"}
  IN /\ t \in OnBoard(wbFile) /\ wbLines < MaxLines
     /\ wbLines' = IF newly = {} THEN wbLines ELSE wbLines + 1
     /\ Prepare(c, [u \in BoardTasks |->
          IF u \in newly
          THEN [wbFile[u] EXCEPT !.status = "Cancelled", !.logs = Append(@, wbLines')]
          ELSE wbFile[u]])
     /\ UNCHANGED <<savedVars, wbArchive, wbDropped>>

\* log_archive_month appends the month's lines (those up to a line number) to
\* its archive file; the board without them is saved after that.
RemainingLines(logs, gone) ==
  LET kept[n \in 0..Len(logs)] ==
        IF n = 0 THEN << >>
        ELSE IF logs[n] \in gone THEN kept[n - 1] ELSE Append(kept[n - 1], logs[n])
  IN kept[Len(logs)]

WithoutLines(board, gone) ==
  [t \in BoardTasks |-> [board[t] EXCEPT !.logs = RemainingLines(@, gone)]]

LinesOn(board) == UNION {ToSet(board[t].logs) : t \in BoardTasks}

\* Mutant: the archive of the month is overwritten.
ArchiveOverwrites(c, until) ==
  LET gone == LinesOn(wbFile) \intersect 0..until
  IN /\ gone # {}
     /\ Prepare(c, WithoutLines(wbFile, gone))
     /\ wbArchive' = gone
     /\ UNCHANGED <<savedVars, wbLines, wbDropped>>

\* log_archive_month
ArchiveMonth(c, until) ==
  LET gone == LinesOn(wbFile) \intersect 0..until
  IN /\ gone # {}
     /\ Prepare(c, WithoutLines(wbFile, gone))
     /\ wbArchive' = wbArchive \union gone
     /\ UNCHANGED <<savedVars, wbLines, wbDropped>>

\* _render_ascii_dag walks from each task without dependencies along first
\* children and does not look at what it has visited.
Walk(board, t) ==
  LET at[n \in 0..Cardinality(BoardTasks)] ==
        IF n = 0 THEN <<t>>
        ELSE IF at[n - 1] = << >> \/ board[at[n - 1][1]].kids = << >> THEN << >>
             ELSE <<Head(board[at[n - 1][1]].kids)>>
  IN at[Cardinality(BoardTasks)]

RenderLoops(board) ==
  \E t \in OnBoard(board) : board[t].deps = << >> /\ Walk(board, t) # << >>

\* save opens workspace.json, which empties it.  Saves that have it open at the
\* same time write over one another.
OpenBoard(c) ==
  LET mixing == Writing # {}
  IN /\ wbCall[c].at = "saving"
     /\ wbCall' = [d \in Callers |->
          IF d = c \/ d \in Writing
          THEN [at |-> IF mixing THEN "mixing" ELSE "writing", board |-> wbCall[d].board]
          ELSE wbCall[d]]
     /\ wbTorn' = TRUE /\ wbMixed' = (wbMixed \/ mixing)
     /\ UNCHANGED <<wbFile, wbLines, wbArchive, wbDropped, wbOverlap>>

\* The JSON is closed, then the Markdown is rendered and written.
Rendered(board) == [at |-> IF RenderLoops(board) THEN "hung" ELSE "idle", board |-> << >>]

SaveBoard(c) ==
  /\ wbCall[c].at = "writing"
  /\ wbFile' = wbCall[c].board /\ wbTorn' = FALSE
  /\ wbCall' = [wbCall EXCEPT ![c] = Rendered(wbCall[c].board)]
  /\ UNCHANGED <<wbLines, wbArchive, wbDropped, wbOverlap, wbMixed>>

\* Of saves that were in the file together comes a board with tasks of each, or
\* nothing that can be loaded.
SaveMixed(c) ==
  /\ wbCall[c].at = "mixing"
  /\ \E d \in Writing : wbFile' \in {wbFile, wbCall[c].board, [t \in BoardTasks |->
       IF t \in OnBoard(wbCall[d].board) THEN wbCall[d].board[t] ELSE wbCall[c].board[t]]}
  /\ wbTorn' \in BOOLEAN
  /\ wbCall' = [wbCall EXCEPT ![c] = Rendered(wbCall[c].board)]
  /\ UNCHANGED <<wbLines, wbArchive, wbDropped, wbOverlap, wbMixed>>

\* The tool dies, or its file cannot be written, before the board is saved or
\* in the middle of it.  A line it was about to add is not on the board yet.
ToolDies(c) ==
  /\ c \in Busy
  /\ wbCall' = [wbCall EXCEPT ![c] = IdleCall]
  /\ wbDropped' = wbDropped \union
       (UNION {ToSet(wbCall[c].board[t].logs) \ ToSet(wbFile[t].logs) : t \in BoardTasks})
  /\ UNCHANGED <<savedVars, wbLines, wbArchive, wbOverlap>>

BoardNext ==
  /\ \E c \in Callers :
       \/ OpenBoard(c) \/ SaveBoard(c) \/ SaveMixed(c) \/ ToolDies(c) \/ CompressDone(c)
       \/ \E t, u \in BoardTasks : AddBoardTask(c, t, u) \/ LinkTasks(c, t, u)
       \/ \E t \in BoardTasks : AppendLog(c, t) \/ CancelTask(c, t)
       \/ \E t \in BoardTasks, s \in {"Todo", "Done"}, m \in BOOLEAN : UpdateStatus(c, t, s, m)
       \/ \E until \in 1..MaxLines : ArchiveMonth(c, until)
  /\ UNCHANGED queueVars

-----------------------------------------------------------------------------
(* agent_tasks.md.  People and agents add phases and tick their items. *)

AddPhase(p) ==
  /\ tqActive[p] = "none" /\ ~Contains(tqArchive, p)
  /\ tqActive' = [tqActive EXCEPT ![p] = "open"]
  /\ UNCHANGED <<tqHeads, tqArchive, tqSweeps>>

TickPhase(p) ==
  /\ tqActive[p] = "open"
  /\ tqActive' = [tqActive EXCEPT ![p] = "done"]
  /\ UNCHANGED <<tqHeads, tqArchive, tqSweeps>>

\* What compact_task_queue takes for the active part: the text behind the
\* first heading, up to the next one.
ActiveSeen == IF tqHeads = 1 THEN {p \in Phases : tqActive[p] # "none"} ELSE {}
DoneSeen == {p \in ActiveSeen : tqActive[p] = "done"}

\* Mutant: the phases taken out are not listed.
ArchivedLost(done) == tqArchive

Ascending(ps) ==
  LET list[S \in SUBSET ps] == IF S = {} THEN << >> ELSE <<Min(S)>> \o list[S \ {Min(S)}]
  IN list[ps]

\* The archive without repeated phases.
Archived(done) == tqArchive \o Ascending(done \ ToSet(tqArchive))

\* The archive block is written with a heading of its own under the old one,
\* and the completed phases leave the active part.
CompactTaskQueue ==
  /\ tqSweeps < MaxSweeps /\ tqSweeps' = tqSweeps + 1
  /\ IF Cardinality(DoneSeen) > SweepThreshold
     THEN /\ tqArchive' = Archived(DoneSeen)
          /\ tqActive' = [p \in Phases |-> IF p \in DoneSeen THEN "none" ELSE tqActive[p]]
          /\ tqHeads' = tqHeads + 1
     ELSE UNCHANGED <<tqHeads, tqArchive, tqActive>>

QueueNext ==
  /\ \/ CompactTaskQueue
     \/ \E p \in Phases : AddPhase(p) \/ TickPhase(p)
  /\ UNCHANGED boardVars

-----------------------------------------------------------------------------
(* Properties *)

\* The two ends of every link agree on a board that can be loaded, whichever
\* stale save wins and wherever a tool dies: a task is among its dependency's
\* children exactly when it names it (workspace_add_task,
\* workspace_link_tasks).  Two saves that had the file open together may leave
\* a board of which half is the one's and half the other's.
LinksAreMutual ==
  \/ wbTorn \/ wbMixed
  \/ \A t, u \in BoardTasks : Contains(wbFile[t].deps, u) <=> Contains(wbFile[u].kids, t)

\* No line is lost by archiving or by compressing: every line that was saved
\* and not compressed away is on the board or in the archive, also when the
\* tool died between the two writes of log_archive_month.  A board loaded
\* while another call had one loses the other's lines, and a tool that dies
\* with the file open loses the board.
LinesAreKept ==
  ~wbTorn /\ ~wbOverlap /\ Busy = {} =>
    \A l \in 1..wbLines :
      l \in wbArchive \union wbDropped \union LinesOn(wbFile)

\* A sweep never loses a phase: it leaves the active part only for the list
\* of completed phases (compact_task_queue and its deduplication).
SweptPhasesAreListed ==
  [][\A p \in Phases : tqActive[p] # "none" /\ tqActive'[p] = "none" => Contains(tqArchive', p)]_tbVars

\* "If the number of completed tasks ... exceeds the threshold, it
\* automatically compacts the completed phases": a sweep over a queue with
\* enough completed phases leaves none of them active.
SweepsCompact ==
  [][tqSweeps' > tqSweeps /\ Cardinality({p \in Phases : tqActive[p] = "done"}) > SweepThreshold
       => \A p \in Phases : tqActive'[p] # "done"]_tbVars

\* No tool call hangs: rendering the board ends, cycles or not
\* ("handle cycles gracefully").
ToolsReturn == \A c \in Callers : wbCall[c].at # "hung"
=============================================================================
