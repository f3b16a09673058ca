------------------------------ MODULE Sandbox ------------------------------
(***************************************************************************)
(* core/sandbox.py: FileSnapshotTransaction, which AgentCrew puts around    *)
(* every dispatch to a role, and SandboxGuard.execute_safe behind           *)
(* POST /v1/sandbox/execute.                                                *)
(*                                                                          *)
(* A file is its content: Missing, "base", or the dispatch that wrote it.   *)
(* Snapshot, deletion and restoration walk the tree file by file, and each  *)
(* file's copy or removal may fail: the failure is logged and the walk goes *)
(* on.  AtOnce bounds the transactions open at the same time:               *)
(* dispatch_to_role opens one for every call, nothing keeps the calls of    *)
(* several requests apart, and they share the workspace.                    *)
(***************************************************************************)
EXTENDS Naturals, FiniteSets

CONSTANTS Dispatches, SbFiles, AtOnce, MaxFaults, Programs

ASSUME SandboxAssumption == AtOnce \in Nat \ {0} /\ MaxFaults \in Nat /\ IsFiniteSet(Programs)

VARIABLES
  sbDisk,       \* the workspace: file -> content
  sbTx,         \* dispatch -> where its transaction stands
  sbLeft,       \* dispatch -> files its walk has not reached yet
  sbSnap,       \* dispatch -> the copies in its temporary directory
  sbEntry,      \* dispatch -> the workspace when the transaction began
  sbSkipped,    \* dispatch -> files whose copy or removal failed
  sbTouched,    \* ghost: dispatch -> files others changed since it began
  sbFaults,     \* failures of the file system so far
  sbRun,        \* program -> where its execution stands
  sbVia,        \* program -> "sdk" or "cli" once docker has been probed
  sbContainers, \* programs with a container in the docker daemon
  sbKept,       \* programs whose container could not be removed
  sbApproved,   \* programs with a valid certificate in the registry
  sbCount       \* the class counters of SandboxGuard

fileVars == <<sbDisk, sbTx, sbLeft, sbSnap, sbEntry, sbSkipped, sbTouched, sbFaults>>
boxVars == <<sbRun, sbVia, sbContainers, sbKept, sbApproved, sbCount>>
sbVars == <<fileVars, boxVars>>

Missing == "missing"
NoCopies == [f \in SbFiles |-> Missing]

SandboxInit ==
  /\ sbDisk \in [SbFiles -> {Missing, "base"}]
  /\ sbTx = [d \in Dispatches |-> "ready"]
  /\ sbLeft = [d \in Dispatches |-> {}]
  /\ sbSnap = [d \in Dispatches |-> NoCopies]
  /\ sbEntry = [d \in Dispatches |-> NoCopies]
  /\ sbSkipped = [d \in Dispatches |-> {}]
  /\ sbTouched = [d \in Dispatches |-> {}]
  /\ sbFaults = 0
  /\ sbRun = [p \in Programs |-> "idle"]
  /\ sbVia = [p \in Programs |-> "none"]
  /\ sbContainers = {} /\ sbKept = {} /\ sbApproved = {}
  /\ sbCount = [total |-> 0, blocked |-> 0, allowed |-> 0]

Present(disk) == {f \in SbFiles : disk[f] # Missing}
OpenTx == {d \in Dispatches : sbTx[d] \notin {"ready", "committed", "undone", "dead"}}

-----------------------------------------------------------------------------
(* FileSnapshotTransaction *)

\* __enter__: a temporary directory, then a walk that copies every file.
EnterTx(d) ==
  /\ sbTx[d] = "ready" /\ Cardinality(OpenTx) < AtOnce
  /\ sbTx' = [sbTx EXCEPT ![d] = "copying"]
  /\ sbLeft' = [sbLeft EXCEPT ![d] = Present(sbDisk)]
  /\ sbEntry' = [sbEntry EXCEPT ![d] = sbDisk]
  /\ UNCHANGED <<sbDisk, sbSnap, sbSkipped, sbFaults>>

\* One entry of the walk.  A copy that fails is logged and skipped.
CopyFile(d, f) ==
  /\ sbTx[d] = "copying" /\ f \in sbLeft[d]
  /\ sbLeft' = [sbLeft EXCEPT ![d] = @ \ {f}]
  /\ \/ sbSnap' = [sbSnap EXCEPT ![d][f] = sbDisk[f]] /\ UNCHANGED <<sbSkipped, sbFaults>>
     \/ /\ sbFaults < MaxFaults /\ sbFaults' = sbFaults + 1
        /\ sbSkipped' = [sbSkipped EXCEPT ![d] = @ \union {f}]
        /\ UNCHANGED sbSnap
  /\ UNCHANGED <<sbDisk, sbTx, sbEntry>>

SnapshotTaken(d) ==
  /\ sbTx[d] = "copying" /\ sbLeft[d] = {}
  /\ sbTx' = [sbTx EXCEPT ![d] = "working"]
  /\ UNCHANGED <<sbDisk, sbLeft, sbSnap, sbEntry, sbSkipped, sbFaults>>

\* The dispatched role writes or removes a file of the workspace.
RoleWrites(d, f) ==
  /\ sbTx[d] = "working"
  /\ \E content \in {Missing, d} :
       sbDisk[f] # content /\ sbDisk' = [sbDisk EXCEPT ![f] = content]
  /\ UNCHANGED <<sbTx, sbLeft, sbSnap, sbEntry, sbSkipped, sbFaults>>

\* __exit__ without an exception: only the temporary directory is removed.
CommitTx(d) ==
  /\ sbTx[d] = "working"
  /\ sbTx' = [sbTx EXCEPT ![d] = "committed"]
  /\ sbSnap' = [sbSnap EXCEPT ![d] = NoCopies]
  /\ UNCHANGED <<sbDisk, sbLeft, sbEntry, sbSkipped, sbFaults>>

\* Mutant: files created since the snapshot are left.
FirstRollbackRestores == "restoring"

\* __exit__ with an exception: rollback walks what is in the workspace now.
FirstRollbackPhase == "deleting"

BeginRollback(d) ==
  /\ sbTx[d] = "working"
  /\ sbTx' = [sbTx EXCEPT ![d] = FirstRollbackPhase]
  /\ sbLeft' = [sbLeft EXCEPT
       ![d] = IF FirstRollbackPhase = "deleting" THEN Present(sbDisk) ELSE Present(sbSnap[d])]
  /\ UNCHANGED <<sbDisk, sbSnap, sbEntry, sbSkipped, sbFaults>>

DeleteFile(d, f) ==
  /\ sbTx[d] = "deleting" /\ f \in sbLeft[d]
  /\ sbLeft' = [sbLeft EXCEPT ![d] = @ \ {f}]
  /\ \/ sbDisk' = [sbDisk EXCEPT ![f] = Missing] /\ UNCHANGED <<sbSkipped, sbFaults>>
     \/ /\ sbFaults < MaxFaults /\ sbFaults' = sbFaults + 1
        /\ sbSkipped' = [sbSkipped EXCEPT ![d] = @ \union {f}]
        /\ UNCHANGED sbDisk
  /\ UNCHANGED <<sbTx, sbSnap, sbEntry>>

\* The empty directories go and the walk over the snapshot starts.
AllDeleted(d) ==
  /\ sbTx[d] = "deleting" /\ sbLeft[d] = {}
  /\ sbTx' = [sbTx EXCEPT ![d] = "restoring"]
  /\ sbLeft' = [sbLeft EXCEPT ![d] = Present(sbSnap[d])]
  /\ UNCHANGED <<sbDisk, sbSnap, sbEntry, sbSkipped, sbFaults>>

RestoreFile(d, f) ==
  /\ sbTx[d] = "restoring" /\ f \in sbLeft[d]
  /\ sbLeft' = [sbLeft EXCEPT ![d] = @ \ {f}]
  /\ \/ sbDisk' = [sbDisk EXCEPT ![f] = sbSnap[d][f]] /\ UNCHANGED <<sbSkipped, sbFaults>>
     \/ /\ sbFaults < MaxFaults /\ sbFaults' = sbFaults + 1
        /\ sbSkipped' = [sbSkipped EXCEPT ![d] = @ \union {f}]
        /\ UNCHANGED sbDisk
  /\ UNCHANGED <<sbTx, sbSnap, sbEntry>>

\* cleanup removes the temporary directory; the exception goes on.
RollbackEnds(d) ==
  /\ sbTx[d] = "restoring" /\ sbLeft[d] = {}
  /\ sbTx' = [sbTx EXCEPT ![d] = "undone"]
  /\ sbSnap' = [sbSnap EXCEPT ![d] = NoCopies]
  /\ UNCHANGED <<sbDisk, sbLeft, sbEntry, sbSkipped, sbFaults>>

\* The process dies: nothing looks for the temporary directory afterwards.
TxDies(d) ==
  /\ d \in OpenTx /\ sbFaults < MaxFaults /\ sbFaults' = sbFaults + 1
  /\ sbTx' = [sbTx EXCEPT ![d] = "dead"]
  /\ UNCHANGED <<sbDisk, sbLeft, sbSnap, sbEntry, sbSkipped>>

\* Ghost: what a step of one dispatch changes is noted for the others that are
\* open, its writes and the files its rollback removes and puts back.
OthersNote(d) ==
  sbTouched' = [e \in Dispatches |->
                  IF e \in OpenTx \ {d}
                  THEN sbTouched[e] \union {f \in SbFiles : sbDisk'[f] # sbDisk[f]}
                  ELSE sbTouched[e]]

FileNext ==
  /\ \E d \in Dispatches :
       /\ \/ EnterTx(d) \/ SnapshotTaken(d) \/ CommitTx(d) \/ BeginRollback(d)
          \/ AllDeleted(d) \/ RollbackEnds(d) \/ TxDies(d)
          \/ \E f \in SbFiles :
               CopyFile(d, f) \/ RoleWrites(d, f) \/ DeleteFile(d, f) \/ RestoreFile(d, f)
       /\ OthersNote(d)
  /\ UNCHANGED boxVars

-----------------------------------------------------------------------------
(* SandboxGuard.execute_safe *)

\* A committee registers a valid certificate for a program's hash.
RegisterConsensus(p) ==
  /\ p \notin sbApproved
  /\ sbApproved' = sbApproved \union {p}
  /\ UNCHANGED <<sbRun, sbVia, sbContainers, sbKept, sbCount>>

\* is_consensus_approved, then the sandbox type, then the two docker probes.
Refused(p) ==
  /\ sbRun[p] = "idle"
  /\ sbRun' = [sbRun EXCEPT ![p] = "blocked"]
  /\ sbCount' = [sbCount EXCEPT !.total = @ + 1, !.blocked = @ + 1]
  /\ UNCHANGED <<sbVia, sbContainers, sbKept, sbApproved>>

Probed(p) ==
  /\ sbRun[p] = "idle" /\ p \in sbApproved
  /\ sbRun' = [sbRun EXCEPT ![p] = "probed"]
  /\ \E via \in {"sdk", "cli"} : sbVia' = [sbVia EXCEPT ![p] = via]
  /\ sbCount' = [sbCount EXCEPT !.total = @ + 1]
  /\ UNCHANGED <<sbContainers, sbKept, sbApproved>>

\* LAS_SANDBOX_IMAGE is set to nothing: raised before anything is counted.
NoImage(p) ==
  /\ sbRun[p] = "probed"
  /\ sbRun' = [sbRun EXCEPT ![p] = "noimage"]
  /\ UNCHANGED <<sbVia, sbContainers, sbKept, sbApproved, sbCount>>

ContainerStarts(p) ==
  /\ sbRun[p] = "probed"
  /\ sbRun' = [sbRun EXCEPT ![p] = "running"]
  /\ sbContainers' = sbContainers \union {p}
  /\ UNCHANGED <<sbVia, sbKept, sbApproved, sbCount>>

\* Mutant: the failed start is not counted.
StartFailsUncounted(p) ==
  /\ sbRun[p] = "probed"
  /\ sbRun' = [sbRun EXCEPT ![p] = "failed"]
  /\ UNCHANGED <<sbVia, sbContainers, sbKept, sbApproved, sbCount>>

\* containers.run or `docker run` raises before a container exists.
StartFails(p) ==
  /\ sbRun[p] = "probed"
  /\ sbRun' = [sbRun EXCEPT ![p] = "failed"]
  /\ sbCount' = [sbCount EXCEPT !.blocked = @ + 1]
  /\ UNCHANGED <<sbVia, sbContainers, sbKept, sbApproved>>

\* The program ends: `docker run --rm` removes its container; over the SDK
\* the code still has to.
ProgramEnds(p) ==
  /\ sbRun[p] = "running"
  /\ sbRun' = [sbRun EXCEPT ![p] = "ended"]
  /\ sbContainers' = IF sbVia[p] = "cli" THEN sbContainers \ {p} ELSE sbContainers
  /\ UNCHANGED <<sbVia, sbKept, sbApproved, sbCount>>

\* wait or the CLI call times out after TIMEOUT_SECONDS.  The timeout kills
\* the docker client only, so a container started by the CLI goes on.
ProgramTimesOut(p) ==
  /\ sbRun[p] = "running"
  /\ sbRun' = [sbRun EXCEPT ![p] = "timedout"]
  /\ sbCount' = [sbCount EXCEPT !.blocked = @ + 1]
  /\ sbKept' = IF sbVia[p] = "cli" THEN sbKept \union {p} ELSE sbKept
  /\ UNCHANGED <<sbVia, sbContainers, sbApproved>>

\* Mutant: a container that timed out is left.
NotAfterTimeout == {"ended"}

\* finally: container.remove(force=True), whatever happened before.
RemovedAfter == {"ended", "timedout"}

Removed(p) ==
  /\ sbVia[p] = "sdk" /\ sbRun[p] \in RemovedAfter
  /\ \/ sbContainers' = sbContainers \ {p} /\ UNCHANGED sbKept
     \/ sbKept' = sbKept \union {p} /\ UNCHANGED sbContainers
  /\ sbRun' = [sbRun EXCEPT ![p] = IF @ = "ended" THEN "collected" ELSE "failed"]
  /\ UNCHANGED <<sbVia, sbApproved, sbCount>>

\* The output is cut, counted and audited, and the answer is returned.
Answered(p) ==
  /\ \/ sbRun[p] = "collected"
     \/ sbRun[p] = "ended" /\ sbVia[p] = "cli"
  /\ sbRun' = [sbRun EXCEPT ![p] = "answered"]
  /\ sbCount' = [sbCount EXCEPT !.allowed = @ + 1]
  /\ UNCHANGED <<sbVia, sbContainers, sbKept, sbApproved>>

\* The RuntimeError of a timeout reaches the route.
Raised(p) ==
  /\ sbRun[p] = "timedout" /\ (sbVia[p] = "cli" \/ "timedout" \notin RemovedAfter)
  /\ sbRun' = [sbRun EXCEPT ![p] = "failed"]
  /\ UNCHANGED <<sbVia, sbContainers, sbKept, sbApproved, sbCount>>

BoxNext ==
  /\ \E p \in Programs :
       \/ RegisterConsensus(p) \/ Refused(p) \/ Probed(p) \/ NoImage(p)
       \/ ContainerStarts(p) \/ StartFails(p) \/ ProgramEnds(p) \/ ProgramTimesOut(p)
       \/ Removed(p) \/ Answered(p) \/ Raised(p)
  /\ UNCHANGED fileVars

-----------------------------------------------------------------------------
(* Properties *)

\* When a rollback has ended, every file whose copy, removal and restoration
\* succeeded is as it was when the transaction began, and what the role
\* created is gone (FileSnapshotTransaction.rollback), whatever the role wrote
\* in between and whatever other dispatches did to the other files: a dispatch
\* answers for every file that no other one changed while it was open.
RollbackRestores ==
  [][\A d \in Dispatches : sbTx[d] = "restoring" /\ sbTx'[d] = "undone" =>
       \A f \in SbFiles \ (sbSkipped[d] \union sbTouched[d]) : sbDisk'[f] = sbEntry[d][f]]_sbVars

\* No rollback begins over what another dispatch wrote and committed while it
\* was open (the swarm conflict audit the lessons ask for before a rollback):
\* false, rollback removes every file and looks at none.
RollbacksSpareCommits ==
  [][\A d, e \in Dispatches : sbTx[d] = "working" /\ sbTx'[d] = "deleting" /\ sbTx[e] = "committed" =>
       \A f \in sbTouched[d] : sbDisk[f] # e]_sbVars

\* No container outlives its execution, except where its removal failed or
\* the docker client was killed by the timeout (the finally of execute_safe):
\* a program that loops forever must not keep its container.
ContainersAreRemoved ==
  \A p \in Programs :
    sbRun[p] \in {"answered", "failed", "blocked", "noimage"} =>
      p \notin sbContainers \ sbKept

\* The counters add up: every execution is counted once as blocked or allowed
\* when it has ended, except one that found no image (execute_safe raises
\* there without counting it).
ExecutionsAreCountedOnce ==
  sbCount.total = sbCount.blocked + sbCount.allowed
    + Cardinality({p \in Programs : \/ sbRun[p] \in {"probed", "running", "noimage", "collected"}
                                    \/ sbRun[p] = "ended"})
=============================================================================
